--------------------------- MODULE FileWALProofs ---------------------------
(***************************************************************************)
(* Proofs about the write-ahead log, its search and its replay, for any    *)
(* segment sizes, size of the height index, numbers of heights, messages,  *)
(* stops and crashes.                                                      *)
(***************************************************************************)
EXTENDS FileWAL, SumProofs

(* The write-ahead log.  A position in the log is a segment and a place in *)
(* it; IsMsg says that a message is there, and no cut record.              *)
Earlier(i, k, j, l) == i < j \/ (i = j /\ k < l)
IsMsg(f, i, k) ==
  i \in Nat /\ k \in Nat /\ i \in DOMAIN f /\ k \in DOMAIN f[i] /\ f[i][k] \notin Cuts

(* f has no message that g has not at the same position. *)
Within(f, g) == \A i, k : IsMsg(f, i, k) => IsMsg(g, i, k) /\ g[i][k] = f[i][k]

(* f has only messages of g and, behind them all, m. *)
Adds(f, g, m) ==
  \E a \in Nat, b \in Nat :
    /\ \A i, k : IsMsg(g, i, k) => Earlier(i, k, a, b)
    /\ \A i, k : IsMsg(f, i, k) => \/ IsMsg(g, i, k) /\ g[i][k] = f[i][k]
                                   \/ i = a /\ k = b /\ f[i][k] = m

(* What is in a segment of f is in the same segment of g. *)
Grows(f, g) == \A i \in DOMAIN f : i \in DOMAIN g /\ ToSet(f[i]) \subseteq ToSet(g[i])

Ends(f, i, k) == IsMsg(f, i, k) /\ f[i][k].type = "EndHeight"

(* The messages are in the order of their numbers, which go to c, and no   *)
(* height has two ends, nor one above t.                                   *)
LogOK(f, c, t) ==
  /\ \A i, k : IsMsg(f, i, k) => f[i][k] \in Message /\ f[i][k].n <= c
  /\ \A i, k, j, l : IsMsg(f, i, k) /\ IsMsg(f, j, l) /\ Earlier(i, k, j, l) => f[i][k].n < f[j][l].n
  /\ \A i, k : Ends(f, i, k) => f[i][k].h <= t
  /\ \A i, k, j, l : Ends(f, i, k) /\ Ends(f, j, l) /\ f[i][k].h = f[j][l].h => i = j /\ k = l

FilesOK(f, c) ==
  /\ DOMAIN f \subseteq 0 .. c
  /\ \A i \in DOMAIN f : f[i] \in Seq(Message \cup Cuts)

WalFields == {"files", "started", "maxSegSize", "buf", "segmentIndex", "minIndex", "heightIndex"}
WalOK(w, c) ==
  /\ DOMAIN w = WalFields
  /\ FilesOK(w.files, c)
  /\ w.buf \in Seq(Message)
  /\ w.started \in BOOLEAN
  /\ w.started => /\ w.minIndex \in Nat /\ w.segmentIndex \in DOMAIN w.files
                  /\ \A i \in DOMAIN w.files : w.minIndex <= i /\ i <= w.segmentIndex
  /\ ~w.started => w.buf = <<>>
  /\ DOMAIN w.heightIndex \subseteq LogHeights

(* The files with what is still buffered. *)
Whole(w) == IF w.started THEN flushAndSync(w).files ELSE w.files

LogInv ==
  /\ WalOK(wal, count)
  /\ count \in 0 .. MaxMessages /\ checkpoint \in Nat
  /\ height \in 1 .. MaxLogHeight + 1 /\ applied \in {height - 1, height}
  /\ applied = height => height \in LogHeights
  /\ durable \subseteq Message
  /\ LogOK(Whole(wal), count, IF wal.started THEN height - 1 ELSE applied)
  /\ \A m \in durable \ lost : m.h > checkpoint =>
       \E i \in DOMAIN wal.files : m \in ToSet(wal.files[i])

-----------------------------------------------------------------------------
LEMMA MessageFacts ==
  ASSUME NEW m \in Message
  PROVE  m \notin Cuts /\ m.n \in Nat /\ m.h \in Nat /\ m.h \in LogHeights
BY WALAssumption DEF Message, Cuts, CutAtField, CutInField, LogHeights

LEMMA OKWithin ==
  ASSUME NEW f, NEW g, NEW c \in Int, NEW t \in Int, NEW d \in Int, NEW u \in Int,
         LogOK(g, c, t), Within(f, g), c <= d, t <= u
  PROVE  LogOK(f, d, u)
<1>1. \A i, k : IsMsg(f, i, k) => IsMsg(g, i, k) /\ g[i][k] = f[i][k]
  BY DEF Within
<1>2. \A i, k : Ends(f, i, k) => Ends(g, i, k) /\ g[i][k] = f[i][k]
  BY <1>1 DEF Ends
<1>3. ASSUME NEW i, NEW k, IsMsg(f, i, k) PROVE f[i][k] \in Message /\ f[i][k].n <= d
  BY <1>1, <1>3, MessageFacts DEF LogOK
<1>4. ASSUME NEW i, NEW k, NEW j, NEW l, IsMsg(f, i, k), IsMsg(f, j, l), Earlier(i, k, j, l)
      PROVE  f[i][k].n < f[j][l].n
  BY <1>1, <1>4 DEF LogOK
<1>5. ASSUME NEW i, NEW k, Ends(f, i, k) PROVE f[i][k].h <= u
  <2>1. Ends(g, i, k) /\ g[i][k] = f[i][k]
    BY <1>2, <1>5
  <2>2. g[i][k].h <= t /\ g[i][k].h \in Nat
    BY <2>1, MessageFacts DEF LogOK, Ends
  <2>3. QED
    BY <2>1, <2>2
<1>6. ASSUME NEW i, NEW k, NEW j, NEW l, Ends(f, i, k), Ends(f, j, l), f[i][k].h = f[j][l].h
      PROVE  i = j /\ k = l
  BY <1>2, <1>6 DEF LogOK
<1>7. QED
  BY <1>3, <1>4, <1>5, <1>6 DEF LogOK

(* A message with the next number goes behind the others; if it ends a     *)
(* height, one that has no end yet.                                        *)
LEMMA OKAdds ==
  ASSUME NEW f, NEW g, NEW c \in Nat, NEW t \in Int, NEW u \in Int, NEW m \in Message,
         LogOK(g, c, t), Adds(f, g, m), m.n = c + 1, t <= u,
         m.type = "EndHeight" => t < m.h /\ m.h <= u
  PROVE  LogOK(f, c + 1, u)
<1>1. PICK a \in Nat, b \in Nat :
        /\ \A i, k : IsMsg(g, i, k) => Earlier(i, k, a, b)
        /\ \A i, k : IsMsg(f, i, k) => \/ IsMsg(g, i, k) /\ g[i][k] = f[i][k]
                                       \/ i = a /\ k = b /\ f[i][k] = m
  BY DEF Adds
<1>2. m.h \in Nat
  BY MessageFacts
<1>3. ASSUME NEW i, NEW k, IsMsg(f, i, k) PROVE f[i][k] \in Message /\ f[i][k].n <= c + 1
  <2>1. CASE IsMsg(g, i, k) /\ g[i][k] = f[i][k]
    BY <2>1, MessageFacts DEF LogOK
  <2>2. CASE f[i][k] = m
    BY <2>2
  <2>3. QED
    BY <1>1, <1>3, <2>1, <2>2
<1>4. ASSUME NEW i, NEW k, NEW j, NEW l, IsMsg(f, i, k), IsMsg(f, j, l), Earlier(i, k, j, l)
      PROVE  f[i][k].n < f[j][l].n
  <2>1. CASE IsMsg(g, i, k) /\ g[i][k] = f[i][k]
    <3>1. CASE IsMsg(g, j, l) /\ g[j][l] = f[j][l]
      BY <2>1, <3>1, <1>4 DEF LogOK
    <3>2. CASE f[j][l] = m
      BY <2>1, <3>2, MessageFacts DEF LogOK
    <3>3. QED
      BY <1>1, <1>4, <3>1, <3>2
  <2>2. CASE i = a /\ k = b
    <3>1. IsMsg(g, j, l) => Earlier(j, l, a, b)
      BY <1>1
    <3>2. ~IsMsg(g, j, l)
      BY <3>1, <2>2, <1>4 DEF Earlier, IsMsg
    <3>3. j = a /\ l = b
      BY <3>2, <1>1, <1>4
    <3>4. QED
      BY <3>3, <2>2, <1>4 DEF Earlier
  <2>3. QED
    BY <1>1, <1>4, <2>1, <2>2
<1>5. ASSUME NEW i, NEW k, Ends(f, i, k) PROVE f[i][k].h <= u
  <2>1. CASE IsMsg(g, i, k) /\ g[i][k] = f[i][k]
    <3>1. g[i][k].h <= t /\ g[i][k].h \in Nat
      BY <2>1, <1>5, MessageFacts DEF LogOK, Ends
    <3>2. QED
      BY <3>1, <2>1
  <2>2. CASE f[i][k] = m
    BY <2>2, <1>5, <1>2 DEF Ends
  <2>3. QED
    BY <1>1, <1>5, <2>1, <2>2 DEF Ends
<1>6. ASSUME NEW i, NEW k, NEW j, NEW l, Ends(f, i, k), Ends(f, j, l), f[i][k].h = f[j][l].h
      PROVE  i = j /\ k = l
  <2> DEFINE Old(x, y) == IsMsg(g, x, y) /\ g[x][y] = f[x][y]
  <2>1. ASSUME NEW x, NEW y, Ends(f, x, y), Old(x, y) PROVE f[x][y].h <= t /\ f[x][y].h \in Nat
    BY <2>1, MessageFacts DEF LogOK, Ends
  <2>2. ASSUME NEW x, NEW y, Ends(f, x, y), ~Old(x, y)
        PROVE  x = a /\ y = b /\ f[x][y].h = m.h /\ t < m.h
    BY <2>2, <1>1 DEF Ends
  <2>3. CASE Old(i, k) /\ Old(j, l)
    BY <2>3, <1>6 DEF LogOK, Ends
  <2>4. CASE Old(i, k) /\ ~Old(j, l)
    BY <2>4, <2>1, <2>2, <1>2, <1>6
  <2>5. CASE ~Old(i, k) /\ Old(j, l)
    BY <2>5, <2>1, <2>2, <1>2, <1>6
  <2>6. CASE ~Old(i, k) /\ ~Old(j, l)
    BY <2>6, <2>2, <1>6
  <2>7. QED
    BY <2>3, <2>4, <2>5, <2>6
<1>7. QED
  BY <1>3, <1>4, <1>5, <1>6 DEF LogOK

-----------------------------------------------------------------------------
(* What the operators of the log do to it. *)

(* A segment that b is appended to. *)
Longer(f, i, b) == [f EXCEPT ![i] = @ \o b]

LEMMA AppendedSeg ==
  ASSUME NEW s \in Seq(Message \cup Cuts), NEW b \in Seq(Message \cup Cuts)
  PROVE  /\ s \o b \in Seq(Message \cup Cuts)
         /\ Len(s \o b) = Len(s) + Len(b)
         /\ \A k \in 1 .. Len(s) : (s \o b)[k] = s[k]
         /\ \A k \in 1 .. Len(b) : (s \o b)[Len(s) + k] = b[k]
         /\ ToSet(s \o b) = ToSet(s) \cup ToSet(b)
<1>1. /\ s \o b \in Seq(Message \cup Cuts)
      /\ Len(s \o b) = Len(s) + Len(b)
      /\ \A k \in 1 .. Len(s) : (s \o b)[k] = s[k]
      /\ \A k \in 1 .. Len(b) : (s \o b)[Len(s) + k] = b[k]
  OBVIOUS
<1>2. ASSUME NEW x \in ToSet(s \o b) PROVE x \in ToSet(s) \cup ToSet(b)
  <2>1. PICK k \in 1 .. Len(s) + Len(b) : x = (s \o b)[k]
    BY <1>1 DEF ToSet
  <2>2. CASE k <= Len(s)
    BY <2>1, <2>2, <1>1 DEF ToSet
  <2>3. CASE k > Len(s)
    <3>1. k - Len(s) \in 1 .. Len(b) /\ k = Len(s) + (k - Len(s))
      BY <2>3
    <3>2. x = b[k - Len(s)]
      BY <3>1, <2>1, <1>1
    <3>3. QED
      BY <3>1, <3>2 DEF ToSet
  <2>4. QED
    BY <2>2, <2>3
<1>3. ASSUME NEW x \in ToSet(s) \cup ToSet(b) PROVE x \in ToSet(s \o b)
  <2>1. CASE x \in ToSet(s)
    <3>1. PICK k \in 1 .. Len(s) : x = s[k]
      BY <2>1 DEF ToSet
    <3>2. k \in 1 .. Len(s \o b) /\ (s \o b)[k] = x
      BY <3>1, <1>1
    <3>3. QED
      BY <3>2, <1>1 DEF ToSet
  <2>2. CASE x \in ToSet(b)
    <3>1. PICK k \in 1 .. Len(b) : x = b[k]
      BY <2>2 DEF ToSet
    <3>2. Len(s) + k \in 1 .. Len(s \o b) /\ (s \o b)[Len(s) + k] = x
      BY <3>1, <1>1
    <3>3. QED
      BY <3>2, <1>1 DEF ToSet
  <2>3. QED
    BY <2>1, <2>2
<1>4. QED
  BY <1>1, <1>2, <1>3

LEMMA LongerFacts ==
  ASSUME NEW c \in Nat, NEW f, FilesOK(f, c), NEW i \in DOMAIN f, NEW b \in Seq(Message \cup Cuts)
  PROVE  /\ DOMAIN Longer(f, i, b) = DOMAIN f /\ FilesOK(Longer(f, i, b), c)
         /\ \A j \in DOMAIN f : j # i => Longer(f, i, b)[j] = f[j]
         /\ Longer(f, i, b)[i] = f[i] \o b
         /\ Grows(f, Longer(f, i, b))
         /\ ToSet(b) \subseteq ToSet(Longer(f, i, b)[i])
<1>1. /\ DOMAIN Longer(f, i, b) = DOMAIN f
      /\ \A j \in DOMAIN f : j # i => Longer(f, i, b)[j] = f[j]
      /\ Longer(f, i, b)[i] = f[i] \o b
  BY DEF Longer
<1>2. f[i] \in Seq(Message \cup Cuts) /\ \A j \in DOMAIN f : f[j] \in Seq(Message \cup Cuts)
  BY DEF FilesOK
<1>3. /\ f[i] \o b \in Seq(Message \cup Cuts)
      /\ ToSet(f[i] \o b) = ToSet(f[i]) \cup ToSet(b)
  BY <1>2, AppendedSeg
<1>4. FilesOK(Longer(f, i, b), c)
  BY <1>1, <1>2, <1>3 DEF FilesOK
<1>5. Grows(f, Longer(f, i, b)) /\ ToSet(b) \subseteq ToSet(Longer(f, i, b)[i])
  BY <1>1, <1>3, Zenon DEF Grows
<1>6. QED
  BY <1>1, <1>4, <1>5

LEMMA MessagesAreRecords ==
  ASSUME NEW b \in Seq(Message) PROVE b \in Seq(Message \cup Cuts)
OBVIOUS

LEMMA FlushFacts ==
  ASSUME NEW c \in Nat, NEW w, WalOK(w, c), w.started
  PROVE  /\ WalOK(flushAndSync(w), c)
         /\ flushAndSync(w).files = Longer(w.files, w.segmentIndex, w.buf)
         /\ Whole(w) = flushAndSync(w).files
         /\ Whole(flushAndSync(w)) = flushAndSync(w).files
         /\ flushAndSync(w).buf = <<>> /\ flushAndSync(w).started
         /\ flushAndSync(w).segmentIndex = w.segmentIndex
         /\ flushAndSync(w).minIndex = w.minIndex
         /\ flushAndSync(w).heightIndex = w.heightIndex
         /\ Grows(w.files, flushAndSync(w).files)
         /\ ToSet(w.buf) \subseteq ToSet(flushAndSync(w).files[w.segmentIndex])
<1> DEFINE v == flushAndSync(w)
<1>1. /\ DOMAIN v = WalFields /\ v.files = Longer(w.files, w.segmentIndex, w.buf)
      /\ v.buf = <<>> /\ v.started = w.started /\ v.segmentIndex = w.segmentIndex
      /\ v.minIndex = w.minIndex /\ v.heightIndex = w.heightIndex
  BY DEF WalOK, WalFields, flushAndSync, Longer
<1>2. w.buf \in Seq(Message \cup Cuts) /\ FilesOK(w.files, c) /\ w.segmentIndex \in DOMAIN w.files
  BY MessagesAreRecords DEF WalOK
<1>3. /\ DOMAIN v.files = DOMAIN w.files /\ FilesOK(v.files, c) /\ Grows(w.files, v.files)
      /\ ToSet(w.buf) \subseteq ToSet(v.files[w.segmentIndex])
  BY <1>1, <1>2, LongerFacts
<1> HIDE DEF v
<1>4. WalOK(v, c)
  <2>1. v.buf \in Seq(Message)
    BY <1>1
  <2>2. QED
    BY <1>1, <1>3, <2>1 DEF WalOK
<1>5. Whole(w) = v.files
  BY DEF Whole, v
<1>6. Longer(v.files, v.segmentIndex, v.buf) = v.files
  <2>1. v.files[v.segmentIndex] \o <<>> = v.files[v.segmentIndex]
    <3>1. v.files[v.segmentIndex] \in Seq(Message \cup Cuts)
      BY <1>1, <1>2, <1>3 DEF FilesOK
    <3>2. QED
      BY <3>1
  <2>2. v.files = [j \in DOMAIN w.files |-> v.files[j]]
    BY <1>1, <1>3 DEF Longer
  <2>3. QED
    BY <1>1, <2>1, <2>2 DEF Longer
<1>7. Whole(v) = v.files
  <2>1. Whole(v) = Longer(v.files, v.segmentIndex, v.buf)
    <3>1. DOMAIN v = WalFields
      BY <1>1
    <3>2. QED
      BY <1>1, <3>1 DEF Whole, flushAndSync, Longer, WalFields
  <2>2. QED
    BY <2>1, <1>6
<1>8. QED
  BY <1>1, <1>3, <1>4, <1>5, <1>7 DEF v

LEMMA GrowsTrans ==
  ASSUME NEW f, NEW g, NEW h, Grows(f, g), Grows(g, h) PROVE Grows(f, h)
BY Zenon DEF Grows

(* g is f with segment i, which is empty if it is new. *)
Opened(f, i, g, c) ==
  /\ FilesOK(g, c) /\ DOMAIN g = DOMAIN f \cup {i}
  /\ Grows(f, g) /\ Within(g, f) /\ Within(f, g)

LEMMA OpenFacts ==
  ASSUME NEW c \in Nat, NEW f, FilesOK(f, c), NEW i \in 0 .. c
  PROVE  Opened(f, i, openSegment(f, i), c)
<1> DEFINE g == openSegment(f, i)
<1>1. /\ DOMAIN g = DOMAIN f \cup {i} /\ \A j \in DOMAIN f : g[j] = f[j]
      /\ i \notin DOMAIN f => g[i] = <<>>
  BY DEF openSegment
<1> HIDE DEF g
<1>2. \A j \in DOMAIN g : g[j] \in Seq(Message \cup Cuts)
  <2>1. <<>> \in Seq(Message \cup Cuts)
    OBVIOUS
  <2>2. QED
    BY <1>1, <2>1 DEF FilesOK
<1>3. FilesOK(g, c)
  BY <1>1, <1>2 DEF FilesOK
<1>4. Grows(f, g)
  BY <1>1, Zenon DEF Grows
<1>5. ASSUME NEW j, NEW k, IsMsg(g, j, k) PROVE IsMsg(f, j, k) /\ f[j][k] = g[j][k]
  <2>1. j \in DOMAIN f
    BY <1>1, <1>5 DEF IsMsg
  <2>2. QED
    BY <2>1, <1>1, <1>5 DEF IsMsg
<1>6. ASSUME NEW j, NEW k, IsMsg(f, j, k) PROVE IsMsg(g, j, k) /\ f[j][k] = g[j][k]
  BY <1>1, <1>6 DEF IsMsg
<1>7. QED
  BY <1>1, <1>3, <1>4, <1>5, <1>6 DEF g, Within, Opened

(* One more record at the end of the last segment. *)
LEMMA LongerAdds ==
  ASSUME NEW c \in Nat, NEW f, FilesOK(f, c), NEW i \in DOMAIN f, \A j \in DOMAIN f : j <= i,
         NEW b \in Seq(Message), NEW m \in Message
  PROVE  Adds(Longer(f, i, Append(b, m)), Longer(f, i, b), m)
<1> DEFINE g == Longer(f, i, b)
           h == Longer(f, i, Append(b, m))
           last == Len(f[i]) + Len(b) + 1
<1>1. /\ f[i] \in Seq(Message \cup Cuts) /\ i \in Nat
      /\ b \in Seq(Message \cup Cuts) /\ Append(b, m) \in Seq(Message \cup Cuts)
  BY DEF FilesOK
<1>2. /\ DOMAIN g = DOMAIN f /\ DOMAIN h = DOMAIN f
      /\ \A j \in DOMAIN f : j # i => g[j] = f[j] /\ h[j] = f[j]
      /\ g[i] = f[i] \o b /\ h[i] = f[i] \o Append(b, m)
  BY DEF Longer
<1>3. /\ DOMAIN g[i] = 1 .. last - 1 /\ DOMAIN h[i] = 1 .. last
      /\ \A k \in 1 .. last - 1 : h[i][k] = g[i][k]
      /\ h[i][last] = m /\ last \in Nat
  <2> DEFINE s == f[i]
             a == Append(b, m)
  <2>1. /\ Len(a) = Len(b) + 1 /\ a[Len(b) + 1] = m /\ \A k \in 1 .. Len(b) : a[k] = b[k]
        /\ Len(s) \in Nat /\ Len(b) \in Nat
    BY <1>1
  <2>2. /\ Len(s \o b) = Len(s) + Len(b) /\ DOMAIN (s \o b) = 1 .. Len(s \o b)
        /\ \A k \in 1 .. Len(s) : (s \o b)[k] = s[k]
        /\ \A k \in 1 .. Len(b) : (s \o b)[Len(s) + k] = b[k]
    BY <1>1, AppendedSeg
  <2>3. /\ Len(s \o a) = Len(s) + Len(a) /\ DOMAIN (s \o a) = 1 .. Len(s \o a)
        /\ \A k \in 1 .. Len(s) : (s \o a)[k] = s[k]
        /\ \A k \in 1 .. Len(a) : (s \o a)[Len(s) + k] = a[k]
    BY <1>1, AppendedSeg
  <2> HIDE DEF s, a
  <2>4. last = Len(s) + Len(b) + 1 /\ g[i] = s \o b /\ h[i] = s \o a
    BY <1>2 DEF s, a
  <2> HIDE DEF last, g, h
  <2>5. /\ DOMAIN g[i] = 1 .. last - 1 /\ DOMAIN h[i] = 1 .. last /\ last \in Nat
        /\ h[i][last] = m
    BY <2>1, <2>2, <2>3, <2>4
  <2>6. ASSUME NEW k \in 1 .. last - 1 PROVE h[i][k] = g[i][k]
    <3>1. CASE k <= Len(s)
      BY <3>1, <2>1, <2>2, <2>3, <2>4
    <3>2. CASE k > Len(s)
      <4>1. k - Len(s) \in 1 .. Len(b) /\ k = Len(s) + (k - Len(s))
        BY <3>2, <2>1, <2>4
      <4>2. QED
        BY <4>1, <2>1, <2>2, <2>3, <2>4
    <3>3. QED
      BY <3>1, <3>2, <2>1
  <2>7. QED
    BY <2>5, <2>6
<1>4. \A j \in DOMAIN f : j \in Nat
  BY DEF FilesOK
<1> HIDE DEF g, h, last
<1>5. ASSUME NEW j, NEW k, IsMsg(g, j, k) PROVE Earlier(j, k, i, last)
  <2>1. CASE j = i
    BY <2>1, <1>3, <1>5 DEF IsMsg, Earlier
  <2>2. CASE j # i
    BY <2>2, <1>1, <1>2, <1>4, <1>5 DEF IsMsg, Earlier
  <2>3. QED
    BY <2>1, <2>2
<1>6. ASSUME NEW j, NEW k, IsMsg(h, j, k)
      PROVE  \/ IsMsg(g, j, k) /\ g[j][k] = h[j][k]
             \/ j = i /\ k = last /\ h[j][k] = m
  <2>1. CASE j = i
    <3>1. CASE k = last
      BY <2>1, <3>1, <1>3
    <3>2. CASE k # last
      <4>1. k \in 1 .. last - 1
        BY <2>1, <3>2, <1>3, <1>6 DEF IsMsg
      <4>2. QED
        BY <4>1, <2>1, <1>2, <1>3, <1>6 DEF IsMsg
    <3>3. QED
      BY <3>1, <3>2
  <2>2. CASE j # i
    BY <2>2, <1>2, <1>6 DEF IsMsg
  <2>3. QED
    BY <2>1, <2>2
<1>7. Adds(h, g, m)
  BY <1>1, <1>3, <1>5, <1>6 DEF Adds
<1>8. QED
  BY <1>7 DEF g, h

LEMMA AddsToSame ==
  ASSUME NEW f, NEW g, NEW h, NEW m, Adds(f, g, m), Within(g, h), Within(h, g)
  PROVE  Adds(f, h, m)
<1>1. PICK a \in Nat, b \in Nat :
        /\ \A i, k : IsMsg(g, i, k) => Earlier(i, k, a, b)
        /\ \A i, k : IsMsg(f, i, k) => \/ IsMsg(g, i, k) /\ g[i][k] = f[i][k]
                                       \/ i = a /\ k = b /\ f[i][k] = m
  BY DEF Adds
<1>2. \A i, k : IsMsg(h, i, k) => Earlier(i, k, a, b)
  BY <1>1, Zenon DEF Within
<1>3. ASSUME NEW i, NEW k, IsMsg(f, i, k)
      PROVE  \/ IsMsg(h, i, k) /\ h[i][k] = f[i][k]
             \/ i = a /\ k = b /\ f[i][k] = m
  <2>1. CASE IsMsg(g, i, k) /\ g[i][k] = f[i][k]
    BY <2>1 DEF Within
  <2>2. QED
    BY <2>1, <1>1, <1>3
<1>4. QED
  BY <1>2, <1>3 DEF Adds

LEMMA PartAdds ==
  ASSUME NEW f, NEW g, NEW h, NEW m, Within(f, g), Adds(g, h, m)
  PROVE  Adds(f, h, m)
<1>1. PICK a \in Nat, b \in Nat :
        /\ \A i, k : IsMsg(h, i, k) => Earlier(i, k, a, b)
        /\ \A i, k : IsMsg(g, i, k) => \/ IsMsg(h, i, k) /\ h[i][k] = g[i][k]
                                       \/ i = a /\ k = b /\ g[i][k] = m
  BY DEF Adds
<1>2. ASSUME NEW i, NEW k, IsMsg(f, i, k)
      PROVE  \/ IsMsg(h, i, k) /\ h[i][k] = f[i][k]
             \/ i = a /\ k = b /\ f[i][k] = m
  BY <1>1, <1>2 DEF Within
<1>3. QED
  BY <1>1, <1>2 DEF Adds

LEMMA RotateFacts ==
  ASSUME NEW c \in Nat, NEW w, WalOK(w, c), w.started
  PROVE  /\ WalOK(rotate(w), c + 1) /\ rotate(w).started /\ rotate(w).buf = <<>>
         /\ rotate(w).segmentIndex = w.segmentIndex + 1
         /\ rotate(w).minIndex = w.minIndex /\ rotate(w).heightIndex = w.heightIndex
         /\ Grows(flushAndSync(w).files, rotate(w).files)
         /\ Within(rotate(w).files, Whole(w)) /\ Within(Whole(w), rotate(w).files)
<1> DEFINE u == flushAndSync(w)
           v == rotate(w)
           s == w.segmentIndex + 1
<1>1. /\ WalOK(u, c) /\ Whole(w) = u.files /\ u.buf = <<>> /\ u.started
      /\ u.segmentIndex = w.segmentIndex /\ u.minIndex = w.minIndex
      /\ u.heightIndex = w.heightIndex
  BY FlushFacts
<1> HIDE DEF u
<1>2. /\ DOMAIN v = WalFields /\ v.files = openSegment(u.files, s) /\ v.buf = <<>> /\ v.started
      /\ v.segmentIndex = s /\ v.minIndex = w.minIndex /\ v.heightIndex = w.heightIndex
  BY <1>1 DEF u, rotate, WalOK, WalFields
<1>3. FilesOK(u.files, c) /\ u.segmentIndex \in DOMAIN u.files
  BY <1>1 DEF WalOK
<1>4. s \in 0 .. c + 1 /\ FilesOK(u.files, c + 1) /\ w.segmentIndex \in Nat
  <2>1. w.segmentIndex \in 0 .. c
    BY <1>1, <1>3 DEF FilesOK
  <2>2. 0 .. c \subseteq 0 .. c + 1
    OBVIOUS
  <2>3. FilesOK(u.files, c + 1)
    BY <1>3, <2>2 DEF FilesOK
  <2>4. QED
    BY <2>1, <2>3
<1>5. /\ FilesOK(v.files, c + 1) /\ DOMAIN v.files = DOMAIN u.files \cup {s}
      /\ Grows(u.files, v.files) /\ Within(v.files, u.files) /\ Within(u.files, v.files)
  <2> DEFINE d == c + 1
             g == u.files
  <2>1. d \in Nat /\ s \in 0 .. d /\ FilesOK(g, d)
    BY <1>4
  <2> HIDE DEF d, g, s
  <2>2. Opened(g, s, openSegment(g, s), d)
    BY <2>1, OpenFacts
  <2>3. QED
    BY <2>2, <1>2 DEF d, g, Opened
<1> HIDE DEF v
<1>6. WalOK(v, c + 1)
  <2>1. v.minIndex \in Nat /\ v.minIndex <= w.segmentIndex
        /\ \A i \in DOMAIN u.files : v.minIndex <= i /\ i <= w.segmentIndex
    BY <1>1, <1>2, <1>3 DEF WalOK
  <2>2. \A i \in DOMAIN u.files : i \in Nat
    BY <1>3 DEF FilesOK
  <2>3. \A i \in DOMAIN v.files : v.minIndex <= i /\ i <= s
    BY <1>4, <1>5, <2>1, <2>2
  <2>4. v.buf \in Seq(Message) /\ DOMAIN v.heightIndex \subseteq LogHeights
    BY <1>1, <1>2 DEF WalOK
  <2>5. QED
    BY <1>2, <1>5, <2>1, <2>3, <2>4 DEF WalOK
<1>7. QED
  BY <1>1, <1>2, <1>5, <1>6 DEF u, v

(* v is w with m in the buffer, maybe in a new segment. *)
Wrote(w, v, c, m) ==
  /\ WalOK(v, c + 1) /\ v.started
  /\ Adds(Whole(v), Whole(w), m)
  /\ Grows(w.files, v.files)
  /\ v.segmentIndex # w.segmentIndex => Grows(flushAndSync(w).files, v.files)
  /\ v.segmentIndex = w.segmentIndex => ToSet(w.buf) \subseteq ToSet(v.buf)
  /\ m \in ToSet(v.buf)

LEMMA WholeIs ==
  ASSUME NEW c \in Nat, NEW w, WalOK(w, c), w.started
  PROVE  Whole(w) = Longer(w.files, w.segmentIndex, w.buf)
BY FlushFacts

LEMMA AppendedBuf ==
  ASSUME NEW b \in Seq(Message), NEW m \in Message
  PROVE  /\ Append(b, m) \in Seq(Message)
         /\ m \in ToSet(Append(b, m)) /\ ToSet(b) \subseteq ToSet(Append(b, m))
<1> DEFINE a == Append(b, m)
<1>1. /\ a \in Seq(Message) /\ DOMAIN a = 1 .. Len(b) + 1 /\ a[Len(b) + 1] = m
      /\ Len(b) \in Nat /\ DOMAIN b = 1 .. Len(b) /\ \A k \in 1 .. Len(b) : a[k] = b[k]
  OBVIOUS
<1> HIDE DEF a
<1>2. m \in ToSet(a)
  <2>1. Len(b) + 1 \in DOMAIN a
    BY <1>1
  <2>2. QED
    BY <2>1, <1>1 DEF ToSet
<1>3. ASSUME NEW x \in ToSet(b) PROVE x \in ToSet(a)
  <2>1. PICK k \in 1 .. Len(b) : x = b[k]
    BY <1>1 DEF ToSet
  <2>2. k \in DOMAIN a /\ a[k] = x
    BY <2>1, <1>1
  <2>3. QED
    BY <2>2 DEF ToSet
<1>4. QED
  BY <1>1, <1>2, <1>3 DEF a

LEMMA PutFacts ==
  ASSUME NEW c \in Nat, NEW v, WalOK(v, c), v.started, NEW m \in Message, NEW x,
         DOMAIN x = WalFields, x.files = v.files, x.started = v.started,
         x.buf = Append(v.buf, m), x.segmentIndex = v.segmentIndex, x.minIndex = v.minIndex,
         DOMAIN x.heightIndex \subseteq LogHeights
  PROVE  WalOK(x, c) /\ Adds(Whole(x), Whole(v), m)
<1>1. v.buf \in Seq(Message) /\ x.buf \in Seq(Message)
  BY AppendedBuf DEF WalOK
<1>2. WalOK(x, c)
  BY <1>1 DEF WalOK
<1>3. /\ FilesOK(v.files, c) /\ v.segmentIndex \in DOMAIN v.files
      /\ \A j \in DOMAIN v.files : j <= v.segmentIndex
  BY DEF WalOK
<1>4. Adds(Longer(v.files, v.segmentIndex, Append(v.buf, m)),
           Longer(v.files, v.segmentIndex, v.buf), m)
  BY <1>1, <1>3, LongerAdds
<1>5. Whole(x) = Longer(x.files, x.segmentIndex, x.buf)
  BY <1>2, WholeIs
<1>6. Whole(v) = Longer(v.files, v.segmentIndex, v.buf)
  BY WholeIs
<1>7. QED
  BY <1>2, <1>4, <1>5, <1>6

LEMMA WriteFacts ==
  ASSUME NEW c \in Nat, NEW w, WalOK(w, c), w.started, NEW m \in Message
  PROVE  Wrote(w, Write(w, m), c, m)
<1> DEFINE size == Len(w.files[w.segmentIndex]) + Len(w.buf)
           v == IF size >= w.maxSegSize THEN rotate(w) ELSE w
           index == Indexed(v.heightIndex, m.h, v.segmentIndex)
           x == Write(w, m)
<1>1. /\ WalOK(rotate(w), c + 1) /\ rotate(w).started /\ rotate(w).buf = <<>>
      /\ rotate(w).segmentIndex = w.segmentIndex + 1
      /\ Grows(flushAndSync(w).files, rotate(w).files)
      /\ Within(rotate(w).files, Whole(w)) /\ Within(Whole(w), rotate(w).files)
  BY RotateFacts
<1>2. x = [v EXCEPT !.buf = Append(@, m),
                    !.heightIndex = IF m.type = "EndHeight" THEN pruneHeightIndex(index) ELSE @]
  BY DEF Write
<1>3. WalOK(w, c + 1)
  <2>1. 0 .. c \subseteq 0 .. c + 1
    OBVIOUS
  <2>2. QED
    BY <2>1 DEF WalOK, FilesOK
<1>4. v = rotate(w) \/ v = w
  OBVIOUS
<1> HIDE DEF v
<1>5. WalOK(v, c + 1) /\ v.started
  BY <1>1, <1>3, <1>4
<1>6. DOMAIN v = WalFields /\ DOMAIN v.heightIndex \subseteq LogHeights
  BY <1>5 DEF WalOK
<1>7. DOMAIN pruneHeightIndex(index) \subseteq LogHeights
  <2>1. DOMAIN index = DOMAIN v.heightIndex \cup {m.h}
    BY DEF Indexed
  <2>2. DOMAIN pruneHeightIndex(index) \subseteq DOMAIN index
    BY DEF pruneHeightIndex
  <2>3. QED
    BY <2>1, <2>2, <1>6, MessageFacts
<1> HIDE DEF index, x
<1>8. /\ DOMAIN x = WalFields /\ x.files = v.files /\ x.started = v.started
      /\ x.buf = Append(v.buf, m) /\ x.segmentIndex = v.segmentIndex /\ x.minIndex = v.minIndex
      /\ DOMAIN x.heightIndex \subseteq LogHeights
  <2>1. x.heightIndex = IF m.type = "EndHeight" THEN pruneHeightIndex(index) ELSE v.heightIndex
    BY <1>2, <1>6 DEF WalFields
  <2>2. QED
    BY <2>1, <1>2, <1>6, <1>7 DEF WalFields
<1>9. c + 1 \in Nat
  OBVIOUS
<1>10. WalOK(x, c + 1) /\ Adds(Whole(x), Whole(v), m)
  BY <1>5, <1>8, <1>9, PutFacts
<1>11. m \in ToSet(x.buf) /\ ToSet(v.buf) \subseteq ToSet(x.buf)
  <2>1. v.buf \in Seq(Message)
    BY <1>5 DEF WalOK
  <2>2. QED
    BY <2>1, <1>8, AppendedBuf
<1>12. CASE v = w
  <2>1. Grows(w.files, x.files)
    BY <1>8, <1>12, Zenon DEF Grows
  <2>2. QED
    BY <2>1, <1>5, <1>8, <1>10, <1>11, <1>12 DEF Wrote, x
<1>13. CASE v = rotate(w)
  <2>1. Whole(v) = v.files
    <3>1. Whole(v) = Longer(v.files, v.segmentIndex, v.buf)
      BY <1>5, <1>9, WholeIs
    <3>2. v.files[v.segmentIndex] \in Seq(Message \cup Cuts) /\ v.buf = <<>>
      BY <1>1, <1>5, <1>13 DEF WalOK, FilesOK
    <3>3. v.files[v.segmentIndex] \o v.buf = v.files[v.segmentIndex]
      BY <3>2
    <3>4. v.files = [j \in DOMAIN v.files |-> v.files[j]]
      BY <1>13, FlushFacts DEF rotate, openSegment, WalOK, WalFields
    <3>5. QED
      BY <3>1, <3>3, <3>4 DEF Longer
  <2>2. Adds(Whole(x), Whole(w), m)
    BY <2>1, <1>1, <1>10, <1>13, AddsToSame
  <2>3. Grows(flushAndSync(w).files, x.files) /\ Grows(w.files, x.files)
    BY <1>1, <1>8, <1>13, FlushFacts, GrowsTrans
  <2>4. w.segmentIndex # x.segmentIndex
    <3>1. w.segmentIndex \in Nat
      BY DEF WalOK, FilesOK
    <3>2. QED
      BY <3>1, <1>1, <1>8, <1>13
  <2>5. QED
    BY <2>2, <2>3, <2>4, <1>5, <1>8, <1>10, <1>11 DEF Wrote, x
<1>14. QED
  BY <1>4, <1>12, <1>13

(* What a crash leaves of the buffer is a part of it, but for cut records. *)
LEMMA RemainsFacts ==
  ASSUME NEW b \in Seq(Message), NEW r \in Remains(b)
  PROVE  /\ r \in Seq(Message \cup Cuts)
         /\ \A k \in 1 .. Len(r) : r[k] \in Cuts \/ (k \in 1 .. Len(b) /\ r[k] = b[k])
<1>1. ASSUME NEW k \in 0 .. Len(b)
      PROVE  /\ SubSeq(b, 1, k) \in Seq(Message) /\ Len(SubSeq(b, 1, k)) = k
             /\ \A j \in 1 .. k : SubSeq(b, 1, k)[j] = b[j]
  OBVIOUS
<1>2. CASE r \in {SubSeq(b, 1, k) : k \in 0 .. Len(b)}
  <2>1. PICK k \in 0 .. Len(b) : r = SubSeq(b, 1, k)
    BY <1>2
  <2>2. r \in Seq(Message) /\ Len(r) = k /\ \A j \in 1 .. k : r[j] = b[j]
    BY <2>1, <1>1
  <2>3. QED
    BY <2>2
<1>3. CASE r \in {Append(SubSeq(b, 1, k), cut) : k \in 0 .. Len(b) - 1, cut \in Cuts}
  <2>1. PICK k \in 0 .. Len(b) - 1, cut \in Cuts : r = Append(SubSeq(b, 1, k), cut)
    BY <1>3
  <2> DEFINE s == SubSeq(b, 1, k)
  <2>2. s \in Seq(Message) /\ Len(s) = k /\ \A j \in 1 .. k : s[j] = b[j]
    BY <1>1
  <2> HIDE DEF s
  <2>3. s \in Seq(Message \cup Cuts)
    BY <2>2
  <2>4. /\ Append(s, cut) \in Seq(Message \cup Cuts) /\ Len(Append(s, cut)) = k + 1
        /\ Append(s, cut)[k + 1] = cut /\ \A j \in 1 .. k : Append(s, cut)[j] = s[j]
    BY <2>2, <2>3
  <2>5. r = Append(s, cut)
    BY <2>1 DEF s
  <2>6. QED
    BY <2>2, <2>4, <2>5
<1>4. QED
  BY <1>2, <1>3 DEF Remains

LEMMA CrashFacts ==
  ASSUME NEW c \in Nat, NEW w, WalOK(w, c), w.started, NEW r \in Remains(w.buf), NEW x,
         x = [w EXCEPT !.files[w.segmentIndex] = @ \o r, !.buf = <<>>, !.started = FALSE]
  PROVE  WalOK(x, c) /\ ~x.started /\ Within(Whole(x), Whole(w)) /\ Grows(w.files, x.files)
<1> DEFINE f == w.files
           i == w.segmentIndex
           b == w.buf
<1>1. /\ DOMAIN x = WalFields /\ x.files = Longer(f, i, r) /\ x.buf = <<>> /\ x.started = FALSE
      /\ x.heightIndex = w.heightIndex
  BY DEF WalOK, WalFields, Longer
<1>2. /\ b \in Seq(Message) /\ FilesOK(f, c) /\ i \in DOMAIN f
      /\ f[i] \in Seq(Message \cup Cuts) /\ DOMAIN w.heightIndex \subseteq LogHeights
  BY DEF WalOK, FilesOK
<1> HIDE DEF f, i, b
<1>3. /\ r \in Seq(Message \cup Cuts)
      /\ \A k \in 1 .. Len(r) : r[k] \in Cuts \/ (k \in 1 .. Len(b) /\ r[k] = b[k])
  BY <1>2, RemainsFacts DEF b
<1>4. b \in Seq(Message \cup Cuts)
  BY <1>2, MessagesAreRecords
<1>5. FilesOK(Longer(f, i, r), c) /\ Grows(f, Longer(f, i, r))
  BY <1>2, <1>3, LongerFacts
<1>6. WalOK(x, c)
  <2>1. <<>> \in Seq(Message)
    OBVIOUS
  <2>2. QED
    BY <2>1, <1>1, <1>2, <1>5 DEF WalOK
<1>7. Whole(x) = Longer(f, i, r) /\ Whole(w) = Longer(f, i, b)
  BY <1>1, WholeIs DEF Whole, f, i, b
<1>8. ASSUME NEW j, NEW k, IsMsg(Longer(f, i, r), j, k)
      PROVE  IsMsg(Longer(f, i, b), j, k) /\ Longer(f, i, b)[j][k] = Longer(f, i, r)[j][k]
  <2> DEFINE g == Longer(f, i, r)
             h == Longer(f, i, b)
  <2>1. /\ DOMAIN g = DOMAIN f /\ DOMAIN h = DOMAIN f
        /\ \A l \in DOMAIN f : l # i => g[l] = f[l] /\ h[l] = f[l]
        /\ g[i] = f[i] \o r /\ h[i] = f[i] \o b
    BY <1>2 DEF Longer
  <2>2. IsMsg(g, j, k)
    BY <1>8
  <2> HIDE DEF g, h
  <2>3. CASE j # i
    <3>1. IsMsg(h, j, k) /\ h[j][k] = g[j][k]
      BY <2>1, <2>2, <2>3 DEF IsMsg
    <3>2. QED
      BY <3>1 DEF g, h
  <2>4. CASE j = i
    <3>1. /\ Len(f[i] \o r) = Len(f[i]) + Len(r) /\ DOMAIN (f[i] \o r) = 1 .. Len(f[i] \o r)
          /\ \A l \in 1 .. Len(f[i]) : (f[i] \o r)[l] = f[i][l]
          /\ \A l \in 1 .. Len(r) : (f[i] \o r)[Len(f[i]) + l] = r[l]
      BY <1>2, <1>3, AppendedSeg
    <3>2. /\ Len(f[i] \o b) = Len(f[i]) + Len(b) /\ DOMAIN (f[i] \o b) = 1 .. Len(f[i] \o b)
          /\ \A l \in 1 .. Len(f[i]) : (f[i] \o b)[l] = f[i][l]
          /\ \A l \in 1 .. Len(b) : (f[i] \o b)[Len(f[i]) + l] = b[l]
      BY <1>2, <1>4, AppendedSeg
    <3>3. Len(f[i]) \in Nat /\ Len(r) \in Nat /\ Len(b) \in Nat
      BY <1>2, <1>3
    <3>4. k \in 1 .. Len(f[i]) + Len(r) /\ g[i][k] \notin Cuts
      BY <2>1, <2>2, <2>4, <3>1 DEF IsMsg
    <3>5. CASE k <= Len(f[i])
      <4>1. k \in 1 .. Len(f[i]) /\ k \in 1 .. Len(f[i]) + Len(b)
        BY <3>3, <3>4, <3>5
      <4>2. h[i][k] = g[i][k] /\ k \in DOMAIN h[i]
        BY <4>1, <2>1, <3>1, <3>2
      <4>3. QED
        BY <4>2, <2>1, <2>2, <2>4, <3>4 DEF IsMsg, g, h
    <3>6. CASE k > Len(f[i])
      <4>1. k - Len(f[i]) \in 1 .. Len(r) /\ k = Len(f[i]) + (k - Len(f[i]))
        BY <3>3, <3>4, <3>6
      <4>2. g[i][k] = r[k - Len(f[i])]
        BY <4>1, <2>1, <3>1
      <4>3. k - Len(f[i]) \in 1 .. Len(b) /\ r[k - Len(f[i])] = b[k - Len(f[i])]
        BY <4>1, <4>2, <3>4, <1>3
      <4>4. h[i][k] = g[i][k] /\ k \in 1 .. Len(f[i]) + Len(b)
        <5>1. h[i][Len(f[i]) + (k - Len(f[i]))] = b[k - Len(f[i])]
          BY <4>3, <2>1, <3>2
        <5>2. k \in 1 .. Len(f[i]) + Len(b)
          BY <4>3, <3>3, <3>4
        <5>3. QED
          BY <4>1, <4>2, <4>3, <5>1, <5>2
      <4>5. QED
        BY <4>4, <2>1, <2>2, <2>4, <3>2, <3>4 DEF IsMsg, g, h
    <3>7. QED
      BY <3>3, <3>4, <3>5, <3>6
  <2>5. QED
    BY <2>3, <2>4 DEF g, h
<1>9. QED
  BY <1>1, <1>5, <1>6, <1>7, <1>8 DEF Within, f

-----------------------------------------------------------------------------
LEMMA MaxIs ==
  ASSUME NEW c \in Nat, NEW S \in SUBSET (0 .. c), S # {}
  PROVE  Max(S) \in S /\ \A y \in S : y <= Max(S)
<1>1. PICK x \in S : \A y \in S : y <= x
  BY LastNumber
<1>2. \E z \in S : \A y \in S : z >= y
  BY <1>1
<1>3. QED
  BY <1>2 DEF Max

LEMMA MaxOfTwo ==
  ASSUME NEW a \in Nat, NEW b \in Nat
  PROVE  Max({a, b}) \in Nat /\ Max({a, b}) >= a /\ Max({a, b}) >= b
<1>1. {a, b} \in SUBSET (0 .. a + b) /\ {a, b} # {} /\ a + b \in Nat
  OBVIOUS
<1>2. QED
  BY <1>1, MaxIs

LEMMA MinIs ==
  ASSUME NEW S \in SUBSET Nat, S # {}
  PROVE  Min(S) \in S /\ \A y \in S : Min(S) <= y
<1>1. PICK x \in S : \A y \in S : x <= y
  BY FirstNumber
<1>2. QED
  BY <1>1 DEF Min

(* The messages before the first cut record; without an error there are no *)
(* others.                                                                 *)
Decoded(recs, d) ==
  /\ d.msgs \in Seq(Message)
  /\ \A k \in DOMAIN d.msgs : k \in DOMAIN recs /\ d.msgs[k] = recs[k]
  /\ d.err \in BOOLEAN
  /\ d.err => \E k \in DOMAIN recs : recs[k] \in Cuts
  /\ ~d.err => \A k \in DOMAIN recs : recs[k] \notin Cuts => k \in DOMAIN d.msgs

LEMMA DecodeFacts ==
  ASSUME NEW recs \in Seq(Message \cup Cuts)
  PROVE  Decoded(recs, Decode(recs))
<1> DEFINE cut == {k \in DOMAIN recs : recs[k] \in Cuts}
           d == Decode(recs)
<1>1. DOMAIN recs = 1 .. Len(recs) /\ Len(recs) \in Nat
      /\ \A k \in DOMAIN recs : recs[k] \in Message \cup Cuts
  OBVIOUS
<1>2. CASE cut = {}
  <2>1. d = [msgs |-> recs, err |-> FALSE]
    BY <1>2 DEF Decode
  <2>2. \A k \in 1 .. Len(recs) : recs[k] \in Message
    BY <1>1, <1>2
  <2>3. recs \in Seq(Message)
    BY <1>1, <2>2
  <2>4. QED
    BY <2>1, <2>3 DEF Decoded
<1>3. CASE cut # {}
  <2> DEFINE m == Min(cut)
             s == SubSeq(recs, 1, m - 1)
  <2>1. cut \in SUBSET Nat
    BY <1>1
  <2>2. m \in cut /\ \A y \in cut : m <= y
    BY <1>3, <2>1, MinIs
  <2>3. m \in 1 .. Len(recs) /\ recs[m] \in Cuts
    BY <2>2, <1>1
  <2>4. d.msgs = s
    BY <1>3 DEF Decode
  <2>10. d.err \in BOOLEAN /\ (~d.err => m = Len(recs))
    BY <1>3 DEF Decode
  <2> HIDE DEF m, d
  <2>5. \A k \in 1 .. m - 1 : recs[k] \in Message
    BY <1>1, <2>2, <2>3
  <2>6. s \in Seq(Message) /\ DOMAIN s = 1 .. m - 1 /\ \A k \in 1 .. m - 1 : s[k] = recs[k]
    <3>1. /\ Len(s) = m - 1 /\ DOMAIN s = 1 .. m - 1 /\ s = [k \in 1 .. m - 1 |-> recs[k]]
          /\ \A k \in 1 .. m - 1 : s[k] = recs[k]
      BY <2>3
    <3>2. m - 1 \in Nat
      BY <2>3
    <3>3. QED
      BY <3>1, <3>2, <2>5
  <2> HIDE DEF s
  <2>7. \A k \in DOMAIN d.msgs : k \in DOMAIN recs /\ d.msgs[k] = recs[k]
    <3>1. \A k \in 1 .. m - 1 : k \in 1 .. Len(recs)
      BY <1>1, <2>3
    <3>2. QED
      BY <3>1, <1>1, <2>4, <2>6
  <2>8. ~d.err => \A k \in DOMAIN recs : recs[k] \notin Cuts => k \in DOMAIN d.msgs
    <3>1. ASSUME m = Len(recs), NEW k \in DOMAIN recs, recs[k] \notin Cuts
          PROVE  k \in DOMAIN d.msgs
      <4>1. k # m
        BY <2>3, <3>1
      <4>2. QED
        BY <1>1, <2>3, <2>4, <2>6, <3>1, <4>1
    <3>2. QED
      BY <3>1, <2>10
  <2>9. QED
    <3>1. d.msgs \in Seq(Message)
      BY <2>4, <2>6
    <3>2. \E k \in DOMAIN recs : recs[k] \in Cuts
      BY <1>1, <2>3
    <3>3. QED
      BY <2>7, <2>8, <2>10, <3>1, <3>2 DEF Decoded, d
<1>4. QED
  BY <1>2, <1>3

(* A segment that canDeleteSegment lets go has no message above h. *)
LEMMA DeletableHas ==
  ASSUME NEW recs \in Seq(Message \cup Cuts), NEW h, canDeleteSegment(recs, h),
         NEW m \in Message, m \in ToSet(recs)
  PROVE  m.h <= h
<1> DEFINE d == Decode(recs)
<1>1. Decoded(recs, d)
  BY DecodeFacts
<1>2. ~d.err /\ \A x \in ToSet(d.msgs) : x.h <= h
  BY DEF canDeleteSegment
<1> HIDE DEF d
<1>3. PICK k \in DOMAIN recs : recs[k] = m
  BY DEF ToSet
<1>4. k \in DOMAIN d.msgs /\ d.msgs[k] = m
  BY <1>1, <1>2, <1>3, MessageFacts DEF Decoded
<1>5. m \in ToSet(d.msgs)
  BY <1>4 DEF ToSet
<1>6. QED
  BY <1>2, <1>5

-----------------------------------------------------------------------------
(* The actions. *)

Has(f, m) == \E i \in DOMAIN f : m \in ToSet(f[i])

LEMMA HasGrows ==
  ASSUME NEW f, NEW g, Grows(f, g), NEW m, Has(f, m) PROVE Has(g, m)
BY Zenon DEF Grows, Has

LEMMA HasInSegment ==
  ASSUME NEW f, NEW i \in DOMAIN f, NEW S, S \subseteq ToSet(f[i]), NEW m \in S PROVE Has(f, m)
BY Zenon DEF Has

LEMMA WithinTrans ==
  ASSUME NEW f, NEW g, NEW h, Within(f, g), Within(g, h) PROVE Within(f, h)
BY DEF Within

(* Nothing is buffered: the files are the whole log. *)
LEMMA NothingBuffered ==
  ASSUME NEW c \in Nat, NEW w, WalOK(w, c), w.buf = <<>>
  PROVE  Within(Whole(w), w.files)
<1>1. CASE ~w.started
  BY <1>1 DEF Whole, Within
<1>2. CASE w.started
  <2> DEFINE g == Whole(w)
             f == w.files
             i == w.segmentIndex
  <2>1. g = Longer(f, i, <<>>)
    BY <1>2, WholeIs
  <2>2. i \in DOMAIN f /\ f[i] \in Seq(Message \cup Cuts)
    BY <1>2 DEF WalOK, FilesOK
  <2>3. f[i] \o <<>> = f[i]
    BY <2>2
  <2>4. DOMAIN g = DOMAIN f /\ \A j \in DOMAIN f : g[j] = f[j]
    BY <2>1, <2>2, <2>3 DEF Longer
  <2>5. QED
    BY <2>4 DEF Within, IsMsg
<1>3. QED
  BY <1>1, <1>2 DEF WalOK

(* What a step has to keep of the messages that were synced. *)
Kept == \A m \in durable \ lost : m.h > checkpoint => Has(wal.files, m)

LEMMA InvIs ==
  LogInv <=>
    /\ WalOK(wal, count)
    /\ count \in 0 .. MaxMessages /\ checkpoint \in Nat
    /\ height \in 1 .. MaxLogHeight + 1 /\ applied \in {height - 1, height}
    /\ applied = height => height \in LogHeights
    /\ durable \subseteq Message
    /\ LogOK(Whole(wal), count, IF wal.started THEN height - 1 ELSE applied)
    /\ Kept
BY DEF LogInv, Kept, Has

LEMMA LogNumbers ==
  ASSUME LogInv
  PROVE  /\ count \in Nat /\ height \in Nat /\ applied \in Int /\ height - 1 \in Int
         /\ height - 1 <= applied /\ MaxMessages \in Nat /\ MaxLogHeight \in Nat
BY WALAssumption DEF LogInv

LEMMA MsgIs ==
  ASSUME LogInv, CanWrite, NEW type \in {"Vote", "EndHeight"}, NEW h \in LogHeights
  PROVE  /\ Msg(type, h) \in Message /\ Msg(type, h).n = count + 1
         /\ Msg(type, h).type = type /\ Msg(type, h).h = h
         /\ count + 1 \in 0 .. MaxMessages
BY LogNumbers DEF CanWrite, Msg, Message

LEMMA InitInv == LogInit => LogInv
<1> SUFFICES ASSUME LogInit PROVE LogInv
  OBVIOUS
<1>1. /\ DOMAIN wal = WalFields /\ DOMAIN wal.files = {} /\ wal.started = FALSE
      /\ wal.buf = <<>> /\ DOMAIN wal.heightIndex = {}
  BY DEF LogInit, WalFields
<1>2. <<>> \in Seq(Message)
  OBVIOUS
<1>3. WalOK(wal, count)
  BY <1>1, <1>2 DEF WalOK, FilesOK
<1>4. LogOK(Whole(wal), count, applied)
  BY <1>1 DEF Whole, LogOK, IsMsg, Ends
<1>5. QED
  BY <1>1, <1>3, <1>4, WALAssumption DEF LogInit, LogInv, LogHeights

(* Start and the end of the process: what is in the files stays there. *)
LEMMA StartInv ==
  ASSUME LogInv, Start PROVE LogInv'
<1> DEFINE f == wal.files
           idx == IF DOMAIN f = {} THEN 0 ELSE Max(DOMAIN f)
<1>1. /\ WalOK(wal, count) /\ ~wal.started /\ wal.buf = <<>> /\ count \in Nat
      /\ FilesOK(f, count) /\ DOMAIN f \in SUBSET (0 .. count)
  BY LogNumbers DEF LogInv, Start, WalOK, FilesOK
<1>2. idx \in 0 .. count /\ \A i \in DOMAIN f : i <= idx
  <2>1. CASE DOMAIN f = {}
    BY <2>1, <1>1
  <2>2. CASE DOMAIN f # {}
    BY <2>2, <1>1, MaxIs
  <2>3. QED
    BY <2>1, <2>2
<1>3. Opened(f, idx, openSegment(f, idx), count)
  <2> HIDE DEF idx, f
  <2>1. QED
    BY <1>1, <1>2, OpenFacts
<1>4. /\ DOMAIN wal' = WalFields /\ wal'.files = openSegment(f, idx) /\ wal'.started = TRUE
      /\ wal'.buf = <<>> /\ wal'.segmentIndex = idx
      /\ wal'.minIndex = IF DOMAIN f = {} THEN 0 ELSE Min(DOMAIN f)
      /\ wal'.heightIndex = buildIndex(f)
  BY DEF Start, WalFields
<1>5. DOMAIN buildIndex(f) \subseteq LogHeights
  <2> DEFINE ends == [i \in DOMAIN f |->
                        {m.h : m \in {x \in ToSet(Decode(f[i]).msgs) : x.type = "EndHeight"}}]
  <2>1. DOMAIN buildIndex(f) = UNION {ends[i] : i \in DOMAIN f}
    BY DEF buildIndex
  <2>2. ASSUME NEW i \in DOMAIN f, NEW x \in ToSet(Decode(f[i]).msgs) PROVE x.h \in LogHeights
    <3>1. f[i] \in Seq(Message \cup Cuts)
      BY <1>1 DEF FilesOK
    <3>2. Decode(f[i]).msgs \in Seq(Message)
      BY <3>1, DecodeFacts DEF Decoded
    <3>3. x \in Message
      BY <2>2, <3>2 DEF ToSet
    <3>4. QED
      BY <3>3, MessageFacts
  <2>3. ASSUME NEW i \in DOMAIN f, NEW h \in ends[i] PROVE h \in LogHeights
    <3>1. h \in {m.h : m \in {x \in ToSet(Decode(f[i]).msgs) : x.type = "EndHeight"}}
      BY <2>3
    <3>2. PICK x \in ToSet(Decode(f[i]).msgs) : h = x.h
      BY <3>1
    <3>3. QED
      BY <3>2, <2>2
  <2> HIDE DEF ends
  <2>4. QED
    BY <2>1, <2>3
<1>6. wal'.minIndex \in Nat /\ \A i \in DOMAIN f \cup {idx} : wal'.minIndex <= i
  <2>1. CASE DOMAIN f = {}
    BY <2>1, <1>2, <1>4
  <2>2. CASE DOMAIN f # {}
    <3>1. DOMAIN f \in SUBSET Nat
      BY <1>1
    <3>2. wal'.minIndex \in DOMAIN f /\ \A i \in DOMAIN f : wal'.minIndex <= i
      BY <2>2, <3>1, <1>4, MinIs
    <3>3. idx \in DOMAIN f
      BY <2>2, <1>1, MaxIs
    <3>4. QED
      BY <3>1, <3>2, <3>3
  <2>3. QED
    BY <2>1, <2>2
<1> HIDE DEF f, idx
<1>7. WalOK(wal', count)
  <2>1. <<>> \in Seq(Message)
    OBVIOUS
  <2>2. FilesOK(wal'.files, count) /\ DOMAIN wal'.files = DOMAIN f \cup {idx}
    BY <1>3, <1>4 DEF Opened
  <2>3. \A i \in DOMAIN wal'.files : wal'.minIndex <= i /\ i <= idx
    BY <1>2, <1>6, <2>2
  <2>4. QED
    BY <1>4, <1>5, <1>6, <2>1, <2>2, <2>3 DEF WalOK
<1>8. LogOK(Whole(wal'), count, applied)
  <2>1. Within(Whole(wal'), wal'.files)
    BY <1>1, <1>4, <1>7, NothingBuffered
  <2>2. Within(wal'.files, f)
    BY <1>3, <1>4 DEF Opened
  <2>3. Within(Whole(wal'), f)
    BY <2>1, <2>2, WithinTrans
  <2>4. LogOK(f, count, applied)
    BY <1>1 DEF LogInv, Whole, f
  <2>5. QED
    BY <2>3, <2>4, LogNumbers, OKWithin
<1>9. ASSUME NEW m \in durable, m \notin lost, m.h > checkpoint PROVE Has(wal'.files, m)
  <2>1. Has(f, m)
    BY <1>9, InvIs DEF Kept, f
  <2>2. QED
    BY <2>1, <1>3, <1>4, HasGrows DEF Opened
<1>10. UNCHANGED <<applied, count, durable, lost, checkpoint>> /\ height' = applied + 1
  BY DEF Start
<1>11. height' \in 1 .. MaxLogHeight + 1 /\ height' - 1 = applied /\ applied # height'
  BY <1>10, LogNumbers DEF LogInv, LogHeights
<1>12. QED
  <2>1. wal'.started
    BY <1>4
  <2>2. Kept'
    BY <1>9, <1>10 DEF Kept
  <2>3. QED
    BY <2>1, <2>2, <1>7, <1>8, <1>10, <1>11 DEF LogInv, Kept, Has

LEMMA StopInv ==
  ASSUME LogInv, Stop PROVE LogInv'
<1> DEFINE w == flushAndSync(wal)
<1>1. WalOK(wal, count) /\ wal.started /\ count \in Nat
  BY LogNumbers DEF LogInv, Stop
<1>2. /\ WalOK(w, count) /\ Whole(wal) = w.files /\ w.buf = <<>> /\ Grows(wal.files, w.files)
      /\ w.segmentIndex = wal.segmentIndex
      /\ ToSet(wal.buf) \subseteq ToSet(w.files[wal.segmentIndex])
  BY <1>1, FlushFacts
<1>3. wal' = [w EXCEPT !.started = FALSE]
  BY DEF Stop
<1> HIDE DEF w
<1>4. /\ DOMAIN wal' = WalFields /\ wal'.files = w.files /\ wal'.buf = <<>>
      /\ wal'.started = FALSE /\ wal'.heightIndex = w.heightIndex
  BY <1>2, <1>3 DEF WalOK, WalFields
<1>5. WalOK(wal', count)
  BY <1>2, <1>4 DEF WalOK
<1>6. LogOK(Whole(wal'), count, applied)
  <2>1. Whole(wal') = w.files
    BY <1>4 DEF Whole
  <2>2. Within(w.files, w.files)
    BY DEF Within
  <2>3. LogOK(w.files, count, height - 1)
    BY <1>1, <1>2 DEF LogInv
  <2>4. QED
    BY <2>1, <2>2, <2>3, LogNumbers, OKWithin
<1>7. UNCHANGED <<height, applied, count, lost, checkpoint>> /\ durable' = durable \cup ToSet(wal.buf)
  BY DEF Stop
<1>8. ToSet(wal.buf) \subseteq Message
  BY <1>1 DEF WalOK, ToSet
<1>9. ASSUME NEW m \in durable', m \notin lost, m.h > checkpoint PROVE Has(wal'.files, m)
  <2>1. CASE m \in durable
    <3>1. Has(wal.files, m)
      BY <2>1, <1>9, InvIs DEF Kept
    <3>2. QED
      BY <3>1, <1>2, <1>4, HasGrows
  <2>2. CASE m \in ToSet(wal.buf)
    <3>1. wal.segmentIndex \in DOMAIN w.files
      BY <1>1, <1>2 DEF WalOK, w, flushAndSync
    <3>2. QED
      BY <2>2, <3>1, <1>2, <1>4, HasInSegment
  <2>3. QED
    BY <2>1, <2>2, <1>7
<1>10. QED
  <2>1. Kept'
    BY <1>9, <1>7 DEF Kept
  <2>2. ~wal'.started
    BY <1>4
  <2>3. QED
    BY <2>1, <2>2, <1>5, <1>6, <1>7, <1>8 DEF LogInv, Kept, Has

LEMMA CrashInv ==
  ASSUME LogInv, CrashLog PROVE LogInv'
<1>1. WalOK(wal, count) /\ wal.started /\ count \in Nat
  BY LogNumbers DEF LogInv, CrashLog
<1>2. PICK r \in Remains(wal.buf) :
        wal' = [wal EXCEPT !.files[wal.segmentIndex] = @ \o r, !.buf = <<>>, !.started = FALSE]
  BY DEF CrashLog
<1>3. /\ WalOK(wal', count) /\ ~wal'.started /\ Within(Whole(wal'), Whole(wal))
      /\ Grows(wal.files, wal'.files)
  BY <1>1, <1>2, CrashFacts
<1>4. LogOK(Whole(wal'), count, applied)
  <2>1. LogOK(Whole(wal), count, height - 1)
    BY <1>1 DEF LogInv
  <2>2. QED
    BY <2>1, <1>3, LogNumbers, OKWithin
<1>5. UNCHANGED <<height, applied, count, durable, lost, checkpoint>>
  BY DEF CrashLog
<1>6. Kept'
  BY <1>3, <1>5, InvIs, HasGrows DEF Kept
<1>7. QED
  BY <1>3, <1>4, <1>5, <1>6 DEF LogInv, Kept, Has

(* A power failure takes segments, and nothing of the others. *)
LEMMA PowerFailureInv ==
  ASSUME LogInv, PowerFailure PROVE LogInv'
<1> DEFINE f == wal.files
<1>1. WalOK(wal, count) /\ ~wal.started /\ count \in Nat
      /\ UNCHANGED <<height, applied, count, durable, checkpoint>>
  BY LogNumbers DEF LogInv, PowerFailure
<1>2. PICK kept \in SUBSET DOMAIN f :
        /\ wal' = [wal EXCEPT !.files = [i \in kept |-> f[i]]]
        /\ lost' = lost \cup {m \in durable : \E i \in DOMAIN f \ kept : m \in ToSet(f[i])}
  BY DEF PowerFailure
<1> HIDE DEF f
<1>3. /\ DOMAIN wal' = WalFields /\ DOMAIN wal'.files = kept /\ \A i \in kept : wal'.files[i] = f[i]
      /\ wal'.started = wal.started /\ wal'.buf = wal.buf /\ wal'.heightIndex = wal.heightIndex
  BY <1>1, <1>2 DEF WalOK, WalFields
<1>4. WalOK(wal', count)
  BY <1>1, <1>3 DEF WalOK, FilesOK, f
<1>5. LogOK(Whole(wal'), count, applied)
  <2>1. Whole(wal') = wal'.files /\ Whole(wal) = f
    BY <1>1, <1>3 DEF Whole, f
  <2>2. Within(wal'.files, f)
    BY <1>3 DEF Within, IsMsg
  <2>3. QED
    BY <1>1, <2>1, <2>2, LogNumbers, OKWithin DEF LogInv
<1>6. ASSUME NEW m \in durable, m \notin lost', m.h > checkpoint PROVE Has(wal'.files, m)
  <2>1. PICK i \in DOMAIN f : m \in ToSet(f[i])
    BY <1>2, <1>6, InvIs DEF Kept, Has, f
  <2>2. i \in kept
    BY <1>2, <1>6, <2>1
  <2>3. QED
    BY <1>3, <2>1, <2>2 DEF Has
<1>7. Kept'
  BY <1>1, <1>6 DEF Kept
<1>8. QED
  BY <1>1, <1>3, <1>4, <1>5, <1>7 DEF LogInv, Kept, Has

(* What a rotation, or a sync, makes durable of the buffer. *)
LEMMA BufferHas ==
  ASSUME NEW c \in Nat, NEW w, WalOK(w, c), w.started, NEW g,
         Grows(flushAndSync(w).files, g), NEW m \in ToSet(w.buf)
  PROVE  Has(g, m)
<1> DEFINE f == flushAndSync(w).files
<1>1. ToSet(w.buf) \subseteq ToSet(f[w.segmentIndex])
  BY FlushFacts
<1>2. w.segmentIndex \in DOMAIN f
  BY FlushFacts DEF WalOK
<1> HIDE DEF f
<1>3. Has(f, m)
  BY <1>1, <1>2, HasInSegment
<1>4. QED
  BY <1>3, HasGrows DEF f

(* Write, with a vote. *)
LEMMA handleVoteInv ==
  ASSUME LogInv, NEW h \in LogHeights, handleVote(h) PROVE LogInv'
<1> DEFINE m == Msg("Vote", h)
<1>1. WalOK(wal, count) /\ wal.started /\ count \in Nat /\ CanWrite
  BY LogNumbers DEF LogInv, handleVote, CanWrite
<1>2. /\ m \in Message /\ m.n = count + 1 /\ m.type = "Vote" /\ count + 1 \in 0 .. MaxMessages
  BY <1>1, MsgIs
<1>3. wal' = Write(wal, m)
  BY DEF handleVote
<1> HIDE DEF m
<1>4. Wrote(wal, wal', count, m)
  BY <1>1, <1>2, <1>3, WriteFacts
<1>5. LogOK(Whole(wal'), count + 1, height - 1)
  <2>1. LogOK(Whole(wal), count, height - 1)
    BY <1>1 DEF LogInv
  <2>2. Adds(Whole(wal'), Whole(wal), m)
    BY <1>4 DEF Wrote
  <2>3. QED
    BY <2>1, <2>2, <1>1, <1>2, LogNumbers, OKAdds
<1>6. /\ UNCHANGED <<height, applied, lost, checkpoint>> /\ count' = count + 1
      /\ durable' = IF wal'.segmentIndex # wal.segmentIndex
                      THEN durable \cup ToSet(wal.buf) ELSE durable
  BY DEF handleVote
<1>7. ToSet(wal.buf) \subseteq Message
  BY <1>1 DEF WalOK, ToSet
<1>8. ASSUME NEW x \in durable', x \notin lost, x.h > checkpoint PROVE Has(wal'.files, x)
  <2>1. CASE x \in durable
    BY <2>1, <1>4, <1>8, InvIs, HasGrows DEF Kept, Wrote
  <2>2. CASE x \in ToSet(wal.buf) /\ wal'.segmentIndex # wal.segmentIndex
    BY <2>2, <1>1, <1>4, BufferHas DEF Wrote
  <2>3. QED
    BY <2>1, <2>2, <1>6
<1>9. QED
  <2>1. Kept'
    BY <1>6, <1>8 DEF Kept
  <2>2. WalOK(wal', count') /\ wal'.started
    BY <1>4, <1>6 DEF Wrote
  <2>3. durable' \subseteq Message
    BY <1>6, <1>7 DEF LogInv
  <2>4. QED
    BY <2>1, <2>2, <2>3, <1>2, <1>5, <1>6 DEF LogInv, Kept, Has

(* WriteSync leaves nothing in the buffer and the message in the files. *)
WroteSync(w, v, c, m) ==
  /\ WalOK(v, c + 1) /\ v.started
  /\ Adds(Whole(v), Whole(w), m)
  /\ Grows(w.files, v.files)
  /\ Has(v.files, m) /\ \A x \in ToSet(w.buf) : Has(v.files, x)

LEMMA WriteSyncFacts ==
  ASSUME NEW c \in Nat, NEW w, WalOK(w, c), w.started, NEW m \in Message
  PROVE  WroteSync(w, WriteSync(w, m), c, m)
<1> DEFINE v == Write(w, m)
           u == flushAndSync(v)
           d == c + 1
<1>1. Wrote(w, v, c, m) /\ d \in Nat
  BY WriteFacts
<1> HIDE DEF v, d
<1>2. WalOK(v, d) /\ v.started
  BY <1>1 DEF Wrote, d
<1>3. /\ WalOK(u, d) /\ u.started /\ Whole(v) = u.files /\ Whole(u) = u.files
      /\ Grows(v.files, u.files)
  BY <1>1, <1>2, FlushFacts
<1>4. Grows(u.files, u.files)
  BY Zenon DEF Grows
<1>5. \A x \in ToSet(v.buf) : Has(u.files, x)
  BY <1>1, <1>2, <1>4, BufferHas
<1> HIDE DEF u
<1>6. Grows(w.files, u.files)
  BY <1>1, <1>3, GrowsTrans DEF Wrote
<1>7. ASSUME NEW x \in ToSet(w.buf) PROVE Has(u.files, x)
  <2>1. CASE v.segmentIndex = w.segmentIndex
    BY <2>1, <1>1, <1>5 DEF Wrote
  <2>2. CASE v.segmentIndex # w.segmentIndex
    <3>1. Grows(flushAndSync(w).files, v.files)
      BY <2>2, <1>1 DEF Wrote
    <3>2. Has(v.files, x)
      BY <3>1, BufferHas
    <3>3. QED
      BY <3>2, <1>3, HasGrows
  <2>3. QED
    BY <2>1, <2>2
<1>8. WroteSync(w, u, c, m)
  BY <1>1, <1>3, <1>5, <1>6, <1>7 DEF WroteSync, Wrote, d
<1>9. QED
  BY <1>8 DEF WriteSync, u, v

(* WriteSync, with the state that goes on at the same or the next height. *)
LEMMA SyncInv ==
  ASSUME LogInv, CanWrite, NEW m \in Message, m.n = count + 1, wal' = WriteSync(wal, m),
         count' = count + 1, durable' = durable \cup ToSet(wal.buf) \cup {m},
         UNCHANGED <<applied, lost, checkpoint>>,
         \/ height' = height /\ m.type # "EndHeight"
         \/ height' = height + 1 /\ applied = height /\ m.h = height
  PROVE  LogInv'
<1>1. WalOK(wal, count) /\ wal.started /\ count \in Nat
  BY LogNumbers DEF LogInv, CanWrite
<1>2. WroteSync(wal, wal', count, m)
  BY <1>1, WriteSyncFacts
<1>3. height' \in 1 .. MaxLogHeight + 1 /\ applied' \in {height' - 1, height'}
      /\ (applied' = height' => height' \in LogHeights)
      /\ height' - 1 \in Int /\ height - 1 <= height' - 1
  BY LogNumbers DEF LogInv, CanWrite, LogHeights
<1>4. LogOK(Whole(wal'), count + 1, height' - 1)
  <2>1. LogOK(Whole(wal), count, height - 1)
    BY <1>1 DEF LogInv
  <2>2. Adds(Whole(wal'), Whole(wal), m)
    BY <1>2 DEF WroteSync
  <2>3. m.type = "EndHeight" => height - 1 < m.h /\ m.h <= height' - 1
    BY LogNumbers
  <2>4. QED
    BY <2>1, <2>2, <2>3, <1>1, <1>3, LogNumbers, OKAdds
<1>5. ToSet(wal.buf) \subseteq Message
  BY <1>1 DEF WalOK, ToSet
<1>6. ASSUME NEW x \in durable', x \notin lost, x.h > checkpoint PROVE Has(wal'.files, x)
  <2>1. CASE x \in durable
    BY <2>1, <1>2, <1>6, InvIs, HasGrows DEF Kept, WroteSync
  <2>2. CASE x \in ToSet(wal.buf) \cup {m}
    BY <2>2, <1>2 DEF WroteSync
  <2>3. QED
    BY <2>1, <2>2
<1>7. QED
  <2>1. Kept'
    BY <1>6 DEF Kept
  <2>2. WalOK(wal', count') /\ wal'.started
    BY <1>2 DEF WroteSync
  <2>3. durable' \subseteq Message
    BY <1>5 DEF LogInv
  <2>4. count' \in 0 .. MaxMessages
    BY LogNumbers DEF CanWrite
  <2>5. QED
    BY <2>1, <2>2, <2>3, <2>4, <1>3, <1>4 DEF LogInv, Kept, Has

LEMMA signAndSendVoteInv ==
  ASSUME LogInv, signAndSendVote PROVE LogInv'
<1>1. CanWrite /\ height \in LogHeights
  BY DEF signAndSendVote, CanWrite
<1>2. Msg("Vote", height) \in Message /\ Msg("Vote", height).n = count + 1
      /\ Msg("Vote", height).type # "EndHeight"
  BY <1>1, MsgIs
<1>3. QED
  BY <1>1, <1>2, SyncInv DEF signAndSendVote

LEMMA finalizeCommitInv ==
  ASSUME LogInv, finalizeCommit PROVE LogInv'
<1>1. CanWrite /\ height \in LogHeights
  BY DEF finalizeCommit, CanWrite
<1>2. Msg("EndHeight", height) \in Message /\ Msg("EndHeight", height).n = count + 1
      /\ Msg("EndHeight", height).h = height
  BY <1>1, MsgIs
<1>3. QED
  BY <1>1, <1>2, SyncInv DEF finalizeCommit

LEMMA ApplyBlockInv ==
  ASSUME LogInv, ApplyBlock PROVE LogInv'
<1>1. wal.started /\ height \in LogHeights /\ applied' = height
      /\ UNCHANGED <<wal, height, count, durable, lost, checkpoint>>
  BY DEF ApplyBlock, CanWrite
<1>2. QED
  BY <1>1 DEF LogInv

(* A crash in the middle of WriteSync. *)
LEMMA CrashInWriteSyncInv ==
  ASSUME LogInv, NEW m, CrashInWriteSync(m) PROVE LogInv'
<1> DEFINE w == Write(wal, m)
           type == IF applied = height THEN "EndHeight" ELSE "Vote"
           d == count + 1
<1>1. WalOK(wal, count) /\ wal.started /\ count \in Nat /\ CanWrite /\ height \in LogHeights
      /\ m = Msg(type, height)
  BY LogNumbers DEF LogInv, CrashInWriteSync, CanWrite
<1>2. /\ m \in Message /\ m.n = d /\ m.type = type /\ m.h = height
      /\ d \in 0 .. MaxMessages /\ d \in Nat
  BY <1>1, MsgIs
<1>3. Wrote(wal, w, count, m)
  BY <1>1, <1>2, WriteFacts
<1>4. PICK r \in Remains(w.buf) :
        wal' = [w EXCEPT !.files[w.segmentIndex] = @ \o r, !.buf = <<>>, !.started = FALSE]
  BY DEF CrashInWriteSync
<1>5. /\ UNCHANGED <<height, applied, lost, checkpoint>> /\ count' = d
      /\ durable' = IF w.segmentIndex # wal.segmentIndex
                      THEN durable \cup ToSet(wal.buf) ELSE durable
  BY DEF CrashInWriteSync
<1> HIDE DEF w, d
<1>6. WalOK(w, d) /\ w.started
  BY <1>3 DEF Wrote, d
<1>7. /\ WalOK(wal', d) /\ ~wal'.started /\ Within(Whole(wal'), Whole(w))
      /\ Grows(w.files, wal'.files)
  BY <1>2, <1>4, <1>6, CrashFacts
<1>8. LogOK(Whole(wal'), count + 1, applied)
  <2>1. LogOK(Whole(wal), count, height - 1)
    BY <1>1 DEF LogInv
  <2>2. Adds(Whole(wal'), Whole(wal), m)
    BY <1>3, <1>7, PartAdds DEF Wrote
  <2>3. m.type = "EndHeight" => height - 1 < m.h /\ m.h <= applied
    BY <1>2, LogNumbers
  <2>4. QED
    BY <2>1, <2>2, <2>3, <1>1, <1>2, LogNumbers, OKAdds DEF d
<1>9. ToSet(wal.buf) \subseteq Message
  BY <1>1 DEF WalOK, ToSet
<1>10. Grows(wal.files, wal'.files)
  BY <1>3, <1>7, GrowsTrans DEF Wrote
<1>11. ASSUME NEW x \in durable', x \notin lost, x.h > checkpoint PROVE Has(wal'.files, x)
  <2>1. CASE x \in durable
    BY <2>1, <1>10, <1>11, InvIs, HasGrows DEF Kept
  <2>2. CASE x \in ToSet(wal.buf) /\ w.segmentIndex # wal.segmentIndex
    <3>1. Grows(flushAndSync(wal).files, wal'.files)
      BY <2>2, <1>3, <1>7, GrowsTrans DEF Wrote
    <3>2. QED
      BY <2>2, <3>1, <1>1, BufferHas
  <2>3. QED
    BY <2>1, <2>2, <1>5
<1>12. QED
  <2>1. Kept'
    BY <1>5, <1>11 DEF Kept
  <2>2. durable' \subseteq Message
    BY <1>5, <1>9 DEF LogInv
  <2>3. LogOK(Whole(wal'), count', applied')
    BY <1>5, <1>8 DEF d
  <2>4. QED
    BY <2>1, <2>2, <2>3, <1>2, <1>5, <1>7 DEF LogInv, Kept, Has

(* Checkpoint: what goes has no message above the checkpoint, and what     *)
(* stays is not below minIndex.                                            *)
LEMMA CheckpointInv ==
  ASSUME LogInv, NEW h \in LogHeights, Checkpoint(h) PROVE LogInv'
<1> DEFINE f == wal.files
           s == wal.segmentIndex
           min == wal.minIndex
           old == {i \in min .. s - 1 :
                     \A j \in min .. i : j \in DOMAIN f /\ canDeleteSegment(f[j], h)}
<1>1. /\ WalOK(wal, count) /\ wal.started /\ count \in Nat /\ checkpoint \in Nat
      /\ h \in Nat /\ UNCHANGED <<height, applied, count, durable, lost>>
      /\ checkpoint' = Max({checkpoint, h})
  BY LogNumbers DEF LogInv, Checkpoint, LogHeights
<1>2. PICK gone \in {old} \cup {{i \in old : i < k} : k \in old} :
        wal' = [wal EXCEPT
                  !.files = [i \in DOMAIN @ \ gone |-> @[i]],
                  !.heightIndex = [x \in {g \in DOMAIN @ : @[g] \notin gone} |-> @[x]],
                  !.minIndex = IF gone = old /\ old # {} THEN Max(old) + 1 ELSE @]
  BY DEF Checkpoint
<1>3. gone \subseteq old
  BY <1>2
<1>4. /\ DOMAIN wal' = WalFields /\ wal'.files = [i \in DOMAIN f \ gone |-> f[i]]
      /\ wal'.buf = wal.buf /\ wal'.started = wal.started /\ wal'.segmentIndex = s
      /\ wal'.minIndex = IF gone = old /\ old # {} THEN Max(old) + 1 ELSE min
      /\ DOMAIN wal'.heightIndex \subseteq DOMAIN wal.heightIndex
  <2> HIDE DEF old
  <2>1. DOMAIN wal = WalFields
    BY <1>1 DEF WalOK
  <2>2. QED
    BY <1>2, <2>1 DEF WalFields
<1>5. /\ s \in DOMAIN f /\ s \in Nat /\ min \in Nat /\ DOMAIN f \in SUBSET Nat
      /\ FilesOK(f, count) /\ \A i \in DOMAIN f : min <= i /\ i <= s
  BY <1>1 DEF WalOK, FilesOK
<1>6. /\ \A i \in old : /\ i \in Nat /\ min <= i /\ i < s /\ i \in DOMAIN f
                       /\ canDeleteSegment(f[i], h)
      /\ \A i \in old : \A j \in min .. i : j \in DOMAIN f /\ canDeleteSegment(f[j], h)
      /\ \A i \in min .. s - 1 :
           (\A j \in min .. i : j \in DOMAIN f /\ canDeleteSegment(f[j], h)) => i \in old
  BY <1>5
<1> HIDE DEF old
<1>7. s \notin gone
  <2>1. s \in gone => s < s
    BY <1>3, <1>6, Zenon
  <2> HIDE DEF s
  <2>2. ~(s < s)
    BY <1>5
  <2>3. QED
    BY <2>1, <2>2, Zenon
<1>8. wal'.minIndex \in Nat /\ \A i \in DOMAIN f \ gone : wal'.minIndex <= i
  <2>1. CASE gone = old /\ old # {}
    <3>1. old \in SUBSET (0 .. s)
      BY <1>5, <1>6
    <3> DEFINE last == Max(old)
    <3>2. last \in old /\ \A i \in old : i <= last
      BY <2>1, <3>1, <1>5, MaxIs
    <3> HIDE DEF last
    <3>3. \A j \in min .. last : j \in DOMAIN f /\ canDeleteSegment(f[j], h)
      BY <3>2, <1>6
    <3>4. last \in Nat /\ last < s
      BY <3>2, <1>6
    <3>5. ASSUME NEW i \in DOMAIN f \ gone, i <= last PROVE FALSE
      <4>1. i \in min .. s - 1
        BY <3>4, <3>5, <1>5
      <4>2. \A j \in min .. i : j \in min .. last
        BY <3>4, <3>5, <1>5
      <4>3. i \in old
        BY <4>1, <4>2, <3>3, <1>6
      <4>4. QED
        BY <4>3, <2>1, <3>5
    <3>6. wal'.minIndex = last + 1
      BY <2>1, <1>4 DEF last
    <3>7. ASSUME NEW i \in DOMAIN f \ gone PROVE last + 1 <= i
      <4>1. i \in Nat /\ ~(i <= last)
        BY <3>5, <1>5
      <4>2. QED
        BY <4>1, <3>4
    <3>8. QED
      BY <3>4, <3>6, <3>7
  <2>2. CASE ~(gone = old /\ old # {})
    BY <2>2, <1>4, <1>5
  <2>3. QED
    BY <2>1, <2>2
<1>9. /\ DOMAIN wal'.files = DOMAIN f \ gone /\ \A i \in DOMAIN f \ gone : wal'.files[i] = f[i]
  BY <1>4
<1>10. WalOK(wal', count)
  <2>1. FilesOK(wal'.files, count)
    BY <1>5, <1>9 DEF FilesOK
  <2>2. s \in DOMAIN wal'.files /\ \A i \in DOMAIN wal'.files : wal'.minIndex <= i /\ i <= s
    BY <1>5, <1>7, <1>8, <1>9
  <2>3. wal'.buf \in Seq(Message) /\ wal'.started /\ DOMAIN wal'.heightIndex \subseteq LogHeights
    BY <1>1, <1>4 DEF WalOK
  <2>4. QED
    BY <2>1, <2>2, <2>3, <1>4, <1>8 DEF WalOK
<1>11. LogOK(Whole(wal'), count, height - 1)
  <2> DEFINE g == wal'.files
             b == wal.buf
  <2>1. Whole(wal') = Longer(g, s, b) /\ Whole(wal) = Longer(f, s, b)
    BY <1>1, <1>4, <1>10, WholeIs
  <2> HIDE DEF f, g, s, b
  <2>2. /\ DOMAIN Longer(g, s, b) = DOMAIN g /\ DOMAIN Longer(f, s, b) = DOMAIN f
        /\ DOMAIN g \subseteq DOMAIN f
        /\ \A i \in DOMAIN g : Longer(g, s, b)[i] = Longer(f, s, b)[i]
    BY <1>9 DEF Longer, g
  <2>3. Within(Whole(wal'), Whole(wal))
    BY <2>1, <2>2 DEF Within, IsMsg
  <2>4. LogOK(Whole(wal), count, height - 1)
    BY <1>1 DEF LogInv
  <2>5. QED
    BY <2>3, <2>4, LogNumbers, OKWithin
<1>12. ASSUME NEW m \in durable, m \notin lost, m.h > checkpoint' PROVE Has(wal'.files, m)
  <2>1. checkpoint' \in Nat /\ checkpoint' >= checkpoint /\ checkpoint' >= h
    BY <1>1, MaxOfTwo
  <2>2. m \in Message /\ m.h \in Nat
    BY MessageFacts DEF LogInv
  <2>3. Has(f, m)
    BY <2>1, <2>2, <1>1, <1>12, InvIs DEF Kept
  <2>4. PICK i \in DOMAIN f : m \in ToSet(f[i])
    BY <2>3 DEF Has
  <2>5. i \notin gone
    <3>1. ASSUME i \in gone PROVE FALSE
      <4>1. canDeleteSegment(f[i], h) /\ f[i] \in Seq(Message \cup Cuts)
        BY <3>1, <1>3, <1>5, <1>6 DEF FilesOK
      <4>2. m.h <= h
        BY <4>1, <2>2, <2>4, DeletableHas
      <4>3. QED
        BY <4>2, <2>1, <2>2, <1>1, <1>12
    <3>2. QED
      BY <3>1
  <2>6. QED
    BY <2>4, <2>5, <1>9 DEF Has
<1>13. QED
  <2>1. Kept'
    BY <1>1, <1>12 DEF Kept
  <2>2. wal'.started /\ checkpoint' \in Nat
    BY <1>1, <1>4, MaxOfTwo
  <2>3. QED
    BY <2>1, <2>2, <1>1, <1>10, <1>11 DEF LogInv, Kept, Has

LEMMA SearchInv ==
  ASSUME LogInv, NEW h \in LogHeights, Search(h) PROVE LogInv'
<1> DEFINE w == flushAndSync(wal)
           s == SearchForEndHeight(w, h)
<1>1. /\ WalOK(wal, count) /\ wal.started /\ count \in Nat
      /\ UNCHANGED <<height, applied, count, lost, checkpoint>>
      /\ durable' = durable \cup ToSet(wal.buf)
      /\ wal' = IF s.found THEN [w EXCEPT !.heightIndex = Indexed(@, h, s.seg)] ELSE w
  BY LogNumbers DEF LogInv, Search
<1>2. /\ WalOK(w, count) /\ Whole(wal) = w.files /\ w.buf = <<>> /\ w.started
      /\ Grows(wal.files, w.files)
  BY <1>1, FlushFacts
<1>3. Grows(w.files, w.files)
  BY Zenon DEF Grows
<1>4. \A x \in ToSet(wal.buf) : Has(w.files, x)
  BY <1>1, <1>3, BufferHas
<1> HIDE DEF w, s
<1>5. /\ DOMAIN wal' = WalFields /\ wal'.files = w.files /\ wal'.buf = <<>> /\ wal'.started
      /\ wal'.segmentIndex = w.segmentIndex /\ wal'.minIndex = w.minIndex
      /\ DOMAIN wal'.heightIndex \subseteq LogHeights
  <2>1. DOMAIN w = WalFields /\ DOMAIN w.heightIndex \subseteq LogHeights
    BY <1>2 DEF WalOK
  <2>2. DOMAIN Indexed(w.heightIndex, h, s.seg) = DOMAIN w.heightIndex \cup {h}
    BY DEF Indexed
  <2>3. QED
    BY <2>1, <2>2, <1>1, <1>2 DEF WalFields
<1>6. WalOK(wal', count)
  BY <1>2, <1>5 DEF WalOK
<1>7. LogOK(Whole(wal'), count, height - 1)
  <2>1. Within(Whole(wal'), w.files)
    BY <1>1, <1>5, <1>6, NothingBuffered
  <2>2. LogOK(w.files, count, height - 1)
    BY <1>1, <1>2 DEF LogInv
  <2>3. QED
    BY <2>1, <2>2, LogNumbers, OKWithin
<1>8. ToSet(wal.buf) \subseteq Message
  BY <1>1 DEF WalOK, ToSet
<1>9. ASSUME NEW m \in durable', m \notin lost, m.h > checkpoint PROVE Has(wal'.files, m)
  <2>1. CASE m \in durable
    BY <2>1, <1>2, <1>5, <1>9, InvIs, HasGrows DEF Kept
  <2>2. CASE m \in ToSet(wal.buf)
    BY <2>2, <1>4, <1>5
  <2>3. QED
    BY <2>1, <2>2, <1>1
<1>10. QED
  <2>1. Kept'
    BY <1>1, <1>9 DEF Kept
  <2>2. durable' \subseteq Message
    BY <1>1, <1>8 DEF LogInv
  <2>3. QED
    BY <2>1, <2>2, <1>1, <1>5, <1>6, <1>7 DEF LogInv, Kept, Has

(* Every step of the log, its writer and a crash keeps the invariant. *)
LEMMA NextInv == LogInv /\ [LogNext]_logVars => LogInv'
<1> SUFFICES ASSUME LogInv, [LogNext]_logVars PROVE LogInv'
  OBVIOUS
<1>1. CASE Start
  BY <1>1, StartInv
<1>2. CASE Stop
  BY <1>2, StopInv
<1>3. CASE CrashLog
  BY <1>3, CrashInv
<1>4. CASE \E h \in LogHeights : handleVote(h)
  BY <1>4, handleVoteInv
<1>5. CASE signAndSendVote
  BY <1>5, signAndSendVoteInv
<1>6. CASE ApplyBlock
  BY <1>6, ApplyBlockInv
<1>7. CASE finalizeCommit
  BY <1>7, finalizeCommitInv
<1>8. CASE \E type \in {"Vote", "EndHeight"} : CrashInWriteSync(Msg(type, height))
  BY <1>8, CrashInWriteSyncInv
<1>9. CASE \E h \in LogHeights : Checkpoint(h)
  BY <1>9, CheckpointInv
<1>10. CASE \E h \in LogHeights : Search(h)
  BY <1>10, SearchInv
<1>11. CASE UNCHANGED logVars
  BY <1>11 DEF logVars, LogInv
<1>12. CASE PowerFailure
  BY <1>12, PowerFailureInv
<1>13. QED
  BY <1>1, <1>2, <1>3, <1>4, <1>5, <1>6, <1>7, <1>8, <1>9, <1>10, <1>11, <1>12 DEF LogNext

(* At any time the segments and the buffer have their messages in the      *)
(* order of writing and at most one end of a height, however Write         *)
(* rotates, whatever Checkpoint deletes and wherever a write is torn.      *)
THEOREM LogInvariance == LogSpec => []LogInv
<1>1. LogInv /\ [LogNext]_logVars => LogInv'
  BY NextInv
<1>2. QED
  BY InitInv, <1>1, PTL DEF LogSpec

-----------------------------------------------------------------------------
(* What the invariant gives. *)

(* The segments that rotate and Start open are numbered up to the number   *)
(* of messages, and the current one is the last.                           *)
THEOREM LogTypeTheorem == LogSpec => []LogTypeOK
<1>1. ASSUME LogInv PROVE LogTypeOK
  <2>1. /\ WalOK(wal, count) /\ count \in Nat /\ count <= MaxMessages /\ MaxMessages \in Nat
        /\ height \in 1 .. MaxLogHeight + 1 /\ applied \in {height - 1, height}
    BY <1>1, LogNumbers DEF LogInv
  <2>2. ASSUME NEW i \in DOMAIN wal.files
        PROVE  i \in 0 .. MaxMessages /\ wal.files[i] \in Seq(Message \cup Cuts)
    BY <2>1 DEF WalOK, FilesOK
  <2>3. ASSUME wal.started PROVE wal.segmentIndex = Max(DOMAIN wal.files)
    <3> DEFINE D == DOMAIN wal.files
               m == Max(D)
               i == wal.segmentIndex
    <3>1. D \in SUBSET (0 .. count) /\ i \in D /\ \A j \in D : j <= i
      BY <2>1, <2>3 DEF WalOK, FilesOK
    <3>2. m \in D /\ \A y \in D : y <= m
      BY <2>1, <3>1, MaxIs
    <3> HIDE DEF D, m, i
    <3>3. m \in Int /\ i \in Int /\ m <= i /\ i <= m
      BY <2>1, <3>1, <3>2
    <3>4. m = i
      BY <3>3
    <3>5. QED
      BY <3>4 DEF m, i, D
  <2>4. QED
    BY <2>1, <2>2, <2>3 DEF LogTypeOK, WalOK
<1>2. QED
  BY <1>1, LogInvariance, PTL

(* No message that WriteSync, a rotation or a flush made durable is lost   *)
(* before a Checkpoint of its height, whatever crashes come in between,    *)
(* except with a segment that a power failure took because its entry in    *)
(* the directory was not on disk; and the log keeps the order of writing.  *)
THEOREM NothingLostTheorem == LogSpec => []NothingLost
<1>1. ASSUME LogInv PROVE NothingLost
  <2> DEFINE f == Flushed.files
  <2>1. WalOK(wal, count) /\ count \in Nat
    BY <1>1, LogNumbers DEF LogInv
  <2>2. f = Whole(wal)
    BY DEF Flushed, Whole
  <2>3. Grows(wal.files, f) /\ FilesOK(f, count)
    <3>1. CASE wal.started
      BY <2>1, <2>2, <3>1, FlushFacts DEF WalOK
    <3>2. CASE ~wal.started
      <4>1. f = wal.files
        BY <2>2, <3>2 DEF Whole
      <4>2. QED
        BY <2>1, <4>1 DEF WalOK, Grows
    <3>3. QED
      BY <3>1, <3>2
  <2>4. LogOK(f, count, IF wal.started THEN height - 1 ELSE applied) /\ Kept
    BY <1>1, <2>2, InvIs
  <2> HIDE DEF f
  <2>5. ASSUME NEW m \in durable \ lost, m.h > checkpoint
        PROVE  \E i \in DOMAIN f : m \in ToSet(f[i])
    BY <2>3, <2>4, <2>5, HasGrows DEF Kept, Has
  <2>6. ASSUME NEW i \in DOMAIN f, NEW j \in DOMAIN f,
               NEW k \in DOMAIN f[i], NEW l \in DOMAIN f[j],
               i < j \/ (i = j /\ k < l), {f[i][k], f[j][l]} \cap Cuts = {}
        PROVE  f[i][k].n < f[j][l].n
    <3>1. f[i] \in Seq(Message \cup Cuts) /\ f[j] \in Seq(Message \cup Cuts) /\ i \in Nat /\ j \in Nat
      BY <2>1, <2>3 DEF FilesOK
    <3>2. k \in Nat /\ l \in Nat
      BY <3>1
    <3>3. f[i][k] \notin Cuts /\ f[j][l] \notin Cuts
      BY <2>6
    <3>4. IsMsg(f, i, k) /\ IsMsg(f, j, l) /\ Earlier(i, k, j, l)
      BY <2>6, <3>1, <3>2, <3>3 DEF IsMsg, Earlier
    <3>5. QED
      BY <2>4, <3>4 DEF LogOK
  <2>7. QED
    BY <2>5, <2>6 DEF NothingLost, f
<1>2. QED
  BY <1>1, LogInvariance, PTL

-----------------------------------------------------------------------------
(* Searching. *)

EndAt(f, i, k, h) == i \in DOMAIN f /\ k \in DOMAIN f[i] /\ EndsHeight(f[i][k], h)
HasCut(f, i) == i \in DOMAIN f /\ \E k \in DOMAIN f[i] : f[i][k] \in Cuts
FoundIn(f, i, h, s) ==
  \E k : EndAt(f, i, k, h) /\ s.rest = SubSeq(f[i], k + 1, Len(f[i]))

(* What the search of a segment says. *)
InSegment(f, i, h, s) ==
  /\ s.found \in BOOLEAN /\ s.err \in BOOLEAN
  /\ s.found => ~s.err /\ FoundIn(f, i, h, s)
  /\ s.err => HasCut(f, i)
  /\ ~s.found /\ ~s.err => \A k : ~EndAt(f, i, k, h)

LEMMA SegmentFacts ==
  ASSUME NEW c \in Nat, NEW f, FilesOK(f, c), NEW i, NEW h
  PROVE  InSegment(f, i, h, searchSegmentForEndHeight(f, i, h))
<1> DEFINE d == Decode(f[i])
           at == {k \in DOMAIN d.msgs : EndsHeight(d.msgs[k], h)}
           s == searchSegmentForEndHeight(f, i, h)
<1>1. CASE i \notin DOMAIN f
  <2>1. s = NotFound
    BY <1>1 DEF searchSegmentForEndHeight
  <2>2. QED
    BY <1>1, <2>1 DEF NotFound, InSegment, EndAt
<1>2. CASE i \in DOMAIN f
  <2>1. f[i] \in Seq(Message \cup Cuts)
    BY <1>2 DEF FilesOK
  <2>2. Decoded(f[i], d)
    BY <2>1, DecodeFacts
  <2>3. CASE at = {}
    <3>1. s = [NotFound EXCEPT !.err = d.err]
      BY <1>2, <2>3 DEF searchSegmentForEndHeight
    <3>2. ~s.found /\ s.found \in BOOLEAN /\ s.err = d.err
      BY <3>1 DEF NotFound
    <3> HIDE DEF s
    <3>3. \A k \in DOMAIN d.msgs : ~EndsHeight(d.msgs[k], h)
      BY <2>3
    <3> HIDE DEF d
    <3>4. s.err => HasCut(f, i)
      BY <1>2, <2>2, <3>2 DEF Decoded, HasCut
    <3>5. ASSUME ~s.err, NEW k, EndAt(f, i, k, h) PROVE FALSE
      <4>1. f[i][k] \notin Cuts
        BY <3>5 DEF EndAt, EndsHeight, Cuts, CutAtField, CutInField
      <4>2. k \in DOMAIN d.msgs /\ d.msgs[k] = f[i][k]
        BY <2>2, <3>2, <3>5, <4>1 DEF Decoded, EndAt
      <4>3. QED
        BY <3>3, <3>5, <4>2 DEF EndAt
    <3>6. s.err \in BOOLEAN
      BY <2>2, <3>2 DEF Decoded
    <3>7. InSegment(f, i, h, s)
      BY <3>2, <3>4, <3>5, <3>6 DEF InSegment
    <3>8. QED
      BY <3>7 DEF s
  <2>4. CASE at # {}
    <3> DEFINE k == Min(at)
    <3>1. s = [found |-> TRUE, err |-> FALSE, seg |-> i, rest |-> SubSeq(f[i], k + 1, Len(f[i]))]
      BY <1>2, <2>4 DEF searchSegmentForEndHeight
    <3>2. at \in SUBSET Nat
      <4>1. d.msgs \in Seq(Message)
        BY <2>2 DEF Decoded
      <4> HIDE DEF d
      <4>2. QED
        BY <4>1
    <3>3. k \in at
      BY <2>4, <3>2, MinIs
    <3>4. EndAt(f, i, k, h)
      <4>1. k \in DOMAIN d.msgs /\ EndsHeight(d.msgs[k], h)
        BY <3>3
      <4> HIDE DEF d, k
      <4>2. QED
        BY <4>1, <1>2, <2>2 DEF Decoded, EndAt
    <3> HIDE DEF s, k
    <3>5. s.found /\ s.found \in BOOLEAN /\ ~s.err /\ s.err \in BOOLEAN
          /\ s.rest = SubSeq(f[i], k + 1, Len(f[i]))
      BY <3>1
    <3>6. InSegment(f, i, h, s)
      BY <3>4, <3>5 DEF InSegment, FoundIn
    <3>7. QED
      BY <3>6 DEF s
  <2>5. QED
    BY <2>3, <2>4
<1>3. QED
  BY <1>1, <1>2

(* What the search of the log says. *)
Searched(f, h, s) ==
  /\ s.found \in BOOLEAN /\ s.err \in BOOLEAN
  /\ s.found => ~s.err /\ \E i : FoundIn(f, i, h, s)
  /\ s.err => \E i : HasCut(f, i)
  /\ ~s.found /\ ~s.err => \A i, k : ~EndAt(f, i, k, h)

LEMMA SearchFacts ==
  ASSUME NEW c \in Nat, NEW w, WalOK(w, c), w.started, NEW h
  PROVE  Searched(w.files, h, SearchForEndHeight(w, h))
<1> DEFINE search(i) == searchSegmentForEndHeight(w.files, i, h)
           stop == {i \in w.minIndex .. w.segmentIndex : search(i).found \/ search(i).err}
           s == SearchForEndHeight(w, h)
<1>1. \A i : InSegment(w.files, i, h, search(i))
  BY SegmentFacts DEF WalOK
<1>2. \/ \E i : s = search(i) /\ (search(i).found \/ search(i).err)
      \/ stop = {} /\ s = NotFound
  <2>1. CASE h \in DOMAIN w.heightIndex
             /\ (search(w.heightIndex[h]).found \/ search(w.heightIndex[h]).err)
    <3>1. s = search(w.heightIndex[h])
      BY <2>1 DEF SearchForEndHeight
    <3>2. QED
      BY <2>1, <3>1
  <2>2. CASE ~(h \in DOMAIN w.heightIndex
               /\ (search(w.heightIndex[h]).found \/ search(w.heightIndex[h]).err))
    <3>1. s = IF stop = {} THEN NotFound ELSE search(Min(stop))
      BY <2>2 DEF SearchForEndHeight
    <3>2. CASE stop = {}
      BY <3>1, <3>2
    <3>3. CASE stop # {}
      <4>1. stop \in SUBSET Nat
        <5>1. w.minIndex \in Nat /\ w.segmentIndex \in Nat
          BY DEF WalOK, FilesOK
        <5>2. w.minIndex .. w.segmentIndex \in SUBSET Nat
          BY <5>1
        <5> HIDE DEF search
        <5>3. QED
          BY <5>2
      <4>2. Min(stop) \in stop
        BY <3>3, <4>1, MinIs
      <4>3. s = search(Min(stop))
        BY <3>1, <3>3
      <4>4. search(Min(stop)).found \/ search(Min(stop)).err
        BY <4>2
      <4>5. QED
        BY <4>3, <4>4
    <3>4. QED
      BY <3>2, <3>3
  <2>3. QED
    BY <2>1, <2>2
<1>3. CASE \E i : s = search(i) /\ (search(i).found \/ search(i).err)
  <2>1. PICK i : s = search(i) /\ (search(i).found \/ search(i).err)
    BY <1>3
  <2>2. InSegment(w.files, i, h, s) /\ (s.found \/ s.err)
    BY <1>1, <2>1
  <2> HIDE DEF s
  <2>3. Searched(w.files, h, s)
    BY <2>2 DEF InSegment, Searched
  <2>4. QED
    BY <2>3 DEF s
<1>4. CASE stop = {} /\ s = NotFound
  <2>1. s.found = FALSE /\ s.err = FALSE
    BY <1>4 DEF NotFound
  <2>2. ASSUME NEW i, NEW k, EndAt(w.files, i, k, h) PROVE FALSE
    <3>1. i \in w.minIndex .. w.segmentIndex
      <4>1. i \in DOMAIN w.files
        BY <2>2 DEF EndAt
      <4>2. /\ w.minIndex \in Nat /\ w.segmentIndex \in Nat /\ i \in Nat
            /\ w.minIndex <= i /\ i <= w.segmentIndex
        BY <4>1 DEF WalOK, FilesOK
      <4>3. QED
        BY <4>2
    <3>2. ~search(i).found /\ ~search(i).err
      BY <3>1, <1>4
    <3> HIDE DEF search
    <3>3. QED
      BY <3>2, <2>2, <1>1 DEF InSegment
  <2> HIDE DEF s
  <2>3. Searched(w.files, h, s)
    BY <2>1, <2>2 DEF Searched
  <2>4. QED
    BY <2>3 DEF s
<1>5. QED
  BY <1>2, <1>3, <1>4

(* SearchForEndHeight finds the end of a height that can be read, unless   *)
(* it fails, and it fails only at a cut record.                            *)
THEOREM SearchTheorem == LogSpec => []SearchIsRight
<1>1. ASSUME LogInv PROVE SearchIsRight
  <2> SUFFICES ASSUME wal.started, NEW h \in LogHeights
               PROVE  LET w == flushAndSync(wal)
                          s == SearchForEndHeight(w, h)
                          readable == UNION {ToSet(Decode(w.files[i]).msgs) : i \in DOMAIN w.files}
                      IN  /\ s.found \/ s.err \/ ~\E m \in readable : EndsHeight(m, h)
                          /\ s.err => \E i \in DOMAIN w.files : ToSet(w.files[i]) \cap Cuts # {}
    BY DEF SearchIsRight
  <2> DEFINE w == flushAndSync(wal)
             s == SearchForEndHeight(w, h)
             readable == UNION {ToSet(Decode(w.files[i]).msgs) : i \in DOMAIN w.files}
  <2>1. WalOK(wal, count) /\ count \in Nat
    BY <1>1, LogNumbers DEF LogInv
  <2>2. WalOK(w, count) /\ w.started
    BY <2>1, FlushFacts
  <2>3. Searched(w.files, h, s)
    BY <2>1, <2>2, SearchFacts
  <2> HIDE DEF w, s
  <2>4. ASSUME ~s.found, ~s.err, NEW m \in readable, EndsHeight(m, h) PROVE FALSE
    <3>1. PICK i \in DOMAIN w.files : m \in ToSet(Decode(w.files[i]).msgs)
      BY <2>4
    <3> DEFINE d == Decode(w.files[i])
    <3>2. w.files[i] \in Seq(Message \cup Cuts)
      BY <2>2 DEF WalOK, FilesOK
    <3>3. Decoded(w.files[i], d)
      BY <3>2, DecodeFacts
    <3> HIDE DEF d
    <3>4. PICK k \in DOMAIN d.msgs : m = d.msgs[k]
      BY <3>1 DEF ToSet, d
    <3>5. EndAt(w.files, i, k, h)
      BY <2>4, <3>3, <3>4 DEF Decoded, EndAt
    <3>6. QED
      BY <2>3, <2>4, <3>5 DEF Searched
  <2>5. ASSUME s.err PROVE \E i \in DOMAIN w.files : ToSet(w.files[i]) \cap Cuts # {}
    <3>1. PICK i : HasCut(w.files, i)
      BY <2>3, <2>5 DEF Searched
    <3>2. PICK k \in DOMAIN w.files[i] : w.files[i][k] \in Cuts
      BY <3>1 DEF HasCut
    <3>3. w.files[i][k] \in ToSet(w.files[i])
      BY <3>2 DEF ToSet
    <3>4. QED
      BY <3>1, <3>2, <3>3 DEF HasCut
  <2>6. QED
    BY <2>4, <2>5 DEF w, s
<1>2. QED
  BY <1>1, LogInvariance, PTL

-----------------------------------------------------------------------------
(* Replay. *)

(* The equation of OfHeight's recursive function. *)
FilterIs(e, msgs, t) ==
  e = [k \in 0 .. Len(msgs) |->
         IF k = 0 THEN <<>>
         ELSE IF msgs[k].h = t THEN Append(e[k - 1], msgs[k]) ELSE e[k - 1]]

Filtered(msgs, t) == CHOOSE e : FilterIs(e, msgs, t)

LEMMA FilterExists ==
  ASSUME NEW msgs, Len(msgs) \in Nat, NEW t
  PROVE  FilterIs(Filtered(msgs, t), msgs, t)
<1> DEFINE n == Len(msgs)
           Step(s, k) == IF msgs[k].h = t THEN Append(s, msgs[k]) ELSE s
           Upto(m, f) == /\ f = [k \in 0 .. m |-> f[k]]
                         /\ f[0] = <<>>
                         /\ \A k \in 1 .. m : f[k] = Step(f[k - 1], k)
           T == {m \in Nat : \E f : Upto(m, f)}
<1>1. 0 \in T
  <2> DEFINE f0 == [k \in 0 .. 0 |-> <<>>]
  <2>1. Upto(0, f0)
    OBVIOUS
  <2>2. QED
    BY <2>1
<1> HIDE DEF Step
<1>2. ASSUME NEW m \in Nat, m \in T PROVE m + 1 \in T
  <2>1. PICK g : Upto(m, g)
    BY <1>2
  <2> DEFINE f == [k \in 0 .. m + 1 |-> IF k = m + 1 THEN Step(g[m], m + 1) ELSE g[k]]
  <2>2. f = [k \in 0 .. m + 1 |-> f[k]]
    OBVIOUS
  <2>3. f[m + 1] = Step(g[m], m + 1) /\ \A k \in 0 .. m : f[k] = g[k]
    OBVIOUS
  <2> HIDE DEF f
  <2>4. f[0] = <<>>
    BY <2>1, <2>3
  <2>5. ASSUME NEW k \in 1 .. m + 1 PROVE f[k] = Step(f[k - 1], k)
    <3>1. CASE k = m + 1
      BY <2>3, <3>1
    <3>2. CASE k # m + 1
      <4>1. k \in 1 .. m /\ k \in 0 .. m /\ k - 1 \in 0 .. m
        BY <3>2
      <4>2. QED
        BY <2>1, <2>3, <4>1
    <3>3. QED
      BY <3>1, <3>2
  <2>6. Upto(m + 1, f)
    BY <2>2, <2>4, <2>5
  <2> HIDE DEF Upto
  <2>7. QED
    BY <2>6
<1>3. T = Nat
  <2> HIDE DEF T
  <2>1. T \in SUBSET Nat
    BY DEF T
  <2>2. QED
    BY <1>1, <1>2, <2>1, Induction
<1>4. PICK f : Upto(n, f)
  BY <1>3
<1>5. FilterIs(f, msgs, t)
  <2>1. f = [k \in 0 .. n |-> IF k = 0 THEN <<>> ELSE Step(f[k - 1], k)]
    BY <1>4
  <2>2. QED
    BY <2>1 DEF FilterIs, Step
<1>6. QED
  BY <1>5 DEF Filtered

(* r has the messages of height t among msgs, and they are in order. *)
Selects(r, msgs, t) ==
  /\ \A m : m \in ToSet(r) <=> \E j \in DOMAIN msgs : msgs[j] = m /\ m.h = t
  /\ \A j, k \in DOMAIN r : j < k => r[j].n < r[k].n

LEMMA OfHeightFacts ==
  ASSUME NEW msgs \in Seq(Message), NEW t,
         \A j, k \in DOMAIN msgs : j < k => msgs[j].n < msgs[k].n
  PROVE  Selects(OfHeight(msgs, t), msgs, t)
<1> DEFINE n == Len(msgs)
           e == Filtered(msgs, t)
<1>1. n \in Nat /\ DOMAIN msgs = 1 .. n /\ \A k \in 1 .. n : msgs[k] \in Message
  OBVIOUS
<1>2. FilterIs(e, msgs, t)
  BY <1>1, FilterExists
<1>3. OfHeight(msgs, t) = e[n]
  BY DEF OfHeight, Filtered, FilterIs
<1> HIDE DEF e
<1>4. /\ e[0] = <<>>
      /\ \A k \in 1 .. n : msgs[k].h = t => e[k] = Append(e[k - 1], msgs[k])
      /\ \A k \in 1 .. n : msgs[k].h # t => e[k] = e[k - 1]
  <2>1. e = [k \in 0 .. n |->
               IF k = 0 THEN <<>>
               ELSE IF msgs[k].h = t THEN Append(e[k - 1], msgs[k]) ELSE e[k - 1]]
    BY <1>2 DEF FilterIs
  <2> HIDE DEF n
  <2>2. 0 \in 0 .. n /\ \A k \in 1 .. n : k \in 0 .. n /\ k # 0
    BY <1>1
  <2>3. e[0] = <<>>
    BY <2>1, <2>2
  <2>4. ASSUME NEW k \in 1 .. n
        PROVE  e[k] = IF msgs[k].h = t THEN Append(e[k - 1], msgs[k]) ELSE e[k - 1]
    BY <2>1, <2>2
  <2>5. QED
    BY <2>3, <2>4, Zenon
<1> HIDE DEF n
<1> DEFINE Upto(k) == /\ e[k] \in Seq(Message)
                      /\ \A m : m \in ToSet(e[k]) <=> \E j \in 1 .. k : msgs[j] = m /\ m.h = t
                      /\ \A a, b \in DOMAIN e[k] : a < b => e[k][a].n < e[k][b].n
           S == {k \in Nat : k <= n => Upto(k)}
<1>5. 0 \in S
  <2>1. Upto(0)
    BY <1>4 DEF ToSet
  <2>2. QED
    BY <2>1
<1>6. ASSUME NEW k \in Nat, k \in S PROVE k + 1 \in S
  <2> SUFFICES ASSUME k + 1 <= n PROVE Upto(k + 1)
    OBVIOUS
  <2>1. k \in Nat /\ k + 1 \in 1 .. n /\ (k + 1) - 1 = k
    BY <1>1
  <2>2. Upto(k)
    BY <1>6, <1>1
  <2> DEFINE x == msgs[k + 1]
             s == e[k]
             r == e[k + 1]
  <2>3. x \in Message
    BY <1>1, <2>1
  <2>4. CASE x.h = t
    <3>1. r = Append(s, x)
      BY <1>4, <2>1, <2>4
    <3>2. s \in Seq(Message)
      BY <2>2
    <3>3. /\ \A m : m \in ToSet(s) <=> \E j \in 1 .. k : msgs[j] = m /\ m.h = t
          /\ \A a, b \in DOMAIN s : a < b => s[a].n < s[b].n
      BY <2>2
    <3> HIDE DEF r, s
    <3>4. /\ r \in Seq(Message) /\ Len(s) \in Nat /\ DOMAIN s = 1 .. Len(s)
          /\ DOMAIN r = 1 .. Len(s) + 1 /\ r[Len(s) + 1] = x
          /\ \A a \in 1 .. Len(s) : r[a] = s[a]
      BY <2>3, <3>1, <3>2
    <3>5. \A m : m \in ToSet(r) <=> m \in ToSet(s) \/ m = x
      <4>1. \A m : m \in ToSet(r) <=> \E a \in 1 .. Len(s) + 1 : m = r[a]
        BY <3>4 DEF ToSet
      <4>2. \A m : m \in ToSet(s) <=> \E a \in 1 .. Len(s) : m = s[a]
        BY <3>4 DEF ToSet
      <4>3. QED
        BY <3>4, <4>1, <4>2
    <3>6. \A m : m \in ToSet(r) <=> \E j \in 1 .. k + 1 : msgs[j] = m /\ m.h = t
      <4> HIDE DEF x
      <4>1. ASSUME NEW m, m \in ToSet(r) PROVE \E j \in 1 .. k + 1 : msgs[j] = m /\ m.h = t
        <5>1. CASE m = x
          <6>1. k + 1 \in 1 .. k + 1 /\ msgs[k + 1] = m /\ m.h = t
            BY <5>1, <2>1, <2>4 DEF x
          <6>2. QED
            BY <6>1, Zenon
        <5>2. CASE m \in ToSet(s)
          BY <5>2, <3>3
        <5>3. QED
          BY <5>1, <5>2, <4>1, <3>5
      <4>2. ASSUME NEW m, NEW j \in 1 .. k + 1, msgs[j] = m, m.h = t PROVE m \in ToSet(r)
        <5>1. CASE j = k + 1
          BY <5>1, <4>2, <3>5 DEF x
        <5>2. CASE j # k + 1
          <6>1. j \in 1 .. k
            BY <5>2
          <6>2. QED
            BY <6>1, <4>2, <3>3, <3>5
        <5>3. QED
          BY <5>1, <5>2
      <4>3. QED
        BY <4>1, <4>2
    <3>7. ASSUME NEW a \in DOMAIN r, NEW b \in DOMAIN r, a < b PROVE r[a].n < r[b].n
      <4>1. a \in 1 .. Len(s) /\ r[a] = s[a]
        BY <3>4, <3>7
      <4>2. CASE b \in 1 .. Len(s)
        BY <3>3, <3>4, <3>7, <4>1, <4>2
      <4>3. CASE b = Len(s) + 1
        <5>1. s[a] \in ToSet(s)
          BY <3>4, <4>1 DEF ToSet
        <5>2. PICK j \in 1 .. k : msgs[j] = s[a]
          BY <5>1, <3>3
        <5>3. j \in DOMAIN msgs /\ k + 1 \in DOMAIN msgs /\ j < k + 1
          BY <1>1, <2>1
        <5>4. msgs[j].n < msgs[k + 1].n
          BY <5>3
        <5>5. QED
          BY <5>2, <5>4, <4>1, <4>3, <3>4
      <4>4. QED
        BY <4>2, <4>3, <3>4
    <3>8. QED
      BY <3>4, <3>6, <3>7 DEF r
  <2>5. CASE x.h # t
    <3>1. r = s
      BY <1>4, <2>1, <2>5
    <3>2. \A m : (\E j \in 1 .. k + 1 : msgs[j] = m /\ m.h = t)
                   <=> \E j \in 1 .. k : msgs[j] = m /\ m.h = t
      <4>1. \A j \in 1 .. k + 1 : j = k + 1 \/ j \in 1 .. k
        BY <2>1
      <4>2. \A j \in 1 .. k : j \in 1 .. k + 1
        BY <2>1
      <4>3. QED
        BY <4>1, <4>2, <2>5
    <3>3. QED
      BY <2>2, <3>1, <3>2
  <2>6. QED
    BY <2>4, <2>5
<1>7. S = Nat
  <2> HIDE DEF S
  <2>1. S \in SUBSET Nat
    BY DEF S
  <2>2. QED
    BY <1>5, <1>6, <2>1, Induction
<1>8. Upto(n)
  <2> HIDE DEF Upto
  <2>1. n \in S /\ n <= n
    BY <1>1, <1>7
  <2>2. QED
    BY <2>1
<1>9. QED
  BY <1>1, <1>3, <1>8 DEF Selects

(* The rest of a segment. *)
LEMMA RestFacts ==
  ASSUME NEW recs \in Seq(Message \cup Cuts), NEW k \in DOMAIN recs,
         NEW rest, rest = SubSeq(recs, k + 1, Len(recs))
  PROVE  /\ rest \in Seq(Message \cup Cuts) /\ k \in Nat
         /\ \A j \in DOMAIN rest : j \in Nat /\ 1 <= j /\ k + j \in DOMAIN recs /\ rest[j] = recs[k + j]
         /\ \A x \in DOMAIN recs : x \in Nat /\ (k < x => x - k \in DOMAIN rest)
<1> DEFINE n == Len(recs)
           R == Message \cup Cuts
<1>1. n \in Nat /\ DOMAIN recs = 1 .. n /\ k \in 1 .. n /\ \A j \in 1 .. n : recs[j] \in R
  OBVIOUS
<1> HIDE DEF n, R
<1>2. /\ Len(rest) = n - k /\ DOMAIN rest = 1 .. n - k
      /\ \A j \in 1 .. n - k : rest[j] = recs[k + j]
      /\ rest = [j \in 1 .. n - k |-> recs[k + j]]
  BY <1>1 DEF n
<1>3. \A j \in 1 .. n - k : k + j \in 1 .. n
  BY <1>1
<1>4. n - k \in Nat
  BY <1>1
<1>5. rest \in Seq(R)
  BY <1>1, <1>2, <1>3, <1>4
<1>6. QED
  BY <1>1, <1>2, <1>3, <1>5 DEF R

(* What ReplayWAL returns. *)
LEMMA ReplayIs ==
  ASSUME NEW w, NEW t
  PROVE  LET s == SearchForEndHeight(w, t - 1)
             d == Decode(s.rest)
             end == {k \in DOMAIN d.msgs : EndsHeight(d.msgs[k], t)}
             r == ReplayWAL(w, t)
         IN  /\ s.found /\ end = {} => r.msgs = OfHeight(d.msgs, t)
             /\ ~s.found => r.msgs = <<>>
             /\ s.err => r.err
             /\ s.found /\ end = {} /\ d.err => r.err
BY DEF ReplayWAL

(* ReplayWAL returns exactly the messages of the height behind the end of  *)
(* the previous one, in the order of writing.                              *)
THEOREM ReplayTheorem == LogSpec => []ReplayIsExact
<1>1. ASSUME LogInv PROVE ReplayIsExact
  <2> SUFFICES ASSUME wal.started
               PROVE  LET w == flushAndSync(wal)
                          r == ReplayWAL(w, height)
                          written == UNION {Behind(w.files[i], height - 1) : i \in DOMAIN w.files}
                      IN  /\ ~r.err => ToSet(r.msgs) = {m \in written : m.h = height}
                          /\ \A j, k \in DOMAIN r.msgs : j < k => r.msgs[j].n < r.msgs[k].n
    BY DEF ReplayIsExact
  <2> DEFINE w == flushAndSync(wal)
             f == w.files
             t == height
             s == SearchForEndHeight(w, t - 1)
             r == ReplayWAL(w, t)
             d == Decode(s.rest)
             end == {k \in DOMAIN d.msgs : EndsHeight(d.msgs[k], t)}
             written == UNION {Behind(f[i], t - 1) : i \in DOMAIN f}
  <2>1. WalOK(wal, count) /\ count \in Nat /\ t \in Nat /\ t >= 1
    BY <1>1, LogNumbers DEF LogInv
  <2>2. WalOK(w, count) /\ w.started /\ Whole(wal) = f
    BY <2>1, FlushFacts
  <2>3. FilesOK(f, count)
    BY <2>2 DEF WalOK
  <2>4. LogOK(f, count, t - 1)
    BY <1>1, <2>2 DEF LogInv
  <2>5. Searched(f, t - 1, s)
    BY <2>1, <2>2, SearchFacts
  <2>6. /\ s.found /\ end = {} => r.msgs = OfHeight(d.msgs, t)
        /\ ~s.found => r.msgs = <<>>
        /\ s.err => r.err
        /\ s.found /\ end = {} /\ d.err => r.err
    BY ReplayIs
  <2>7. ASSUME NEW m PROVE m \in written <=> \E i, x, y : /\ EndAt(f, i, y, t - 1) /\ y < x
                                                         /\ x \in DOMAIN f[i] /\ m = f[i][x]
    <3> HIDE DEF f
    <3>1. \A i \in DOMAIN f : DOMAIN f[i] = 1 .. Len(f[i]) /\ Len(f[i]) \in Nat
      BY <2>3 DEF FilesOK
    <3>2. ASSUME m \in written
          PROVE  \E i, x, y : EndAt(f, i, y, t - 1) /\ y < x /\ x \in DOMAIN f[i] /\ m = f[i][x]
      <4>1. PICK i \in DOMAIN f : m \in Behind(f[i], t - 1)
        BY <3>2
      <4>2. PICK x \in DOMAIN f[i] :
              m = f[i][x] /\ \E j \in 1 .. x - 1 : EndsHeight(f[i][j], t - 1)
        BY <4>1 DEF Behind
      <4>3. PICK j \in 1 .. x - 1 : EndsHeight(f[i][j], t - 1)
        BY <4>2
      <4>4. x \in 1 .. Len(f[i]) /\ Len(f[i]) \in Nat
        BY <3>1
      <4>5. j \in 1 .. Len(f[i]) /\ j < x
        BY <4>3, <4>4
      <4>6. EndAt(f, i, j, t - 1)
        BY <3>1, <4>3, <4>5 DEF EndAt
      <4>7. QED
        BY <4>2, <4>5, <4>6
    <3>3. ASSUME NEW i, NEW x, NEW y, EndAt(f, i, y, t - 1), y < x, x \in DOMAIN f[i], m = f[i][x]
          PROVE  m \in written
      <4>1. i \in DOMAIN f /\ y \in DOMAIN f[i] /\ EndsHeight(f[i][y], t - 1)
        BY <3>3 DEF EndAt
      <4>2. y \in 1 .. x - 1
        BY <3>1, <3>3, <4>1
      <4>3. m \in Behind(f[i], t - 1)
        BY <3>3, <4>1, <4>2 DEF Behind
      <4>4. QED
        BY <4>1, <4>3
    <3>4. QED
      BY <3>2, <3>3
  <2> HIDE DEF w, s, r, d, written
  <2>8. CASE s.found
    <3>1. PICK i : FoundIn(f, i, t - 1, s)
      BY <2>5, <2>8 DEF Searched
    <3>2. PICK k : EndAt(f, i, k, t - 1) /\ s.rest = SubSeq(f[i], k + 1, Len(f[i]))
      BY <3>1 DEF FoundIn
    <3>3. i \in DOMAIN f /\ k \in DOMAIN f[i] /\ f[i] \in Seq(Message \cup Cuts) /\ i \in Nat
      BY <2>1, <2>3, <3>2 DEF EndAt, FilesOK
    <3> DEFINE rest == s.rest
               msgs == d.msgs
    <3>4. /\ rest \in Seq(Message \cup Cuts) /\ k \in Nat
          /\ \A j \in DOMAIN rest : j \in Nat /\ 1 <= j /\ k + j \in DOMAIN f[i] /\ rest[j] = f[i][k + j]
          /\ \A x \in DOMAIN f[i] : x \in Nat /\ (k < x => x - k \in DOMAIN rest)
      BY <3>2, <3>3, RestFacts
    <3>5. Decoded(rest, d)
      BY <3>4, DecodeFacts DEF d
    <3> HIDE DEF f, rest
    <3>6. ASSUME NEW j \in DOMAIN msgs
          PROVE  /\ j \in DOMAIN rest /\ j \in Nat /\ 1 <= j /\ msgs[j] = f[i][k + j]
                 /\ k + j \in DOMAIN f[i] /\ msgs[j] \in Message
                 /\ IsMsg(f, i, k + j)
      <4>1. j \in DOMAIN rest /\ msgs[j] = rest[j] /\ msgs[j] \in Message
        BY <3>5 DEF Decoded
      <4>2. j \in Nat /\ 1 <= j /\ k + j \in DOMAIN f[i] /\ msgs[j] = f[i][k + j]
        BY <3>4, <4>1
      <4>3. f[i][k + j] \notin Cuts
        BY <4>1, <4>2, MessageFacts
      <4>4. QED
        BY <3>3, <3>4, <4>1, <4>2, <4>3 DEF IsMsg
    <3>7. end = {}
      <4>1. ASSUME NEW j \in DOMAIN msgs, EndsHeight(msgs[j], t) PROVE FALSE
        <5>1. Ends(f, i, k + j) /\ f[i][k + j].h = t
          BY <3>6, <4>1 DEF Ends, EndsHeight
        <5>2. t <= t - 1
          BY <2>4, <5>1 DEF LogOK
        <5>3. QED
          BY <2>1, <5>2
      <4>2. QED
        BY <4>1
    <3>8. ASSUME NEW a \in DOMAIN msgs, NEW b \in DOMAIN msgs, a < b PROVE msgs[a].n < msgs[b].n
      <4>1. IsMsg(f, i, k + a) /\ IsMsg(f, i, k + b) /\ Earlier(i, k + a, i, k + b)
        BY <3>4, <3>6, <3>8 DEF Earlier
      <4>2. f[i][k + a].n < f[i][k + b].n
        BY <2>4, <4>1 DEF LogOK
      <4>3. QED
        BY <3>6, <4>2
    <3>9. Selects(r.msgs, msgs, t)
      <4>1. msgs \in Seq(Message)
        BY <3>5 DEF Decoded
      <4>2. r.msgs = OfHeight(msgs, t)
        BY <2>6, <2>8, <3>7
      <4> HIDE DEF msgs
      <4>3. QED
        BY <4>1, <4>2, <3>8, OfHeightFacts
    <3>10. ASSUME NEW m \in ToSet(r.msgs) PROVE m \in written /\ m.h = t
      <4>1. PICK j \in DOMAIN msgs : msgs[j] = m /\ m.h = t
        BY <3>9, <3>10 DEF Selects
      <4>2. k < k + j /\ k + j \in DOMAIN f[i] /\ m = f[i][k + j]
        BY <3>4, <3>6, <4>1
      <4>3. QED
        BY <2>7, <3>2, <4>1, <4>2
    <3>11. ASSUME ~r.err, NEW m \in written, m.h = t PROVE m \in ToSet(r.msgs)
      <4>1. PICK j, x, y : EndAt(f, j, y, t - 1) /\ y < x /\ x \in DOMAIN f[j] /\ m = f[j][x]
        BY <2>7, <3>11
      <4>2. \A a, b : EndAt(f, a, b, t - 1) => Ends(f, a, b) /\ f[a][b].h = t - 1
        <5>1. ASSUME NEW a, NEW b, EndAt(f, a, b, t - 1) PROVE Ends(f, a, b) /\ f[a][b].h = t - 1
          <6>1. a \in DOMAIN f /\ b \in DOMAIN f[a] /\ f[a][b].type = "EndHeight" /\ f[a][b].h = t - 1
            BY <5>1 DEF EndAt, EndsHeight
          <6>2. f[a] \in Seq(Message \cup Cuts) /\ a \in Nat
            BY <2>1, <2>3, <6>1 DEF FilesOK
          <6>3. b \in Nat
            BY <6>1, <6>2
          <6>4. f[a][b] \notin Cuts
            BY <6>1 DEF Cuts, CutAtField, CutInField
          <6>5. QED
            BY <6>1, <6>2, <6>3, <6>4 DEF Ends, IsMsg
        <5>2. QED
          BY <5>1
      <4>3. j = i /\ y = k
        <5>1. Ends(f, j, y) /\ Ends(f, i, k) /\ f[j][y].h = f[i][k].h
          BY <3>2, <4>1, <4>2
        <5>2. QED
          BY <2>4, <5>1 DEF LogOK
      <4>4. x - k \in DOMAIN rest /\ x \in Nat /\ k \in Nat
        BY <3>4, <4>1, <4>3
      <4>5. k + (x - k) = x
        BY <4>4
      <4>6. rest[x - k] = m
        BY <3>4, <4>1, <4>3, <4>4, <4>5
      <4>7. m \notin Cuts
        BY <2>1, <3>11 DEF Cuts, CutAtField, CutInField
      <4>8. ~d.err
        BY <2>6, <2>8, <3>7, <3>11
      <4>9. x - k \in DOMAIN msgs /\ msgs[x - k] = m
        BY <3>5, <4>4, <4>6, <4>7, <4>8 DEF Decoded
      <4>10. QED
        BY <3>9, <3>11, <4>9 DEF Selects
    <3>12. ~r.err => ToSet(r.msgs) = {m \in written : m.h = t}
      BY <3>10, <3>11
    <3>13. \A a, b \in DOMAIN r.msgs : a < b => r.msgs[a].n < r.msgs[b].n
      BY <3>9 DEF Selects
    <3>14. QED
      BY <3>12, <3>13 DEF w, r, f, written
  <2>9. CASE ~s.found
    <3>1. r.msgs = <<>> /\ (s.err => r.err)
      BY <2>6, <2>9
    <3>2. ~r.err => written = {}
      <4>1. ASSUME ~r.err, NEW m \in written PROVE FALSE
        <5>1. \A i, k : ~EndAt(f, i, k, t - 1)
          BY <2>5, <2>9, <3>1, <4>1 DEF Searched
        <5>2. QED
          BY <2>7, <4>1, <5>1
      <4>2. QED
        BY <4>1
    <3>3. ToSet(r.msgs) = {} /\ DOMAIN r.msgs = {}
      BY <3>1 DEF ToSet
    <3>4. ~r.err => ToSet(r.msgs) = {m \in written : m.h = t}
      BY <3>2, <3>3
    <3>5. \A a, b \in DOMAIN r.msgs : a < b => r.msgs[a].n < r.msgs[b].n
      BY <3>3
    <3>6. QED
      BY <3>4, <3>5 DEF w, r, f, written
  <2>10. QED
    BY <2>8, <2>9
<1>2. QED
  BY <1>1, LogInvariance, PTL
=============================================================================
