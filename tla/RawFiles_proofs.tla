-------------------------- MODULE RawFiles_proofs --------------------------
(***************************************************************************)
(* Theorems on what is read of a damaged file: which frames and events are *)
(* returned, and what may be lost, for every file that is laid out as      *)
(* RawFiles says, of any length, and one damage anywhere.                  *)
(***************************************************************************)
EXTENDS RawFiles, Pedestal_proofs

-----------------------------------------------------------------------------
(* Whole files.                                                              *)

LEMMA Sizes == FrameSize \in Nat /\ FrameSize >= 1 /\ HkSize \in Nat /\ HkSize <= FrameSize
BY RawDataAssumption

LEMMA NextIndex ==
  ASSUME NEW i \in Int, NEW p \in Int, NEW q \in Int
  PROVE  i + (q + 1 - p) = (i + (q - p)) + 1
OBVIOUS

\* Where an event lies that begins at cell h of the frame after s.
LEMMA EventSpan ==
  ASSUME NEW s \in Nat, NEW h \in Nat, NEW size \in Nat, size >= 4,
         NEW frame \in Nat, NEW n \in Nat, s + frame <= n,
         NEW t, t = h + size - 1, t < frame, NEW p, p = s + h + 1
  PROVE  /\ p \in Nat /\ s + t + 1 \in Nat /\ p \in 1..n /\ s + t + 1 \in 1..n
         /\ p + 2 \in 1..n /\ p + 2 # 1 /\ p < s + t + 1
         /\ h + 2 < frame /\ s + (h + 2) + 1 = p + 2
         /\ s + t + 1 = p + size - 1
OBVIOUS

LEMMA SameEnd ==
  ASSUME NEW s \in Nat, NEW h \in Nat, NEW size \in Nat, NEW t, t = h + size - 1
  PROVE  s + h + size = s + t + 1
OBVIOUS

\* What IsEvent says, with the size of the event.
LEMMA EventBounds ==
  ASSUME NEW f \in Seq(Cells), NEW p \in Nat \ {0}, NEW end \in 0..Len(f), IsEvent(f, p, end)
  PROVE  /\ LastOf(f, p) \in (p + 3)..end
         /\ f[p].role = "event" /\ f[p + 2].role = "hits" /\ f[LastOf(f, p)].role = "trailer"
         /\ \A q \in (p + 1)..(LastOf(f, p) - 1) : f[q].role \in EventKinds \ {"event", "trailer"}
<1>1. p + 3 <= end /\ LastOf(f, p) <= end
  BY DEF IsEvent
<1>2. f[p + 2] \in Cells
  <2>1. p + 2 \in 1..Len(f)
    BY <1>1
  <2> QED BY <2>1
<1>3. f[p + 2].hits \subseteq Channels
  BY <1>2 DEF Cells
<1>4. EventSize(f[p + 2].hits) \in Nat /\ EventSize(f[p + 2].hits) >= 4
  BY <1>3, EventSizes
<1>5. LastOf(f, p) \in (p + 3)..end
  BY <1>1, <1>4 DEF LastOf
<1> QED BY <1>5 DEF IsEvent

\* Every cell of a frame belongs to an event or to the filling behind them.
LEMMA CellOfFrame ==
  ASSUME NEW f \in Seq(Cells), NEW s \in Nat, s + FrameSize <= Len(f), IsFrame(f, s),
         NEW q \in (s + 1)..(s + FrameSize)
  PROVE  \/ \A r \in q..(s + FrameSize) : f[r].role = "fill"
         \/ \E p \in (s + 1)..q :
              /\ IsEvent(f, p, s + FrameSize) /\ LastOf(f, p) \in (p + 3)..(s + FrameSize)
              /\ q <= LastOf(f, p)
              /\ q = p \/ q = LastOf(f, p) \/ q \in (p + 1)..(LastOf(f, p) - 1)
<1>1. SUFFICES ASSUME ~(\A r \in q..(s + FrameSize) : f[r].role = "fill")
               PROVE  \E p \in (s + 1)..q :
                        /\ IsEvent(f, p, s + FrameSize)
                        /\ LastOf(f, p) \in (p + 3)..(s + FrameSize)
                        /\ q <= LastOf(f, p)
                        /\ q = p \/ q = LastOf(f, p) \/ q \in (p + 1)..(LastOf(f, p) - 1)
  OBVIOUS
<1>2. PICK p \in (s + 1)..q : IsEvent(f, p, s + FrameSize) /\ q <= LastOf(f, p)
  BY <1>1 DEF IsFrame
<1>3. p \in Nat \ {0} /\ s + FrameSize \in 0..Len(f)
  BY Sizes
<1>4. LastOf(f, p) \in (p + 3)..(s + FrameSize)
  BY <1>2, <1>3, EventBounds
<1>5. q = p \/ q = LastOf(f, p) \/ q \in (p + 1)..(LastOf(f, p) - 1)
  BY <1>2, <1>4, Sizes
<1> QED BY <1>2, <1>4, <1>5

LEMMA KindsOfFrame ==
  ASSUME NEW f \in Seq(Cells), NEW s \in Nat, s + FrameSize <= Len(f), IsFrame(f, s),
         NEW q \in (s + 1)..(s + FrameSize)
  PROVE  f[q].role \in EventKinds \union {"fill"}
<1>1. CASE \A r \in q..(s + FrameSize) : f[r].role = "fill"
  <2>1. q \in q..(s + FrameSize)
    BY Sizes
  <2> QED BY <1>1, <2>1
<1>2. ASSUME NEW p \in (s + 1)..q, IsEvent(f, p, s + FrameSize),
             q = p \/ q = LastOf(f, p) \/ q \in (p + 1)..(LastOf(f, p) - 1)
      PROVE  f[q].role \in EventKinds
  BY <1>2 DEF IsEvent, EventKinds
<1> QED BY <1>1, <1>2, CellOfFrame

\* Where an event begins, there is an event.
LEMMA EventOfFrame ==
  ASSUME NEW f \in Seq(Cells), NEW s \in Nat, s + FrameSize <= Len(f), IsFrame(f, s),
         NEW q \in (s + 1)..(s + FrameSize), f[q].role = "event"
  PROVE  IsEvent(f, q, s + FrameSize)
<1>1. ~(\A r \in q..(s + FrameSize) : f[r].role = "fill")
  <2>1. q \in q..(s + FrameSize)
    BY Sizes
  <2> QED BY <2>1
<1>2. PICK p \in (s + 1)..q :
        /\ IsEvent(f, p, s + FrameSize)
        /\ q = p \/ q = LastOf(f, p) \/ q \in (p + 1)..(LastOf(f, p) - 1)
  BY <1>1, CellOfFrame
<1>3. q = p
  BY <1>2 DEF IsEvent
<1> QED BY <1>2, <1>3

\* Where a frame begins, and behind each event, there is an event, or filling
\* that does not look like one.
LEMMA NextOfFrame ==
  ASSUME NEW f \in Seq(Cells), NEW s \in Nat, s + FrameSize <= Len(f), IsFrame(f, s),
         NEW q \in s..(s + FrameSize - 1), q = s \/ f[q].role = "trailer"
  PROVE  \/ f[q + 1].role = "event"
         \/ f[q + 1].kind # "event" /\ \A r \in (q + 1)..(s + FrameSize) : f[r].role = "fill"
<1>1. q + 1 \in (s + 1)..(s + FrameSize)
  BY Sizes
<1>2. \/ \E p \in (s + 1)..(q + 1) : IsEvent(f, p, s + FrameSize) /\ q + 1 <= LastOf(f, p)
      \/ /\ \A r \in (q + 1)..(s + FrameSize) : f[r].role = "fill"
         /\ f[q + 1].kind = "event" => q + 1 > s + 1 /\ f[(q + 1) - 1].role = "fill"
  BY <1>1 DEF IsFrame
<1>3. ASSUME NEW p \in (s + 1)..(q + 1), IsEvent(f, p, s + FrameSize), q + 1 <= LastOf(f, p)
      PROVE  f[q + 1].role = "event"
  <2>1. SUFFICES ASSUME p # q + 1 PROVE FALSE
    BY <1>3 DEF IsEvent
  <2>2. p \in Nat \ {0} /\ s + FrameSize \in 0..Len(f)
    BY Sizes
  <2>3. LastOf(f, p) \in (p + 3)..(s + FrameSize)
    BY <1>3, <2>2, EventBounds
  <2>4. q # s /\ (q = p \/ q \in (p + 1)..(LastOf(f, p) - 1))
    BY <1>3, <2>1, <2>3, Sizes
  <2>5. f[q].role # "trailer"
    BY <1>3, <2>4 DEF IsEvent
  <2> QED BY <2>4, <2>5
<1>4. f[(q + 1) - 1] = f[q] /\ (q + 1 > s + 1 => q # s)
  BY Sizes
<1> QED BY <1>2, <1>3, <1>4

LEMMA CellOfDataRecord ==
  ASSUME NEW f \in Seq(Cells), NEW p \in Nat \ {0}, IsDataRecord(f, p),
         NEW q \in p..(p + FrameSize + 2)
  PROVE  /\ p + FrameSize + 2 <= Len(f) /\ f[q].record = f[p].record /\ f[q].index = q - p + 1
         /\ \/ q = p /\ f[q].role = "data"
            \/ q \in (p + 1)..(p + FrameSize) /\ f[q].role \in EventKinds \union {"fill"}
            \/ q = p + FrameSize + 1 /\ f[q].role = "time"
            \/ q = p + FrameSize + 2 /\ f[q].role = "foot"
<1>1. p + (FrameSize + 3) - 1 = p + FrameSize + 2
  BY Sizes
<1>2. p + FrameSize + 2 <= Len(f) /\ f[q].record = f[p].record /\ f[q].index = q - p + 1
  BY <1>1 DEF IsDataRecord, IsRecord
<1>3. \/ q = p \/ q \in (p + 1)..(p + FrameSize)
      \/ q = p + FrameSize + 1 \/ q = p + FrameSize + 2
  BY Sizes
<1>4. CASE q \in (p + 1)..(p + FrameSize)
  <2>1. p \in Nat /\ p + FrameSize <= Len(f) /\ IsFrame(f, p)
    BY <1>2, Sizes DEF IsDataRecord
  <2>2. f[q].role \in EventKinds \union {"fill"}
    BY <1>4, <2>1, KindsOfFrame
  <2> QED BY <1>2, <1>4, <2>2
<1>5. CASE q = p \/ q = p + FrameSize + 1 \/ q = p + FrameSize + 2
  BY <1>2, <1>5 DEF IsDataRecord
<1> QED BY <1>3, <1>4, <1>5

LEMMA CellOfHkRecord ==
  ASSUME NEW f \in Seq(Cells), NEW p \in Nat \ {0}, IsHkRecord(f, p), NEW q \in p..(p + HkSize)
  PROVE  /\ p + HkSize <= Len(f) /\ f[q].record = f[p].record /\ f[q].index = q - p + 1
         /\ (q = p /\ f[q].role = "hk") \/ (q # p /\ f[q].role = "hkword")
<1>1. p + (HkSize + 1) - 1 = p + HkSize
  BY Sizes
<1>2. p + HkSize <= Len(f) /\ f[q].record = f[p].record /\ f[q].index = q - p + 1
  BY <1>1 DEF IsHkRecord, IsRecord
<1>3. q = p \/ q \in (p + 1)..(p + HkSize)
  BY Sizes
<1> QED BY <1>2, <1>3 DEF IsHkRecord

LEMMA CellsOfHkRecord ==
  ASSUME NEW f \in Seq(Cells), NEW p \in Nat \ {0}, IsHkRecord(f, p)
  PROVE  \A q \in p..(p + HkSize) :
           /\ f[q].index = q - p + 1
           /\ (q = p /\ f[q].role = "hk") \/ (q # p /\ f[q].role = "hkword")
BY CellOfHkRecord

LEMMA KindsOfHkRecord ==
  ASSUME NEW f \in Seq(Cells), NEW p \in Nat \ {0}, IsHkRecord(f, p)
  PROVE  \A q \in p..(p + HkSize) : f[q].role \in {"hk", "hkword"}
BY CellOfHkRecord

\* What the role of a cell of the old format tells.
LEMMA OldCell ==
  ASSUME NEW f \in Seq(Cells), IsOldFile(f), NEW q \in 1..Len(f)
  PROVE  /\ f[q].role = "data" => IsDataRecord(f, q)
         /\ f[q].role = "hk" => IsHkRecord(f, q)
         /\ f[q].role = "foot" => q - FrameSize - 2 \in 1..q /\ IsDataRecord(f, q - FrameSize - 2)
         /\ f[q].role \in {"data", "hk"} <=> f[q].index = 1
<1> DEFINE data(p) == IsDataRecord(f, p) /\ q <= p + FrameSize + 2
           hk(p)   == IsHkRecord(f, p) /\ q <= p + HkSize
<1>1. PICK p \in 1..q : data(p) \/ hk(p)
  <2>1. \A r \in DOMAIN f : \E p \in 1..r :
          \/ IsDataRecord(f, p) /\ r <= p + FrameSize + 2
          \/ IsHkRecord(f, p) /\ r <= p + HkSize
    BY DEF IsOldFile
  <2>2. q \in DOMAIN f
    OBVIOUS
  <2> QED BY <2>1, <2>2
<1>2. p \in Nat \ {0}
  OBVIOUS
<1>3. CASE data(p)
  <2>1. IsDataRecord(f, p) /\ q \in p..(p + FrameSize + 2)
    BY <1>3, Sizes
  <2>2. /\ f[q].index = q - p + 1
        /\ \/ q = p /\ f[q].role = "data"
           \/ q \in (p + 1)..(p + FrameSize) /\ f[q].role \in EventKinds \union {"fill"}
           \/ q = p + FrameSize + 1 /\ f[q].role = "time"
           \/ q = p + FrameSize + 2 /\ f[q].role = "foot"
    BY <1>2, <2>1, CellOfDataRecord
  <2>3. f[q].role \in EventKinds \union {"fill"} =>
          f[q].role \notin {"data", "hk", "foot"}
    BY DEF EventKinds
  <2>4. CASE q = p /\ f[q].role = "data"
    BY <2>1, <2>2, <2>4
  <2>5. CASE q \in (p + 1)..(p + FrameSize) /\ f[q].role \in EventKinds \union {"fill"}
    BY <2>2, <2>3, <2>5, Sizes
  <2>6. CASE q = p + FrameSize + 1 /\ f[q].role = "time"
    BY <2>2, <2>6, Sizes
  <2>7. CASE q = p + FrameSize + 2 /\ f[q].role = "foot"
    <3>1. q - FrameSize - 2 = p /\ q # p
      BY <2>7, Sizes
    <3> QED BY <2>1, <2>2, <2>7, <3>1, Sizes
  <2> QED BY <2>2, <2>4, <2>5, <2>6, <2>7
<1>4. CASE hk(p)
  <2>1. IsHkRecord(f, p) /\ q \in p..(p + HkSize)
    BY <1>4, Sizes
  <2>2. \A r \in p..(p + HkSize) :
          /\ f[r].index = r - p + 1
          /\ (r = p /\ f[r].role = "hk") \/ (r # p /\ f[r].role = "hkword")
    <3>1. IsHkRecord(f, p) /\ f \in Seq(Cells) /\ p \in Nat \ {0}
      BY <1>2, <2>1
    <3> QED BY <3>1, CellsOfHkRecord
  <2>3. /\ f[q].index = q - p + 1
        /\ (q = p /\ f[q].role = "hk") \/ (q # p /\ f[q].role = "hkword")
    BY <2>1, <2>2
  <2>4. CASE q = p
    BY <2>1, <2>3, <2>4
  <2>5. CASE q # p
    <3>1. f[q].index # 1
      BY <2>3, <2>5
    <3> QED BY <2>3, <2>5, <3>1
  <2> QED BY <2>4, <2>5
<1> QED BY <1>1, <1>3, <1>4


\* In the new format a first cell begins a frame, and a frame is followed by
\* another first cell.
LEMMA NewCell ==
  ASSUME NEW f \in Seq(Cells), IsNewFile(f), NEW q \in 1..Len(f)
  PROVE  /\ f[q].role \in EventKinds \union {"fill"} /\ f[q].index \in 1..FrameSize
         /\ f[q].index = 1 =>
              /\ q + FrameSize - 1 <= Len(f) /\ IsFrame(f, q - 1)
              /\ \A r \in q..(q + FrameSize - 1) :
                   f[r].record = f[q].record /\ f[r].index = r - q + 1
<1>1. PICK p \in 1..q : IsNewRecord(f, p) /\ q <= p + FrameSize - 1
  <2>1. q \in DOMAIN f
    OBVIOUS
  <2> QED BY <2>1 DEF IsNewFile
<1>2. /\ p + FrameSize - 1 <= Len(f) /\ IsFrame(f, p - 1)
      /\ \A r \in p..(p + FrameSize - 1) : f[r].record = f[p].record /\ f[r].index = r - p + 1
  BY <1>1 DEF IsNewRecord, IsRecord
<1>3. /\ q \in p..(p + FrameSize - 1) /\ p - 1 \in Nat /\ (p - 1) + FrameSize <= Len(f)
      /\ q \in ((p - 1) + 1)..((p - 1) + FrameSize)
  BY <1>1, <1>2, Sizes
<1>4. f[q].role \in EventKinds \union {"fill"}
  BY <1>2, <1>3, KindsOfFrame
<1>5. f[q].index = q - p + 1 /\ q - p + 1 \in 1..FrameSize
  BY <1>2, <1>3, Sizes
<1>6. f[q].index = 1 => p = q
  BY <1>5
<1> QED BY <1>2, <1>4, <1>5, <1>6

LEMMA FirstOfNewFrame ==
  ASSUME NEW f \in Seq(Cells), IsNewFile(f), NEW q \in 1..Len(f), f[q].index = 1,
         q + FrameSize <= Len(f)
  PROVE  f[q + FrameSize].index = 1
<1> DEFINE r == q + FrameSize
<1>1. r \in 1..Len(f)
  BY Sizes
<1> HIDE DEF r
<1>2. PICK p \in 1..r : IsNewRecord(f, p) /\ r <= p + FrameSize - 1
  <2>1. r \in DOMAIN f
    BY <1>1
  <2> QED BY <2>1 DEF IsNewFile
<1>3. \A t \in p..(p + FrameSize - 1) : f[t].index = t - p + 1
  BY <1>2 DEF IsNewRecord, IsRecord
<1>4. f[r].index = r - p + 1 /\ f[p].index = 1
  <2>1. r \in p..(p + FrameSize - 1) /\ p \in p..(p + FrameSize - 1) /\ p - p + 1 = 1
    BY <1>1, <1>2, Sizes
  <2>2. f[p].index = p - p + 1
    BY <1>3, <2>1
  <2> QED BY <1>3, <2>1, <2>2
<1>5. \A t \in q..(q + FrameSize - 1) : f[t].index = t - q + 1
  BY NewCell
<1>6. p = r
  <2>1. SUFFICES ASSUME p < r PROVE FALSE
    BY <1>1, <1>2
  <2>2. r = q + FrameSize /\ p \in q..(q + FrameSize - 1)
    BY <1>2, <2>1, Sizes DEF r
  <2>3. p = q
    BY <1>4, <1>5, <2>2
  <2> QED BY <1>2, <2>2, <2>3, Sizes
<1> QED BY <1>4, <1>6 DEF r

-----------------------------------------------------------------------------
(* What is left of them: file is f without the lost cells behind n, or with  *)
(* the cell x overwritten.                                                   *)

\* What is read is what is left of a file that was written.
Source == \E f \in WholeFiles : file \in Damaged(f)

Origin(p, n, lost) == IF p <= n THEN p ELSE p + lost

Remains(f, n, lost, x) ==
  /\ f \in Seq(Cells) /\ file \in Seq(Cells) /\ n \in Nat /\ lost \in 0..(FrameSize + 2)
  /\ IsOldFile(f) \/ (IsNewFile(f) /\ lost = 0)
  /\ lost # 0 => x = 0
  /\ Len(file) + lost <= Len(f)
  /\ \A p, q \in 1..Len(f) : f[p].record = f[q].record => f[q].index - f[p].index = q - p
  /\ \A p \in 1..Len(f) : Written(f[p]) /\ (f[p].role \in Marks => f[p].kind = f[p].role)
  /\ \A p \in 1..Len(file) : p # x => file[p] = f[Origin(p, n, lost)]
  /\ x \in 1..Len(file) =>
       /\ file[x].record = f[x].record /\ file[x].index = f[x].index
       /\ file[x].role = f[x].role /\ ~Written(file[x])

\* The cells from first to last were written next to each other, d further on.
Shifted(first, last, n, lost, d) == \A q \in first..last : Origin(q, n, lost) = q + d

LEMMA OneDamage ==
  ASSUME Source
  PROVE  \E f, n, lost, x : Remains(f, n, lost, x)
<1>1. PICK f \in WholeFiles : file \in Damaged(f)
  BY DEF Source
<1>2. file \in Seq(Cells)
  BY <1>1, RawDataAssumption
<1>3. /\ IsWhole(f)
      /\ IsCutShort(f, file) \/ (IsOldFile(f) /\ HasLost(f, file)) \/ IsOverwritten(f, file)
  BY <1>1, DamageAssumption
<1>4. /\ f \in Seq(Cells) /\ (IsOldFile(f) \/ IsNewFile(f))
      /\ \A p, q \in 1..Len(f) : f[p].record = f[q].record => f[q].index - f[p].index = q - p
      /\ \A p \in 1..Len(f) : Written(f[p]) /\ (f[p].role \in Marks => f[p].kind = f[p].role)
  BY <1>3 DEF IsWhole
<1>5. Len(f) \in Nat /\ Len(file) \in Nat /\ DOMAIN file = 1..Len(file) /\ DOMAIN f = 1..Len(f)
  BY <1>2, <1>4
<1>6. CASE IsCutShort(f, file)
  <2>1. Len(file) + 0 <= Len(f) /\ \A p \in 1..Len(file) : file[p] = f[Origin(p, 0, 0)]
    <3>1. \A p \in 1..Len(file) : Origin(p, 0, 0) = p
      BY DEF Origin
    <3> QED BY <1>5, <1>6, <3>1 DEF IsCutShort
  <2>2. Remains(f, 0, 0, 0)
    BY <1>2, <1>4, <2>1, Sizes DEF Remains
  <2> QED BY <2>2
<1>7. CASE IsOldFile(f) /\ HasLost(f, file)
  <2> DEFINE gone == Len(f) - Len(file)
             kept(n) == \A p \in DOMAIN file : file[p] = f[IF p <= n THEN p ELSE p + gone]
  <2>1. gone \in 1..(FrameSize + 2) /\ \E n \in 0..Len(file) : kept(n)
    BY <1>7 DEF HasLost
  <2>2. PICK n \in 0..Len(file) : kept(n)
    BY <2>1
  <2>3. gone \in 0..(FrameSize + 2) /\ Len(file) + gone <= Len(f) /\ n \in Nat
    BY <1>5, <2>1
  <2> HIDE DEF gone
  <2>4. Remains(f, n, gone, 0)
    BY <1>2, <1>4, <1>5, <1>7, <2>2, <2>3 DEF Remains, Origin
  <2> QED BY <2>4
<1>8. CASE IsOverwritten(f, file)
  <2>1. PICK x \in DOMAIN f :
          /\ \A p \in DOMAIN f \ {x} : file[p] = f[p]
          /\ file[x].record = f[x].record /\ file[x].index = f[x].index
          /\ file[x].role = f[x].role /\ ~Written(file[x])
    BY <1>8 DEF IsOverwritten, Written
  <2>2. Len(file) + 0 <= Len(f) /\ \A p \in 1..Len(file) : p # x => file[p] = f[Origin(p, 0, 0)]
    <3>1. \A p \in 1..Len(file) : Origin(p, 0, 0) = p
      BY DEF Origin
    <3> QED BY <1>5, <1>8, <2>1, <3>1 DEF IsOverwritten
  <2>3. Remains(f, 0, 0, x)
    BY <1>2, <1>4, <2>1, <2>2, Sizes DEF Remains
  <2> QED BY <2>3
<1> QED BY <1>3, <1>6, <1>7, <1>8


LEMMA CellLeft ==
  ASSUME NEW f, NEW n, NEW lost, NEW x, Remains(f, n, lost, x), NEW p \in 1..Len(file)
  PROVE  LET o == Origin(p, n, lost) IN
         /\ o \in 1..Len(f) /\ file[p].record = f[o].record /\ file[p].index = f[o].index
         /\ KindWritten(p) = f[o].role
         /\ p # x => Written(file[p]) /\ file[p] = f[o]
         /\ p = x => ~Written(file[p]) /\ o = p
         /\ Written(file[p]) /\ KindWritten(p) \in Marks => file[p].kind = KindWritten(p)
<1> DEFINE o == Origin(p, n, lost)
<1>1. /\ f \in Seq(Cells) /\ file \in Seq(Cells) /\ n \in Nat /\ lost \in 0..(FrameSize + 2)
      /\ lost # 0 => x = 0
      /\ Len(file) + lost <= Len(f)
      /\ \A q \in 1..Len(f) : Written(f[q]) /\ (f[q].role \in Marks => f[q].kind = f[q].role)
      /\ p # x => file[p] = f[o]
      /\ x \in 1..Len(file) =>
           /\ file[x].record = f[x].record /\ file[x].index = f[x].index
           /\ file[x].role = f[x].role /\ ~Written(file[x])
  BY DEF Remains
<1>2. Len(f) \in Nat /\ Len(file) \in Nat
  BY <1>1
<1>3. o \in 1..Len(f)
  BY <1>1, <1>2, Sizes DEF Origin
<1>4. CASE p # x
  <2>1. file[p] = f[o] /\ Written(file[p])
    BY <1>1, <1>3, <1>4
  <2> QED BY <1>1, <1>3, <1>4, <2>1 DEF KindWritten
<1>5. CASE p = x
  <2>1. lost = 0 /\ o = p
    BY <1>1, <1>5 DEF Origin
  <2>2. /\ file[p].record = f[p].record /\ file[p].index = f[p].index
        /\ file[p].role = f[p].role /\ ~Written(file[p])
    BY <1>1, <1>5
  <2> QED BY <1>3, <1>5, <2>1, <2>2 DEF KindWritten
<1> QED BY <1>4, <1>5

LEMMA UnbrokenWithin ==
  ASSUME NEW first \in Int, NEW last \in Int, Unbroken(first, last),
         NEW from \in Int, NEW to \in Int, first <= from, to <= last
  PROVE  Unbroken(from, to)
<1>1. \A q \in from..(to - 1) : q \in first..(last - 1)
  OBVIOUS
<1> QED BY <1>1 DEF Unbroken

\* Unbroken cells were next to each other when they were written.
LEMMA ShiftOfUnbroken ==
  ASSUME NEW f, NEW n, NEW lost, NEW x, Remains(f, n, lost, x),
         NEW first \in 1..Len(file), NEW last \in first..Len(file), Unbroken(first, last)
  PROVE  \E d \in 0..lost : Shifted(first, last, n, lost, d)
<1>1. /\ n \in Nat /\ lost \in Nat /\ Len(file) \in Nat
      /\ \A p, q \in 1..Len(f) : f[p].record = f[q].record => f[q].index - f[p].index = q - p
  BY Sizes DEF Remains
<1>2. CASE n < first
  <2>1. Shifted(first, last, n, lost, lost)
    BY <1>1, <1>2 DEF Origin, Shifted
  <2> QED BY <1>1, <2>1
<1>3. CASE last <= n
  <2>1. Shifted(first, last, n, lost, 0)
    BY <1>1, <1>3 DEF Origin, Shifted
  <2> QED BY <1>1, <2>1
<1>4. CASE first <= n /\ n < last
  <2> DEFINE next == n + 1
             m    == n + 1 + lost
  <2>1. n \in 1..Len(file) /\ next \in 1..Len(file) /\ n \in first..(last - 1)
    BY <1>1, <1>4
  <2>2. Origin(n, n, lost) = n /\ Origin(next, n, lost) = m
    BY <1>1 DEF Origin
  <2>3. file[next].record = file[n].record /\ file[next].index = file[n].index + 1
    BY <2>1 DEF Unbroken
  <2> HIDE DEF next, m
  <2>4. n \in 1..Len(f) /\ file[n].record = f[n].record /\ file[n].index = f[n].index
    BY <2>1, <2>2, CellLeft
  <2>5. m \in 1..Len(f) /\ file[next].record = f[m].record /\ file[next].index = f[m].index
    BY <2>1, <2>2, CellLeft
  <2>6. f[m].index - f[n].index = m - n
    BY <1>1, <2>3, <2>4, <2>5
  <2>7. f[n].index \in Int
    <3>1. f[n] \in Cells
      BY <2>4 DEF Remains
    <3> QED BY <3>1 DEF Cells
  <2>8. lost = 0
    BY <1>1, <2>3, <2>4, <2>5, <2>6, <2>7 DEF m
  <2>9. Shifted(first, last, n, lost, 0)
    BY <2>8 DEF Origin, Shifted
  <2> QED BY <1>1, <2>9
<1> QED BY <1>1, <1>2, <1>3, <1>4

LEMMA AtMostOneAltered ==
  ASSUME Source, NEW p \in 1..Len(file), NEW q \in 1..Len(file),
         ~Written(file[p]), ~Written(file[q])
  PROVE  p = q
<1>1. PICK f, n, lost, x : Remains(f, n, lost, x)
  BY OneDamage
<1>2. p = x
  BY <1>1, CellLeft
<1>3. q = x
  BY <1>1, CellLeft
<1> QED BY <1>2, <1>3


\* Headers and footers that are unaltered look like what they are.
LEMMA WrittenMark ==
  ASSUME Source, NEW p \in 1..Len(file), Written(file[p]), KindWritten(p) \in Marks
  PROVE  file[p].kind = KindWritten(p)
<1>1. PICK f, n, lost, x : Remains(f, n, lost, x)
  BY OneDamage
<1> QED BY <1>1, CellLeft

\* A record begins at start and reaches to last.
Recorded(f, start, last) ==
  \A q \in start..last : f[q].record = f[start].record /\ f[q].index = q - start + 1

\* The cells of one record from its first one on, next to each other, are
\* unbroken.
LEMMA RecordUnbroken ==
  ASSUME NEW f, NEW n, NEW lost, NEW x, Remains(f, n, lost, x),
         NEW p \in 1..Len(file), NEW last \in p..Len(file), NEW d \in Nat,
         Shifted(p, last, n, lost, d), Recorded(f, p + d, last + d)
  PROVE  Unbroken(p, last) /\ \A q \in p..last : file[q].index = q - p + 1
<1>1. \A q \in p..last :
        q + d \in (p + d)..(last + d) /\ file[q].record = f[q + d].record
        /\ file[q].index = f[q + d].index
  <2>1. TAKE q \in p..last
  <2>2. q \in 1..Len(file) /\ Origin(q, n, lost) = q + d /\ q + d \in (p + d)..(last + d)
    BY DEF Shifted
  <2> QED BY <2>2, CellLeft
<1>2. \A q \in p..last : file[q].record = f[p + d].record /\ file[q].index = q + d - (p + d) + 1
  BY <1>1 DEF Recorded
<1>3. \A q \in p..(last - 1) : q \in p..last /\ q + 1 \in p..last
  OBVIOUS
<1>4. \A q \in p..(last - 1) : q + 1 + d - (p + d) + 1 = (q + d - (p + d) + 1) + 1
  OBVIOUS
<1>5. Unbroken(p, last)
  BY <1>2, <1>3, <1>4 DEF Unbroken
<1>6. \A q \in p..last : q + d - (p + d) + 1 = q - p + 1
  OBVIOUS
<1> QED BY <1>2, <1>5, <1>6

\* What lies between a header and a footer at the distance of a record is one:
\* whatever was lost, two ends of records are never taken for one record,
\* unless the reader takes something else for a header or a footer.
LEMMA MarksOfOneRecord ==
  ASSUME NEW f, NEW n, NEW lost, NEW x, Remains(f, n, lost, x),
         NEW p \in 1..(Len(file) - FrameSize - 2),
         file[p].kind = "data", file[p + FrameSize + 2].kind = "foot",
         ~LookAlike(p), ~LookAlike(p + FrameSize + 2)
  PROVE  \E d \in Nat :
           /\ IsDataRecord(f, p + d)
           /\ \A q \in p..(p + FrameSize + 2) : Origin(q, n, lost) = q + d
<1> DEFINE foot == p + FrameSize + 2
<1>1. /\ n \in Nat /\ lost \in Nat /\ lost <= FrameSize + 2 /\ Len(file) \in Nat
      /\ f \in Seq(Cells) /\ (IsOldFile(f) \/ (IsNewFile(f) /\ lost = 0)) /\ (lost # 0 => x = 0)
  BY Sizes DEF Remains
<1>2. p \in 1..Len(file) /\ foot \in 1..Len(file) /\ p # foot /\ foot = p + FrameSize + 2
  BY <1>1, Sizes
<1>3. /\ Origin(p, n, lost) \in 1..Len(f) /\ (p # x => f[Origin(p, n, lost)].role = "data")
      /\ p = x => Origin(p, n, lost) = p
  BY <1>2, CellLeft DEF LookAlike, KindWritten
<1>4. /\ Origin(foot, n, lost) \in 1..Len(f) /\ (foot # x => f[Origin(foot, n, lost)].role = "foot")
      /\ foot = x => Origin(foot, n, lost) = foot
  BY <1>2, CellLeft DEF LookAlike, KindWritten
<1>5. IsOldFile(f)
  <2>1. SUFFICES ASSUME IsNewFile(f) PROVE FALSE
    BY <1>1
  <2>2. \A q \in 1..Len(f) : f[q].role \in EventKinds \union {"fill"}
    BY <1>1, <2>1, NewCell
  <2>3. \A q \in 1..Len(f) : f[q].role # "data" /\ f[q].role # "foot"
    BY <2>2 DEF EventKinds
  <2> QED BY <1>2, <1>3, <1>4, <2>3
<1>6. p # x => IsDataRecord(f, Origin(p, n, lost))
  BY <1>1, <1>3, <1>5, OldCell
<1>7. foot # x => /\ Origin(foot, n, lost) - FrameSize - 2 \in Nat \ {0}
                  /\ IsDataRecord(f, Origin(foot, n, lost) - FrameSize - 2)
  BY <1>1, <1>4, <1>5, OldCell
<1> HIDE DEF foot
<1>8. CASE lost = 0 \/ n < p \/ foot <= n
  <2> DEFINE d == IF n < p THEN lost ELSE 0
  <2>1. d \in Nat /\ \A q \in p..foot : Origin(q, n, lost) = q + d
    BY <1>1, <1>2, <1>8 DEF Origin
  <2> HIDE DEF d
  <2>2. Origin(p, n, lost) = p + d /\ Origin(foot, n, lost) = foot + d
    BY <1>1, <1>2, <2>1, Sizes
  <2> DEFINE start == p + d
  <2>3. Origin(p, n, lost) = start /\ Origin(foot, n, lost) - FrameSize - 2 = start
    BY <1>2, <2>1, <2>2, Sizes
  <2> HIDE DEF start
  <2>4. IsDataRecord(f, start)
    <3>1. CASE p # x
      BY <1>6, <2>3, <3>1
    <3>2. CASE foot # x
      BY <1>7, <2>3, <3>2
    <3> QED BY <1>2, <3>1, <3>2
  <2> QED BY <1>2, <2>1, <2>4 DEF start
<1>9. CASE lost # 0 /\ p <= n /\ n < foot
  <2>1. Origin(p, n, lost) = p /\ Origin(foot, n, lost) = foot + lost /\ x = 0
    BY <1>1, <1>2, <1>9 DEF Origin
  <2> DEFINE q == p + lost
  <2>2. /\ Origin(foot, n, lost) - FrameSize - 2 = q
        /\ q \in p..(p + FrameSize + 2) /\ q # p
    BY <1>1, <1>2, <1>9, <2>1, Sizes
  <2> HIDE DEF q
  <2>3. IsDataRecord(f, p) /\ IsDataRecord(f, q)
    <3>1. p # x /\ foot # x
      BY <1>2, <2>1
    <3>2. IsDataRecord(f, p)
      BY <1>6, <2>1, <3>1
    <3>3. IsDataRecord(f, q)
      BY <1>7, <2>2, <3>1
    <3> QED BY <3>2, <3>3
  <2>4. f[q].role = "data"
    BY <2>3 DEF IsDataRecord
  <2>5. f[q].role # "data"
    <3>1. \/ q = p /\ f[q].role = "data"
          \/ q \in (p + 1)..(p + FrameSize) /\ f[q].role \in EventKinds \union {"fill"}
          \/ q = p + FrameSize + 1 /\ f[q].role = "time"
          \/ q = p + FrameSize + 2 /\ f[q].role = "foot"
      BY <1>1, <1>2, <2>2, <2>3, CellOfDataRecord
    <3> QED BY <2>2, <3>1 DEF EventKinds
  <2> QED BY <2>4, <2>5
<1> QED BY <1>1, <1>2, <1>8, <1>9, Sizes DEF foot


LEMMA FrameOfRecord ==
  ASSUME Source, NEW p \in 1..(Len(file) - FrameSize - 2),
         file[p].kind = "data", file[p + FrameSize + 2].kind = "foot",
         ~LookAlike(p), ~LookAlike(p + FrameSize + 2)
  PROVE  /\ Unbroken(p, p + FrameSize + 2) /\ AsWritten(p)
         /\ \A q \in p..(p + FrameSize + 2) : file[q].index = q - p + 1
<1>1. PICK f, n, lost, x : Remains(f, n, lost, x)
  BY OneDamage
<1> DEFINE foot == p + FrameSize + 2
<1>2. p \in 1..Len(file) /\ p + 1 \in p..foot /\ foot \in p..Len(file)
  <2>1. Len(file) \in Nat
    BY <1>1 DEF Remains
  <2> QED BY <2>1, Sizes
<1>3. PICK d \in Nat :
        /\ IsDataRecord(f, p + d)
        /\ \A q \in p..foot : Origin(q, n, lost) = q + d
  BY <1>1, MarksOfOneRecord
<1> DEFINE start == p + d
<1>4. /\ f \in Seq(Cells) /\ start \in Nat \ {0} /\ IsDataRecord(f, start)
      /\ foot + d = start + FrameSize + 2 /\ p + 1 + d = start + 1
  BY <1>1, <1>3, Sizes DEF Remains
<1> HIDE DEF start
<1>5. \A q \in start..(foot + d) : f[q].record = f[start].record /\ f[q].index = q - start + 1
  BY <1>4, CellOfDataRecord
<1>6. Recorded(f, p + d, foot + d)
  BY <1>5 DEF start, Recorded
<1> HIDE DEF foot
<1>7. Unbroken(p, foot) /\ \A q \in p..foot : file[q].index = q - p + 1
  <2>1. Shifted(p, foot, n, lost, d)
    BY <1>3 DEF Shifted
  <2>2. p \in 1..Len(file) /\ foot \in p..Len(file) /\ d \in Nat
    BY <1>2
  <2> QED BY <1>1, <1>6, <2>1, <2>2, RecordUnbroken
<1>8. AsWritten(p)
  <2>1. file[p + 1].index = 2
    <3>1. file[p + 1].index = p + 1 - p + 1
      BY <1>2, <1>7
    <3>2. p + 1 - p + 1 = 2
      BY <1>2
    <3> QED BY <3>1, <3>2
  <2>2. Unbroken(p + 1, p + FrameSize)
    <3>1. /\ p \in Int /\ foot \in Int /\ p + 1 \in Int /\ p + FrameSize \in Int
          /\ p <= p + 1 /\ p + FrameSize <= foot
      BY Sizes DEF foot
    <3> QED BY <1>7, <3>1, UnbrokenWithin
  <2>3. KindWritten(p + 1) \notin {"data", "hk", "hkword"}
    <3>1. start + 1 \in start..(start + FrameSize + 2) /\ start + 1 # start
      BY <1>4, Sizes
    <3>2. f[start + 1].role \notin {"data", "hk", "hkword"}
      <4>1. \/ f[start + 1].role \in EventKinds \union {"fill"}
            \/ f[start + 1].role = "time"
            \/ f[start + 1].role = "foot"
        BY <1>4, <3>1, CellOfDataRecord
      <4> QED BY <4>1 DEF EventKinds
    <3>3. p + 1 \in 1..Len(file) /\ Origin(p + 1, n, lost) = start + 1
      BY <1>2, <1>3, <1>4, SMTT(30)
    <3>4. KindWritten(p + 1) = f[start + 1].role
      BY <1>1, <3>3, CellLeft
    <3> QED BY <3>2, <3>4
  <2> QED BY <2>1, <2>2, <2>3 DEF AsWritten
<1> QED BY <1>7, <1>8 DEF foot

\* An intact record has its footer, and its header has the first index.
LEMMA IntactRecord ==
  ASSUME Source, NEW p \in 1..Len(file), Intact(p)
  PROVE  /\ p + FrameSize + 2 <= Len(file) /\ file[p].kind = "data"
         /\ file[p + FrameSize + 2].kind = "foot" /\ file[p].index = 1
<1>1. PICK f, n, lost, x : Remains(f, n, lost, x)
  BY OneDamage
<1> DEFINE foot == p + FrameSize + 2
<1>2. /\ foot <= Len(file) /\ file[p].role = "data" /\ Unbroken(p, foot)
      /\ \A q \in p..foot : Written(file[q])
  BY DEF Intact, KindWritten
<1>3. p \in p..foot /\ foot \in p..foot /\ foot \in p..Len(file) /\ foot \in 1..Len(file)
  BY <1>2, Sizes
<1>4. PICK d \in 0..lost : Shifted(p, foot, n, lost, d)
  <2> HIDE DEF foot
  <2> QED BY <1>1, <1>2, <1>3, ShiftOfUnbroken
<1> DEFINE start == p + d
<1>5. /\ f \in Seq(Cells) /\ (IsOldFile(f) \/ IsNewFile(f)) /\ d \in Nat
      /\ start \in Nat \ {0} /\ foot + d = start + FrameSize + 2
  <2>1. lost \in 0..(FrameSize + 2)
    BY <1>1 DEF Remains
  <2> QED BY <1>1, <2>1, Sizes DEF Remains
<1>6. start \in 1..Len(f) /\ file[p] = f[start]
  <2>1. p # x
    BY <1>1, <1>2, <1>3, CellLeft
  <2>2. Origin(p, n, lost) = start
    BY <1>3, <1>4 DEF Shifted
  <2> HIDE DEF start
  <2> QED BY <1>1, <2>1, <2>2, CellLeft
<1>7. file[foot] = f[foot + d]
  <2>1. foot # x
    BY <1>1, <1>2, <1>3, CellLeft
  <2>2. Origin(foot, n, lost) = foot + d
    BY <1>3, <1>4 DEF Shifted
  <2> HIDE DEF foot
  <2> QED BY <1>1, <1>3, <2>1, <2>2, CellLeft
<1>8. IsOldFile(f)
  <2>1. SUFFICES ASSUME IsNewFile(f) PROVE FALSE
    BY <1>5
  <2> HIDE DEF start
  <2>2. f[start].role \in EventKinds \union {"fill"}
    BY <1>5, <1>6, <2>1, NewCell
  <2> QED BY <1>2, <1>6, <2>2 DEF EventKinds
<1>9. IsDataRecord(f, start) /\ f[start].index = 1
  <2> HIDE DEF start
  <2> QED BY <1>2, <1>5, <1>6, <1>8, OldCell
<1>10. f[foot + d].role = "foot"
  <2> HIDE DEF start, foot
  <2> QED BY <1>5, <1>9 DEF IsDataRecord
<1>11. file[p].kind = "data"
  <2> HIDE DEF foot
  <2> QED BY <1>1, <1>2, <1>3, CellLeft DEF KindWritten, Marks
<1>12. file[foot].kind = "foot"
  <2>1. KindWritten(foot) = "foot" /\ Written(file[foot])
    <3> HIDE DEF foot
    <3> QED BY <1>2, <1>3, <1>7, <1>10 DEF KindWritten
  <2> HIDE DEF foot
  <2> QED BY <1>1, <1>3, <2>1, CellLeft DEF Marks
<1> QED BY <1>2, <1>6, <1>9, <1>11, <1>12

-----------------------------------------------------------------------------
(* Frames as they were written.                                              *)

\* The cells of one record that begin like a frame are one.
LEMMA FrameInRecord ==
  ASSUME NEW f \in Seq(Cells), IsOldFile(f) \/ IsNewFile(f),
         NEW s \in Nat, s + FrameSize <= Len(f),
         f[s + 1].index \in {1, 2}, f[s + 1].role \notin {"data", "hk", "hkword"},
         \A q \in (s + 1)..(s + FrameSize - 1) :
           f[q + 1].record = f[q].record /\ f[q + 1].index = f[q].index + 1
  PROVE  IsFrame(f, s)
<1> DEFINE first == s + 1
           end   == s + FrameSize
<1>1. first \in 1..Len(f) /\ end \in first..Len(f) /\ first \in DOMAIN f /\ Len(f) \in Nat
  BY Sizes
<1>2. ASSUME NEW start \in Nat \ {0}, IsHkRecord(f, start),
             start <= first, first <= start + HkSize
      PROVE  FALSE
  <2>1. first \in start..(start + HkSize)
    BY <1>1, <1>2, Sizes
  <2> QED BY <1>2, <2>1, KindsOfHkRecord
<1>3. CASE IsOldFile(f)
  <2> DEFINE data(p) == IsDataRecord(f, p) /\ first <= p + FrameSize + 2
             hk(p)   == IsHkRecord(f, p) /\ first <= p + HkSize
  <2>1. PICK p \in 1..first : data(p) \/ hk(p)
    BY <1>1, <1>3 DEF IsOldFile
  <2>2. p \in Nat \ {0}
    BY <1>1, <2>1
  <2>3. CASE hk(p)
    BY <1>1, <1>2, <2>1, <2>2, <2>3
  <2>4. CASE data(p)
    <3>1. first \in p..(p + FrameSize + 2)
      BY <1>1, <2>1, <2>2, <2>4, Sizes
    <3>2. f[first].index = first - p + 1
      <4> HIDE DEF first
      <4> QED BY <2>2, <2>4, <3>1, CellOfDataRecord
    <3>3. p # first
      BY <2>4 DEF IsDataRecord
    <3>4. p = s
      BY <1>1, <2>2, <3>2, <3>3
    <3> QED BY <2>4, <3>4 DEF IsDataRecord
  <2> QED BY <2>1, <2>3, <2>4
<1>4. CASE IsNewFile(f)
  <2>1. PICK p \in 1..first : IsNewRecord(f, p) /\ first <= p + FrameSize - 1
    BY <1>1, <1>4 DEF IsNewFile
  <2>2. /\ IsFrame(f, p - 1) /\ p + FrameSize - 1 <= Len(f)
        /\ \A r \in p..(p + FrameSize - 1) : f[r].index = r - p + 1
    BY <2>1 DEF IsNewRecord, IsRecord
  <2>3. first \in p..(p + FrameSize - 1) /\ p \in p..(p + FrameSize - 1) /\ p \in 1..Len(f)
    BY <1>1, <2>1, <2>2, Sizes
  <2>4. f[first].index = first - p + 1 /\ f[p].index = 1
    <3>1. f[p].index = p - p + 1
      BY <2>2, <2>3
    <3> QED BY <2>2, <2>3, <3>1
  <2>5. CASE p = first
    BY <2>2, <2>5
  <2>6. CASE p # first
    <3>1. p = s
      BY <1>1, <2>1, <2>4, <2>6
    <3>2. FrameSize >= 2
      BY <2>3, <3>1, Sizes
    <3> DEFINE q == s + FrameSize - 1
    <3>3. /\ q \in (s + 1)..(s + FrameSize - 1) /\ q \in p..(p + FrameSize - 1)
          /\ q + 1 = p + FrameSize /\ q - p + 1 = FrameSize
      BY <3>1, <3>2, Sizes
    <3>4. f[p + FrameSize].index = 1
      BY <1>4, <2>3, <2>4, <3>1, FirstOfNewFrame
    <3> HIDE DEF q
    <3>5. f[q].index = FrameSize
      BY <2>2, <3>3
    <3>6. f[q + 1].index = FrameSize + 1
      BY <3>3, <3>5
    <3> QED BY <3>3, <3>4, <3>6, Sizes
  <2> QED BY <2>5, <2>6
<1> QED BY <1>3, <1>4

LEMMA WrittenFrame ==
  ASSUME NEW f, NEW n, NEW lost, NEW x, Remains(f, n, lost, x),
         NEW s \in Nat, s + FrameSize <= Len(file), AsWritten(s)
  PROVE  \E d \in Nat :
           /\ Shifted(s + 1, s + FrameSize, n, lost, d) /\ s + d + FrameSize <= Len(f)
           /\ IsFrame(f, s + d)
<1> DEFINE first == s + 1
           end   == s + FrameSize
<1>1. /\ f \in Seq(Cells) /\ (IsOldFile(f) \/ IsNewFile(f))
      /\ lost \in Nat /\ Len(file) \in Nat /\ Len(f) \in Nat
  BY Sizes DEF Remains
<1>2. first \in 1..Len(file) /\ end \in first..Len(file) /\ end \in 1..Len(file)
  BY <1>1, Sizes
<1>3. Unbroken(first, end) /\ file[first].index \in {1, 2} /\ KindWritten(first) \notin {"data", "hk", "hkword"}
  BY DEF AsWritten
<1>4. PICK d \in 0..lost : Shifted(first, end, n, lost, d)
  <2> HIDE DEF first, end
  <2> QED BY <1>1, <1>2, <1>3, ShiftOfUnbroken
<1> DEFINE o == s + d
<1>5. /\ d \in Nat /\ o \in Nat /\ first + d = o + 1 /\ end + d = o + FrameSize
      /\ first \in first..end /\ end \in first..end
  BY <1>1, <1>2, Sizes
<1>6. ASSUME NEW q \in first..end
      PROVE  /\ q + d \in 1..Len(f) /\ file[q].record = f[q + d].record
             /\ file[q].index = f[q + d].index /\ KindWritten(q) = f[q + d].role
  <2>1. q \in 1..Len(file) /\ Origin(q, n, lost) = q + d
    BY <1>2, <1>4 DEF Shifted
  <2> QED BY <1>1, <2>1, CellLeft
<1>7. o + FrameSize <= Len(f) /\ f[o + 1].index \in {1, 2} /\ f[o + 1].role \notin {"data", "hk", "hkword"}
  <2>1. first + d \in 1..Len(f) /\ file[first].index = f[first + d].index
        /\ KindWritten(first) = f[first + d].role
    BY <1>5, <1>6
  <2>2. end + d \in 1..Len(f)
    BY <1>5, <1>6
  <2> QED BY <1>3, <1>5, <2>1, <2>2, SMTT(30)
<1>8. ASSUME NEW q \in (o + 1)..(o + FrameSize - 1)
      PROVE  f[q + 1].record = f[q].record /\ f[q + 1].index = f[q].index + 1
  <2> DEFINE r == q - d
  <2>1. r \in first..(end - 1) /\ r \in first..end /\ r + 1 \in first..end
        /\ r + d = q /\ (r + 1) + d = q + 1
    BY <1>5, Sizes
  <2> HIDE DEF r, o, first, end
  <2>2. file[r + 1].record = file[r].record /\ file[r + 1].index = file[r].index + 1
    BY <1>3, <2>1 DEF Unbroken
  <2>3. file[r].record = f[q].record /\ file[r].index = f[q].index
    BY <1>6, <2>1
  <2>4. file[r + 1].record = f[q + 1].record /\ file[r + 1].index = f[q + 1].index
    BY <1>6, <2>1
  <2> QED BY <2>2, <2>3, <2>4
<1>9. IsFrame(f, o)
  <2> HIDE DEF o
  <2> QED BY <1>1, <1>5, <1>7, <1>8, FrameInRecord
<1> QED BY <1>4, <1>5, <1>7, <1>9

\* From p to l there is an event of the frame behind s, as it was written.
EventWritten(s, p, l) ==
  /\ l \in (p + 3)..(s + FrameSize)
  /\ KindWritten(p) = "event" /\ KindWritten(p + 2) = "hits" /\ KindWritten(l) = "trailer"
  /\ \A q \in (p + 1)..(l - 1) : KindWritten(q) \notin {"event", "trailer"}
  /\ Written(file[p + 2]) => l = LastOf(file, p)

\* The frame behind s was written as frames are: whole events follow each other,
\* and what follows them does not begin like one.
Laid(s) ==
  /\ \A p \in (s + 1)..(s + FrameSize) :
       KindWritten(p) = "event" => \E l \in (p + 3)..(s + FrameSize) : EventWritten(s, p, l)
  /\ \A p \in s..(s + FrameSize - 1) : p = s \/ KindWritten(p) = "trailer" =>
       \/ KindWritten(p + 1) = "event"
       \/ /\ \A q \in (p + 1)..(s + FrameSize) : KindWritten(q) \notin {"event", "trailer"}
          /\ Written(file[p + 1]) => file[p + 1].kind # "event"

LEMMA AsWrittenLaid ==
  ASSUME Source, NEW s \in Nat, s + FrameSize <= Len(file), AsWritten(s)
  PROVE  Laid(s)
<1>1. PICK f, n, lost, x : Remains(f, n, lost, x)
  BY OneDamage
<1>2. PICK d \in Nat :
        /\ Shifted(s + 1, s + FrameSize, n, lost, d) /\ s + d + FrameSize <= Len(f)
        /\ IsFrame(f, s + d)
  BY <1>1, WrittenFrame
<1>3. f \in Seq(Cells) /\ Len(file) \in Nat
  BY <1>1 DEF Remains
<1> DEFINE o == s + d
<1>4. ASSUME NEW q \in (s + 1)..(s + FrameSize)
      PROVE  /\ q + d \in (o + 1)..(o + FrameSize) /\ KindWritten(q) = f[q + d].role
             /\ Written(file[q]) => file[q] = f[q + d]
  <2>1. q \in 1..Len(file) /\ q + d \in (o + 1)..(o + FrameSize)
    BY <1>3, Sizes
  <2>2. Origin(q, n, lost) = q + d
    BY <1>2 DEF Shifted
  <2>3. KindWritten(q) = f[q + d].role
    BY <1>1, <2>1, <2>2, CellLeft
  <2>4. Written(file[q]) => file[q] = f[q + d]
    BY <1>1, <2>1, <2>2, CellLeft
  <2> QED BY <2>1, <2>3, <2>4
<1>5. o \in Nat /\ o + FrameSize <= Len(f) /\ o + FrameSize \in 0..Len(f)
  BY <1>2, <1>3, Sizes
<1>6. IsFrame(f, o)
  BY <1>2
<1>7. ASSUME NEW p \in (s + 1)..(s + FrameSize), KindWritten(p) = "event"
      PROVE  \E l \in (p + 3)..(s + FrameSize) : EventWritten(s, p, l)
  <2> DEFINE first == p + d
             last  == LastOf(f, first)
             l     == last - d
  <2>1. first \in (o + 1)..(o + FrameSize) /\ f[first].role = "event"
    BY <1>4, <1>7
  <2>2. IsEvent(f, first, o + FrameSize)
    <3> HIDE DEF first, o
    <3> QED BY <1>3, <1>5, <1>6, <2>1, EventOfFrame
  <2>3. /\ last \in (first + 3)..(o + FrameSize)
        /\ f[first + 2].role = "hits" /\ f[last].role = "trailer"
        /\ \A q \in (first + 1)..(last - 1) : f[q].role \in EventKinds \ {"event", "trailer"}
    <3>1. first \in Nat \ {0}
      BY <1>5, <2>1
    <3> HIDE DEF first, o
    <3> QED BY <1>3, <1>5, <2>2, <3>1, EventBounds
  <2> HIDE DEF last
  <2>4. /\ l \in (p + 3)..(s + FrameSize) /\ l + d = last /\ (p + 2) + d = first + 2
        /\ l \in (s + 1)..(s + FrameSize) /\ p + 2 \in (s + 1)..(s + FrameSize)
    BY <2>3, Sizes
  <2>5. KindWritten(p + 2) = "hits" /\ (Written(file[p + 2]) => file[p + 2] = f[first + 2])
    <3>1. KindWritten(p + 2) = f[(p + 2) + d].role
      BY <1>4, <2>4
    <3>2. Written(file[p + 2]) => file[p + 2] = f[(p + 2) + d]
      BY <1>4, <2>4
    <3> QED BY <2>3, <2>4, <3>1, <3>2
  <2>6. KindWritten(l) = "trailer"
    <3>1. KindWritten(l) = f[l + d].role
      BY <1>4, <2>4
    <3> QED BY <2>3, <2>4, <3>1
  <2>7. \A q \in (p + 1)..(l - 1) : KindWritten(q) \notin {"event", "trailer"}
    <3>1. TAKE q \in (p + 1)..(l - 1)
    <3>2. q \in (s + 1)..(s + FrameSize) /\ q + d \in (first + 1)..(last - 1)
      BY <2>3, Sizes, SMTT(30)
    <3>3. KindWritten(q) = f[q + d].role
      BY <1>4, <3>2
    <3> QED BY <2>3, <3>2, <3>3
  <2>8. ASSUME Written(file[p + 2]) PROVE l = LastOf(file, p)
    <3>1. file[p + 2] = f[first + 2]
      BY <2>5, <2>8
    <3>2. EventSize(f[first + 2].hits) \in Nat
      <4>1. first + 2 \in 1..Len(f)
        <5>1. Len(f) \in Nat /\ first \in Nat
          BY <1>3, <1>5, <2>1
        <5> HIDE DEF first, o
        <5> QED BY <1>5, <2>1, <2>3, <5>1
      <4>2. f[first + 2] \in Cells
        <5> HIDE DEF first
        <5> QED BY <1>3, <4>1
      <4>3. f[first + 2].hits \subseteq Channels
        BY <4>2 DEF Cells
      <4> QED BY <4>3, EventSizes
    <3>3. last = first + EventSize(f[first + 2].hits) - 1
      BY DEF last, LastOf
    <3>4. LastOf(file, p) = p + EventSize(f[first + 2].hits) - 1
      BY <3>1 DEF LastOf
    <3> QED BY <2>3, <3>1, <3>2, <3>3, <3>4
  <2> HIDE DEF l
  <2>9. EventWritten(s, p, l)
    BY <1>7, <2>4, <2>5, <2>6, <2>7, <2>8 DEF EventWritten
  <2> QED BY <2>4, <2>9
<1>8. ASSUME NEW p \in s..(s + FrameSize - 1), p = s \/ KindWritten(p) = "trailer"
      PROVE  \/ KindWritten(p + 1) = "event"
             \/ /\ \A q \in (p + 1)..(s + FrameSize) : KindWritten(q) \notin {"event", "trailer"}
                /\ Written(file[p + 1]) => file[p + 1].kind # "event"
  <2> DEFINE r == p + d
  <2>1. r \in o..(o + FrameSize - 1) /\ p + 1 + d = r + 1 /\ p + 1 \in (s + 1)..(s + FrameSize)
    BY Sizes
  <2>2. r = o \/ f[r].role = "trailer"
    <3>1. CASE p = s
      BY <3>1
    <3>2. CASE p # s
      <4>1. p \in (s + 1)..(s + FrameSize)
        BY <3>2, Sizes
      <4>2. KindWritten(p) = f[p + d].role
        BY <1>4, <4>1
      <4> QED BY <1>8, <3>2, <4>2
    <3> QED BY <3>1, <3>2
  <2>3. \/ f[r + 1].role = "event"
        \/ f[r + 1].kind # "event" /\ \A t \in (r + 1)..(o + FrameSize) : f[t].role = "fill"
    <3> HIDE DEF r, o
    <3> QED BY <1>3, <1>5, <1>6, <2>1, <2>2, NextOfFrame
  <2>4. CASE f[r + 1].role = "event"
    <3>1. KindWritten(p + 1) = f[p + 1 + d].role
      BY <1>4, <2>1
    <3> QED BY <2>1, <2>4, <3>1
  <2>5. CASE f[r + 1].kind # "event" /\ \A t \in (r + 1)..(o + FrameSize) : f[t].role = "fill"
    <3>1. ASSUME NEW q \in (p + 1)..(s + FrameSize)
          PROVE  KindWritten(q) \notin {"event", "trailer"}
      <4>1. q \in (s + 1)..(s + FrameSize) /\ q + d \in (r + 1)..(o + FrameSize)
        BY Sizes
      <4>2. KindWritten(q) = f[q + d].role
        BY <1>4, <4>1
      <4> QED BY <2>5, <4>1, <4>2
    <3>2. Written(file[p + 1]) => file[p + 1] = f[p + 1 + d]
      BY <1>4, <2>1
    <3>3. Written(file[p + 1]) => file[p + 1].kind # "event"
      BY <2>1, <2>5, <3>2
    <3> QED BY <3>1, <3>3
  <2> QED BY <2>3, <2>4, <2>5
<1> QED BY <1>7, <1>8 DEF Laid

-----------------------------------------------------------------------------
(* The inductive invariant.                                                  *)

\* A frame of the old format lies between a header and a footer.
BetweenMarks ==
  IsOldFormat => \A k \in DOMAIN frames :
    /\ frames[k] \in 1..(Len(file) - FrameSize - 2)
    /\ file[frames[k]].kind = "data" /\ file[frames[k] + FrameSize + 2].kind = "foot"

\* In the new format the reader goes from frame to frame.
FrameByFrame ==
  ~IsOldFormat /\ ~Misread =>
    /\ pos < Len(file) => file[pos + 1].index = 1
    /\ \A k \in DOMAIN frames : AsWritten(frames[k])

\* An intact record at p was returned, or the reader was led past its header.
Reached(p) ==
  (\E k \in DOMAIN frames : frames[k] = p) \/ InFalseFrame(p) \/ BehindHk(p)

\* No other was passed by.
NonePassed == IsOldFormat => \A p \in 1..pos : Intact(p) => Reached(p)

\* Where the frame at hand, and where the last event begins.
Start  == frames[Len(frames)]
LastAt == events[Len(events)].at

\* Of the frame behind s no event behind h can be found any more: a header or
\* channel flags were altered up to there, or a footer from which the search has
\* gone astray, or what follows the last event was made to look like another.
Astray(s, h) ==
  \E p \in (s + 1)..h :
    /\ ~Written(file[p])
    /\ \/ KindWritten(p) \in {"event", "hits"}
       \/ StopsAstray(p, h + 1)
       \/ \A q \in p..(s + FrameSize) : KindWritten(q) \notin {"event", "trailer"}

\* The frame at hand, and the last event, are behind the reader; an event begins
\* a frame or follows a footer.
Place ==
  /\ frames # <<>> => Start + FrameSize <= pos
  /\ events # <<>> =>
       /\ frames # <<>> /\ LastAt < Start + FrameSize /\ LastAt <= Start + head
       /\ AsWritten(Start) /\ LastAt > Start =>
            KindWritten(LastAt) = "trailer" \/ Astray(Start, LastAt)

\* The unpacker gets out of step with the events of a frame only by damage.
InStep ==
  status = "unpacking" /\ AsWritten(Start) /\ head > 0 =>
    KindWritten(Start + head) = "trailer" \/ Astray(Start, Start + head)

\* From first to last there is an event of the frame behind start.
WasEvent(start, first, last) ==
  /\ first \in (start + 1)..(start + FrameSize) /\ last \in (start + 1)..(start + FrameSize)
  /\ first < last /\ KindWritten(first) = "event" /\ KindWritten(last) = "trailer"
  /\ \A p \in first..(last - 1) : KindWritten(p) # "trailer"

Accounted(start, first, last) ==
  \/ \E j \in DOMAIN events : events[j].at = first - 1
  \/ \E p \in (start + 1)..last : ~Written(file[p]) /\ LostTo(p, first, last)

\* All events were looked at.
Through(k) == k < Len(frames) \/ (Wanted /\ status \in {"reading", "read"})

\* What the unpacker has left behind was delivered, or lost to the damage.
Settled ==
  \A k \in DOMAIN frames : AsWritten(frames[k]) =>
    \A first, last \in (frames[k] + 1)..(frames[k] + FrameSize) :
      WasEvent(frames[k], first, last) /\ (Through(k) \/ last <= frames[k] + head)
        => Accounted(frames[k], first, last)

Kept ==
  /\ BetweenMarks /\ FrameByFrame /\ NonePassed /\ Place /\ InStep /\ Settled
  /\ IntactFramesReturned /\ EventsGenuine /\ GivesUpOnlyOnDamage

RawInv == Source /\ Kept

-----------------------------------------------------------------------------
(* What does not change, since the file does not.                            *)

LEMMA SameFile ==
  ASSUME file' = file
  PROVE  /\ IsOldFormat' <=> IsOldFormat
         /\ Misread' <=> Misread
         /\ \A p : KindWritten(p)' = KindWritten(p)
         /\ \A p : Written(file[p])' <=> Written(file[p])
         /\ \A p : LookAlike(p)' <=> LookAlike(p)
         /\ \A p, q : Unbroken(p, q)' <=> Unbroken(p, q)
         /\ \A p : AsWritten(p)' <=> AsWritten(p)
         /\ \A p : Intact(p)' <=> Intact(p)
         /\ \A s, p, q : WasEvent(s, p, q)' <=> WasEvent(s, p, q)
         /\ \A p, q : StopsAstray(p, q)' <=> StopsAstray(p, q)
         /\ \A s, h : Astray(s, h)' <=> Astray(s, h)
<1>1. IsOldFormat' <=> IsOldFormat
  BY DEF IsOldFormat
<1>2. \A p : KindWritten(p)' = KindWritten(p)
  BY DEF KindWritten
<1>3. Misread' <=> Misread
  BY <1>1, <1>2 DEF Misread
<1>4. \A p, q : Unbroken(p, q)' <=> Unbroken(p, q)
  BY DEF Unbroken
<1>5. \A p : AsWritten(p)' <=> AsWritten(p)
  BY <1>2, <1>4 DEF AsWritten
<1>6. /\ \A p : Written(file[p])' <=> Written(file[p])
      /\ \A p : LookAlike(p)' <=> LookAlike(p)
      /\ \A p : Intact(p)' <=> Intact(p)
  BY <1>2, <1>4 DEF Intact, LookAlike, Written
<1>7. \A s, p, q : WasEvent(s, p, q)' <=> WasEvent(s, p, q)
  BY <1>2 DEF WasEvent
<1>8. \A p, q : StopsAstray(p, q)' <=> StopsAstray(p, q)
  BY <1>2, <1>6 DEF StopsAstray
<1>9. \A s, h : Astray(s, h)' <=> Astray(s, h)
  BY <1>2, <1>6, <1>8 DEF Astray
<1> QED BY <1>1, <1>2, <1>3, <1>4, <1>5, <1>6, <1>7, <1>8, <1>9

-----------------------------------------------------------------------------
(* The reader.                                                               *)

\* What is appended to the frames.
LEMMA FrameAppended ==
  ASSUME WithinFile, NEW start \in Nat, NEW next, Unpacks(start, next)
  PROVE  /\ frames' = Append(frames, start) /\ Start' = start /\ frames' # <<>>
         /\ Len(frames) \in Nat /\ Len(frames') = Len(frames) + 1
         /\ DOMAIN frames = 1..Len(frames) /\ DOMAIN frames' = 1..(Len(frames) + 1)
         /\ frames'[Len(frames) + 1] = start
         /\ \A k \in DOMAIN frames : k \in DOMAIN frames' /\ frames'[k] = frames[k]
<1>1. frames \in Seq(Nat) /\ frames' = Append(frames, start)
  BY DEF WithinFile, Unpacks
<1>2. /\ Len(frames) \in Nat /\ Len(frames') = Len(frames) + 1
      /\ DOMAIN frames = 1..Len(frames) /\ DOMAIN frames' = 1..(Len(frames) + 1)
      /\ frames'[Len(frames) + 1] = start /\ frames' # <<>>
      /\ \A k \in DOMAIN frames : k \in DOMAIN frames' /\ frames'[k] = frames[k]
  BY <1>1
<1>3. Start' = start
  BY <1>2 DEF Start
<1> QED BY <1>1, <1>2, <1>3

\* Between the header and the footer of an old frame there is the frame of one
\* record, in which no other begins, unless one of them only looks like it.
LEMMA OldFrameGenuine ==
  ASSUME Source, WithinFile, OldFrame
  PROVE  /\ IsOldFormat /\ Unpacks(pos + 1, pos + FrameSize + 3)
         /\ pos + FrameSize + 3 <= Len(file) /\ pos + 1 \in 1..(Len(file) - FrameSize - 2)
         /\ file[pos + 1].kind = "data" /\ file[pos + 1 + FrameSize + 2].kind = "foot"
         /\ \/ LookAlike(pos + 1) \/ LookAlike(pos + 1 + FrameSize + 2)
            \/ \A p \in (pos + 2)..(pos + FrameSize + 3) : file[p].index # 1
<1>1. /\ IsOldFormat /\ Unpacks(pos + 1, pos + FrameSize + 3)
      /\ pos + FrameSize + 3 <= Len(file)
      /\ file[pos + 1].kind = "data" /\ file[pos + (FrameSize + 3)].kind = "foot"
  BY Positions DEF OldFrame, Follows, Fits
<1> DEFINE p == pos + 1
<1>2. /\ p \in 1..(Len(file) - FrameSize - 2) /\ pos + (FrameSize + 3) = p + FrameSize + 2
      /\ pos + 2 = p + 1 /\ pos + FrameSize + 3 = p + FrameSize + 2
  <2>1. pos \in Nat /\ FrameSize \in Nat /\ Len(file) \in Nat
    BY Positions
  <2>2. pos + FrameSize + 3 <= Len(file)
    BY <1>1
  <2> QED BY <2>1, <2>2
<1> HIDE DEF p
<1>3. \/ LookAlike(p) \/ LookAlike(p + FrameSize + 2)
      \/ \A q \in p..(p + FrameSize + 2) : file[q].index = q - p + 1
  <2>1. file[p].kind = "data" /\ file[p + FrameSize + 2].kind = "foot"
    BY <1>1, <1>2 DEF p
  <2> QED BY <1>2, <2>1, FrameOfRecord
<1>4. \A q \in (p + 1)..(p + FrameSize + 2) : q \in p..(p + FrameSize + 2) /\ q - p + 1 # 1
  BY <1>2, Positions
<1>5. \/ LookAlike(p) \/ LookAlike(p + FrameSize + 2)
      \/ \A q \in (p + 1)..(p + FrameSize + 2) : file[q].index # 1
  BY <1>3, <1>4
<1> QED BY <1>1, <1>2, <1>5 DEF p

LEMMA BetweenMarksKept ==
  ASSUME Source, WithinFile, BetweenMarks, file' = file,
         NewFrame \/ OldFrame \/ frames' = frames
  PROVE  BetweenMarks'
<1>1. CASE NewFrame
  BY <1>1 DEF NewFrame, BetweenMarks, IsOldFormat
<1>2. CASE OldFrame
  <2>1. /\ Unpacks(pos + 1, pos + FrameSize + 3) /\ IsOldFormat
        /\ pos + 1 \in 1..(Len(file) - FrameSize - 2)
        /\ file[pos + 1].kind = "data" /\ file[pos + 1 + FrameSize + 2].kind = "foot"
    BY <1>2, OldFrameGenuine
  <2>2. pos + 1 \in Nat
    BY Positions
  <2>3. /\ DOMAIN frames = 1..Len(frames) /\ DOMAIN frames' = 1..(Len(frames) + 1)
        /\ frames'[Len(frames) + 1] = pos + 1 /\ Len(frames) \in Nat
        /\ \A k \in DOMAIN frames : frames'[k] = frames[k]
    BY <2>1, <2>2, FrameAppended
  <2>4. ASSUME NEW k \in DOMAIN frames'
        PROVE  /\ frames'[k] \in 1..(Len(file) - FrameSize - 2)
               /\ file[frames'[k]].kind = "data" /\ file[frames'[k] + FrameSize + 2].kind = "foot"
    <3>1. CASE k \in DOMAIN frames
      <4>1. frames'[k] = frames[k]
        BY <2>3, <3>1
      <4>2. /\ frames[k] \in 1..(Len(file) - FrameSize - 2)
            /\ file[frames[k]].kind = "data" /\ file[frames[k] + FrameSize + 2].kind = "foot"
        BY <2>1, <3>1 DEF BetweenMarks
      <4> QED BY <4>1, <4>2
    <3>2. CASE k = Len(frames) + 1
      <4>1. frames'[k] = pos + 1
        BY <2>3, <3>2
      <4> QED BY <2>1, <4>1
    <3> QED BY <2>3, <2>4, <3>1, <3>2
  <2> QED BY <2>4 DEF BetweenMarks
<1>3. CASE frames' = frames
  BY <1>3 DEF BetweenMarks, IsOldFormat
<1> QED BY <1>1, <1>2, <1>3

LEMMA FrameByFrameKept ==
  ASSUME Source, WithinFile, FrameByFrame, file' = file,
         NewFrame \/ IsOldFormat \/ UNCHANGED <<pos, frames>>
  PROVE  FrameByFrame'
<1>1. SUFFICES ASSUME ~IsOldFormat, ~Misread
               PROVE  /\ pos' < Len(file) => file[pos' + 1].index = 1
                      /\ \A k \in DOMAIN frames' : AsWritten(frames'[k])
  BY SameFile DEF FrameByFrame
<1>2. CASE UNCHANGED <<pos, frames>>
  BY <1>1, <1>2 DEF FrameByFrame
<1>3. CASE NewFrame
  <2> DEFINE p   == pos + 1
             end == pos + FrameSize
  <2>1. Unpacks(pos, pos + FrameSize) /\ pos + FrameSize <= Len(file)
    BY <1>3 DEF NewFrame, Fits
  <2>2. p \in 1..Len(file) /\ end \in p..Len(file) /\ pos < Len(file) /\ file # <<>>
        /\ pos' = pos + FrameSize /\ pos \in Nat /\ 1 \in 1..Len(file)
    <3>1. file # <<>>
      BY <2>1, Positions
    <3> QED BY <2>1, <3>1, Positions DEF Unpacks
  <2>3. file[p].index = 1
    BY <1>1, <2>2 DEF FrameByFrame
  <2>4. PICK f, n, lost, x : Remains(f, n, lost, x)
    BY OneDamage
  <2>5. f \in Seq(Cells) /\ (IsOldFile(f) \/ (IsNewFile(f) /\ lost = 0)) /\ Len(file) + lost <= Len(f)
        /\ lost \in Nat
    BY <2>4, Sizes DEF Remains
  <2>6. IsNewFile(f) /\ lost = 0
    <3>1. SUFFICES ASSUME IsOldFile(f) PROVE FALSE
      BY <2>5
    <3> DEFINE o == Origin(1, n, lost)
    <3>2. o \in 1..Len(f) /\ file[1].index = f[o].index /\ KindWritten(1) = f[o].role
      BY <2>2, <2>4, CellLeft
    <3> HIDE DEF o
    <3>3. f[o].role \in {"data", "hk"} <=> f[o].index = 1
      BY <2>5, <3>1, <3>2, OldCell
    <3>4. file[1].index = 1 /\ KindWritten(1) \notin {"data", "hk"}
      BY <1>1, <2>2 DEF Misread
    <3> QED BY <3>2, <3>3, <3>4
  <2>7. \A q \in 1..Len(file) : Origin(q, n, lost) = q + 0
    BY <2>6 DEF Origin
  <2>8. p \in 1..Len(f) /\ f[p].index = 1 /\ KindWritten(p) = f[p].role
    <3>1. Origin(p, n, lost) = p
      BY <2>2, <2>7
    <3> HIDE DEF p
    <3> QED BY <2>2, <2>3, <2>4, <3>1, CellLeft
  <2>9. /\ f[p].role \in EventKinds \union {"fill"}
        /\ \A q \in p..(p + FrameSize - 1) : f[q].record = f[p].record /\ f[q].index = q - p + 1
    BY <2>5, <2>6, <2>8, NewCell
  <2>10. Unbroken(p, end)
    <3>1. Shifted(p, end, n, lost, 0)
      BY <2>2, <2>7 DEF Shifted
    <3>2. p + FrameSize - 1 = end + 0 /\ p + 0 = p
      BY <2>2, Positions
    <3> HIDE DEF p, end
    <3>3. Recorded(f, p + 0, end + 0)
      BY <2>9, <3>2 DEF Recorded
    <3>4. 0 \in Nat
      OBVIOUS
    <3> QED BY <2>2, <2>4, <3>1, <3>3, <3>4, RecordUnbroken
  <2>11. AsWritten(pos)
    BY <2>3, <2>8, <2>9, <2>10 DEF AsWritten, EventKinds
  <2>12. pos' < Len(file) => file[pos' + 1].index = 1
    <3>1. SUFFICES ASSUME pos' < Len(file) PROVE file[pos' + 1].index = 1
      OBVIOUS
    <3> DEFINE next == p + FrameSize
    <3>2. next \in 1..Len(file) /\ next <= Len(f) /\ pos' + 1 = next
      <4>1. /\ pos \in Nat /\ FrameSize \in Nat /\ Len(file) \in Nat
            /\ pos' = pos + FrameSize /\ pos' < Len(file)
        BY <2>2, <3>1, Positions
      <4>2. Len(file) <= Len(f)
        BY <2>5, Positions
      <4>3. next \in 1..Len(file) /\ pos' + 1 = next
        BY <4>1
      <4> QED BY <2>5, <4>2, <4>3
    <3>3. f[next].index = 1
      BY <2>5, <2>6, <2>8, <3>2, FirstOfNewFrame
    <3>4. Origin(next, n, lost) = next
      BY <2>7, <3>2
    <3> HIDE DEF next
    <3>5. file[next].index = f[next].index
      BY <2>4, <3>2, <3>4, CellLeft
    <3> QED BY <3>2, <3>3, <3>5
  <2>13. \A k \in DOMAIN frames' : AsWritten(frames'[k])
    <3>1. /\ DOMAIN frames = 1..Len(frames) /\ DOMAIN frames' = 1..(Len(frames) + 1)
          /\ frames'[Len(frames) + 1] = pos /\ Len(frames) \in Nat
          /\ \A k \in DOMAIN frames : frames'[k] = frames[k]
      BY <2>1, <2>2, FrameAppended
    <3>2. \A k \in DOMAIN frames : AsWritten(frames[k])
      BY <1>1 DEF FrameByFrame
    <3> QED BY <2>11, <3>1, <3>2
  <2> QED BY <2>12, <2>13
<1> QED BY <1>1, <1>2, <1>3

\* What was returned, or led the reader past a record, remains.
LEMMA ReachedStill ==
  ASSUME NEW p, Reached(p), file' = file, skipped \subseteq skipped',
         \A k \in DOMAIN frames : k \in DOMAIN frames' /\ frames'[k] = frames[k]
  PROVE  Reached(p)'
<1>1. CASE \E k \in DOMAIN frames : frames[k] = p
  BY <1>1 DEF Reached
<1>2. CASE InFalseFrame(p)
  <2>1. PICK k \in DOMAIN frames :
          /\ p \in (frames[k] + 1)..(frames[k] + FrameSize + 2)
          /\ LookAlike(frames[k]) \/ LookAlike(frames[k] + FrameSize + 2)
    BY <1>2 DEF InFalseFrame
  <2>2. k \in DOMAIN frames' /\ frames'[k] = frames[k]
    OBVIOUS
  <2>3. LookAlike(frames[k])' \/ LookAlike(frames[k] + FrameSize + 2)'
    BY <2>1, <2>2 DEF LookAlike, Written
  <2> QED BY <2>1, <2>2, <2>3 DEF Reached, InFalseFrame
<1>3. CASE BehindHk(p)
  <2>1. BehindHk(p)'
    BY <1>3 DEF BehindHk
  <2> QED BY <2>1 DEF Reached
<1> QED BY <1>1, <1>2, <1>3 DEF Reached

\* What a step of the reader passes by is no intact record, or it is returned, or
\* what the reader takes for another record leads it past.
LEMMA NonePassedKept ==
  ASSUME Source, WithinFile, NonePassed, file' = file,
         \/ NewFrame \/ OldFrame \/ HkSkipped \/ Resynchronised
         \/ UNCHANGED <<pos, frames, skipped>>
  PROVE  NonePassed'
<1>1. SUFFICES ASSUME IsOldFormat, NEW p \in 1..pos', Intact(p)
               PROVE  Reached(p)'
  BY SameFile DEF NonePassed
<1>2. ASSUME p \in 1..pos, skipped \subseteq skipped',
             \A k \in DOMAIN frames : k \in DOMAIN frames' /\ frames'[k] = frames[k]
      PROVE  Reached(p)'
  BY <1>1, <1>2, ReachedStill DEF NonePassed
<1>4. CASE UNCHANGED <<pos, frames, skipped>>
  BY <1>1, <1>2, <1>4
<1>5. CASE NewFrame
  BY <1>1, <1>5 DEF NewFrame
<1>6. CASE OldFrame
  <2>1. /\ Unpacks(pos + 1, pos + FrameSize + 3) /\ pos + FrameSize + 3 <= Len(file)
        /\ \/ LookAlike(pos + 1) \/ LookAlike(pos + 1 + FrameSize + 2)
           \/ \A q \in (pos + 2)..(pos + FrameSize + 3) : file[q].index # 1
    BY <1>6, OldFrameGenuine
  <2>2. pos' = pos + FrameSize + 3 /\ pos \in Nat /\ pos + 1 \in Nat /\ skipped' = skipped
    BY <2>1, Positions DEF Unpacks
  <2>3. /\ Len(frames) + 1 \in DOMAIN frames' /\ frames'[Len(frames) + 1] = pos + 1
        /\ \A k \in DOMAIN frames : k \in DOMAIN frames' /\ frames'[k] = frames[k]
    <3>1. /\ Len(frames) \in Nat /\ DOMAIN frames' = 1..(Len(frames) + 1)
          /\ frames'[Len(frames) + 1] = pos + 1
          /\ \A k \in DOMAIN frames : k \in DOMAIN frames' /\ frames'[k] = frames[k]
      BY <2>1, <2>2, FrameAppended
    <3> QED BY <3>1
  <2>4. CASE p \in 1..pos
    BY <1>2, <2>2, <2>3, <2>4
  <2>5. CASE p = pos + 1
    BY <2>3, <2>5 DEF Reached
  <2>6. CASE p \in (pos + 2)..(pos + FrameSize + 3)
    <3>1. p \in 1..Len(file)
      BY <2>1, <2>2, <2>6, Positions
    <3>2. file[p].index = 1
      BY <1>1, <3>1, IntactRecord
    <3>3. LookAlike(pos + 1) \/ LookAlike(pos + 1 + FrameSize + 2)
      BY <2>1, <2>6, <3>2
    <3> PICK start \in Nat : start = pos + 1
      BY <2>2
    <3>4. p \in (start + 1)..(start + FrameSize + 2)
      BY <2>2, <2>6, Positions
    <3>5. frames'[Len(frames) + 1] = start /\ (LookAlike(start) \/ LookAlike(start + FrameSize + 2))
      BY <2>3, <3>3
    <3>6. LookAlike(start)' \/ LookAlike(start + FrameSize + 2)'
      BY <3>5 DEF LookAlike, Written
    <3> QED BY <2>3, <3>4, <3>5, <3>6 DEF Reached, InFalseFrame
  <2>7. p \in 1..pos \/ p = pos + 1 \/ p \in (pos + 2)..(pos + FrameSize + 3)
    BY <2>2, Positions
  <2> QED BY <2>4, <2>5, <2>6, <2>7
<1>7. CASE HkSkipped
  <2>1. /\ pos' = pos + 1 + HkSize /\ frames' = frames /\ file[pos + 1].kind = "hk"
        /\ pos + 1 + HkSize <= Len(file) /\ skipped' = skipped \union {pos + 1}
    BY <1>7, Positions DEF HkSkipped, Follows, Fits, Moves
  <2>2. CASE p \in 1..pos
    BY <1>2, <2>1, <2>2
  <2>3. CASE p = pos + 1
    <3>1. p \in 1..Len(file)
      BY <2>1, <2>3, Positions
    <3> QED BY <1>1, <2>1, <2>3, <3>1, IntactRecord
  <2>4. CASE p \in (pos + 2)..(pos + 1 + HkSize)
    <3>1. p \in ((pos + 1) + 1)..((pos + 1) + HkSize)
      BY <2>4, Positions
    <3> QED BY <2>1, <3>1 DEF Reached, BehindHk
  <2>5. p \in 1..pos \/ p = pos + 1 \/ p \in (pos + 2)..(pos + 1 + HkSize)
    BY <2>1, Positions
  <2> QED BY <2>2, <2>3, <2>4, <2>5
<1>8. CASE Resynchronised
  <2>1. /\ pos' = pos + 1 /\ frames' = frames /\ skipped' = skipped /\ pos + 1 <= Len(file)
        /\ file[pos + 1].kind = "data" =>
             ~(pos + (FrameSize + 3) <= Len(file) /\ file[pos + (FrameSize + 3)].kind = "foot")
    BY <1>8, Positions DEF Resynchronised, Follows, Fits, MovesOn, Moves, Header
  <2>2. CASE p \in 1..pos
    BY <1>2, <2>1, <2>2
  <2>3. CASE p = pos + 1
    <3>1. p \in 1..Len(file) /\ p + FrameSize + 2 = pos + (FrameSize + 3)
      BY <2>1, <2>3, Positions
    <3>2. /\ p + FrameSize + 2 <= Len(file) /\ file[p].kind = "data"
          /\ file[p + FrameSize + 2].kind = "foot"
      BY <1>1, <3>1, IntactRecord
    <3> QED BY <2>1, <2>3, <3>1, <3>2
  <2>4. p \in 1..pos \/ p = pos + 1
    BY <2>1, Positions
  <2> QED BY <2>2, <2>3, <2>4
<1> QED BY <1>4, <1>5, <1>6, <1>7, <1>8

\* When reading ends, no intact record is left.
LEMMA IntactFramesReturnedKept ==
  ASSUME Source, Inv, NonePassed, Place, IntactFramesReturned, file' = file,
         \/ ReadingEnds
         \/ status' # "read"
         \/ UNCHANGED <<tool, frames, skipped, events, status>>
  PROVE  IntactFramesReturned'
<1>1. CASE status' # "read"
  BY <1>1 DEF IntactFramesReturned, Over
<1>2. CASE UNCHANGED <<tool, frames, skipped, events, status>>
  BY <1>2 DEF IntactFramesReturned, Over, IsOldFormat, Horizon, Wanted, Intact, Unbroken, Written,
              KindWritten, InFalseFrame, BehindHk, LookAlike
<1>3. CASE ReadingEnds
  <2>1. UNCHANGED <<tool, file, pos, frames, skipped, head, events>>
    BY <1>3 DEF ReadingEnds
  <2>2. Horizon' = Horizon
    BY <2>1 DEF Horizon, Wanted
  <2>3. SUFFICES ASSUME IsOldFormat, NEW p \in 1..Len(file), p < Horizon, Intact(p)
                 PROVE  Reached(p)
    BY <2>1, <2>2 DEF IntactFramesReturned, IsOldFormat, Intact, Unbroken, Written, KindWritten,
                      Reached, InFalseFrame, BehindHk, LookAlike
  <2>4. p + FrameSize + 2 <= Len(file)
    BY <2>3 DEF Intact
  <2>5. WithinFile /\ SamplesRead
    BY DEF Inv
  <2>6. p <= pos
    <3>1. SUFFICES ASSUME pos + 1 <= p PROVE FALSE
      BY <2>5, Positions
    <3>2. CASE ~Wanted
      <4>1. Horizon = LastAt /\ tool = "calc_pedestal" /\ ~(Len(events) < MaxEvents)
        BY <3>2 DEF Horizon, Wanted, LastAt
      <4>2. events # <<>>
        <5>1. MaxEvents \in Nat \ {0}
          BY RawDataAssumption
        <5> QED BY <4>1, <5>1
      <4>3. frames # <<>> /\ LastAt < Start + FrameSize /\ Start + FrameSize <= pos
        BY <4>2 DEF Place
      <4>4. Start \in Nat /\ LastAt \in Nat
        <5>1. frames \in Seq(Nat)
          BY <2>5 DEF WithinFile
        <5>2. Start \in Nat
          BY <4>3, <5>1 DEF Start
        <5> DEFINE E == [at : Nat, hits : SUBSET Channels]
        <5>3. events \in Seq(E)
          BY <2>5 DEF SamplesRead
        <5>4. events[Len(events)] \in E
          <6> HIDE DEF E
          <6> QED BY <4>2, <5>3
        <5> QED BY <5>2, <5>4 DEF LastAt
      <4> QED BY <2>3, <2>5, <3>1, <4>1, <4>3, <4>4, Positions
    <3>3. CASE ~Fits(1)
      BY <2>5, <3>1, <3>3, Positions DEF Fits
    <3>4. CASE Follows("hk", 1) /\ ~Fits(1 + HkSize)
      <4>1. ~(pos + (1 + HkSize) <= Len(file)) /\ HkSize <= FrameSize
        BY <3>4, Sizes DEF Fits
      <4> QED BY <2>4, <2>5, <3>1, <4>1, Positions
    <3>5. CASE Follows("data", 1) /\ ~Fits(FrameSize + 3)
      <4>1. ~(pos + (FrameSize + 3) <= Len(file))
        BY <3>5 DEF Fits
      <4> QED BY <2>4, <2>5, <3>1, <4>1, Positions
    <3> QED BY <1>3, <2>3, <3>2, <3>3, <3>4, <3>5 DEF ReadingEnds
  <2>7. p \in 1..pos
    BY <2>5, <2>6, Positions
  <2> QED BY <2>3, <2>7 DEF NonePassed
<1> QED BY <1>1, <1>2, <1>3

-----------------------------------------------------------------------------
(* The unpacker: what is at p, where it looks for the next event.            *)

LEMMA FrameWritten ==
  ASSUME Source, WithinFile, status = "unpacking"
  PROVE  /\ Start \in Nat /\ Start + FrameSize <= Len(file)
         /\ AsWritten(Start) => Laid(Start)
BY FrameAtHand, AsWrittenLaid DEF Start

LEMMA AstrayFurther ==
  ASSUME NEW s \in Int, NEW h \in Int, Astray(s, h), NEW m \in Int, h <= m
  PROVE  Astray(s, m)
<1>1. PICK p \in (s + 1)..h :
        /\ ~Written(file[p])
        /\ \/ KindWritten(p) \in {"event", "hits"}
           \/ StopsAstray(p, h + 1)
           \/ \A q \in p..(s + FrameSize) : KindWritten(q) \notin {"event", "trailer"}
  BY DEF Astray
<1>2. StopsAstray(p, h + 1) => StopsAstray(p, m + 1)
  <2>1. \A q \in (p + 1)..(h + 1 - 1) : q \in (p + 1)..(m + 1 - 1)
    OBVIOUS
  <2> QED BY <2>1 DEF StopsAstray
<1>3. p \in (s + 1)..m
  OBVIOUS
<1> QED BY <1>1, <1>2, <1>3 DEF Astray

\* There is an event, or none in the rest of the frame, and what is there does not
\* look like one.
LEMMA EventOrNone ==
  ASSUME Source, WithinFile, InStep, status = "unpacking", AsWritten(Start), head < FrameSize,
         ~Astray(Start, Start + head), NEW p, p = Start + head + 1
  PROVE  \/ KindWritten(p) = "event"
         \/ /\ \A q \in p..(Start + FrameSize) : KindWritten(q) \notin {"event", "trailer"}
            /\ Written(file[p]) => file[p].kind # "event"
<1> DEFINE at == Start + head
<1>1. Start \in Nat /\ at \in Start..(Start + FrameSize - 1) /\ p = at + 1
  BY FrameWritten, Positions
<1>2. at = Start \/ KindWritten(at) = "trailer"
  BY FrameWritten, Positions DEF InStep
<1>3. \A r \in Start..(Start + FrameSize - 1) : r = Start \/ KindWritten(r) = "trailer" =>
        \/ KindWritten(r + 1) = "event"
        \/ /\ \A q \in (r + 1)..(Start + FrameSize) : KindWritten(q) \notin {"event", "trailer"}
           /\ Written(file[r + 1]) => file[r + 1].kind # "event"
  BY FrameWritten DEF Laid
<1> HIDE DEF at
<1> QED BY <1>1, <1>2, <1>3

\* If its flags are unaltered, its footer is looked for in the right place.
LEMMA SizeRead ==
  ASSUME WithinFile, status = "unpacking", NEW p, p = Start + head + 1,
         p \in Nat, NEW l, EventWritten(Start, p, l), Written(file[p + 2]),
         NEW hits \in HitsAt(head + 2)
  PROVE  l = Start + head + EventSize(hits)
<1>1. /\ l \in (p + 3)..(Start + FrameSize) /\ file[p + 2].role = "hits"
      /\ l = p + EventSize(file[p + 2].hits) - 1
  BY DEF EventWritten, LastOf, KindWritten
<1>2. Start \in Nat /\ head \in Nat /\ FrameSize \in Nat
  BY FrameAtHand, Positions DEF Start
<1>3. Start + (head + 2) + 1 = p + 2 /\ head + 2 < FrameSize
  BY <1>1, <1>2
<1>4. Frame(head + 2) = file[p + 2] /\ InFrame(head + 2)
  BY <1>3 DEF Frame, InFrame, Start
<1>5. hits = file[p + 2].hits
  BY <1>1, <1>4 DEF HitsAt
<1>6. hits \subseteq Channels
  BY <1>2, HitsAreChannels
<1>7. EventSize(hits) \in Nat
  BY <1>6, EventSizes
<1> QED BY <1>1, <1>2, <1>5, <1>7

\* The trailer found is genuine, or the search has gone astray.
LEMMA TrailerFound ==
  ASSUME Source, WithinFile, InStep, status = "unpacking", AsWritten(Start), AtEvent,
         NEW p, p = Start + head + 1,
         NEW hits \in HitsAt(head + 2), NEW t, Found(t, head + EventSize(hits) - 1),
         t \in Nat
  PROVE  /\ KindWritten(Start + t + 1) = "trailer" \/ Astray(Start, Start + t + 1)
         /\ p < Start + t + 1 /\ t < FrameSize
<1> DEFINE q == Start + t + 1
<1>1. Start \in Nat /\ head \in Nat /\ FrameSize \in Nat /\ Len(file) \in Nat
      /\ Start + FrameSize <= Len(file) /\ Laid(Start)
  BY FrameWritten, Positions
<1>2. hits \subseteq Channels
  BY <1>1, HitsAreChannels
<1>3. EventSize(hits) \in Nat /\ EventSize(hits) >= 4
  BY <1>2, EventSizes
<1>4. /\ t < FrameSize /\ file[q].kind = "trailer" /\ t >= head + EventSize(hits) - 1
      /\ \A u \in (head + EventSize(hits) - 1)..(t - 1) : ~IsTrailer(u)
  BY DEF Found, IsTrailer, InFrame, Frame, Start
<1>5. file[p].kind = "event" /\ head < FrameSize
  <2>1. file[Start + head + 1].kind = "event" /\ head < FrameSize
    BY DEF AtEvent, InFrame, Frame, Start
  <2> QED BY <2>1
<1>6. /\ p \in 1..Len(file) /\ q \in 1..Len(file) /\ p + 2 \in 1..Len(file)
      /\ p < q /\ p + 2 < q /\ q <= Start + FrameSize /\ p \in Nat
      /\ p \in (Start + 1)..(Start + FrameSize) /\ q \in (Start + 1)..(Start + FrameSize)
      /\ p \in (Start + 1)..q /\ p + 2 \in (Start + 1)..q
      /\ Start + head \in Int /\ Start + head <= q
  BY <1>1, <1>3, <1>4
<1> HIDE DEF q
<1>7. CASE Astray(Start, Start + head)
  <2>1. Astray(Start, q)
    BY <1>1, <1>6, <1>7, AstrayFurther
  <2> QED BY <1>4, <1>6, <2>1 DEF q
<1>8. CASE ~Astray(Start, Start + head) /\ KindWritten(p) # "event"
  <2>1. ~Written(file[p]) /\ \A r \in p..(Start + FrameSize) : KindWritten(r) \notin {"event", "trailer"}
    BY <1>5, <1>8, EventOrNone
  <2>2. Astray(Start, q)
    BY <1>6, <2>1 DEF Astray
  <2> QED BY <1>4, <1>6, <2>2 DEF q
<1>9. CASE KindWritten(p) = "event"
  <2>1. PICK l \in (p + 3)..(Start + FrameSize) : EventWritten(Start, p, l)
    BY <1>1, <1>6, <1>9 DEF Laid
  <2>2. KindWritten(p + 2) = "hits" /\ KindWritten(l) = "trailer" /\ l \in 1..Len(file)
    BY <1>1, <1>6, <2>1 DEF EventWritten
  <2>3. CASE ~Written(file[p + 2])
    <3>1. Astray(Start, q)
      BY <1>6, <2>2, <2>3 DEF Astray
    <3> QED BY <1>4, <1>6, <3>1 DEF q
  <2>4. CASE Written(file[p + 2])
    <3>1. l = Start + head + EventSize(hits)
      BY <1>6, <2>1, <2>4, SizeRead
    <3>2. l <= q /\ l \in Nat /\ q \in Nat
      BY <1>1, <1>3, <1>4, <1>6, <3>1 DEF q
    <3>3. SUFFICES ASSUME KindWritten(q) # "trailer" PROVE Astray(Start, q)
      BY <1>4, <1>6 DEF q
    <3>4. ASSUME NEW r \in l..(q - 1), KindWritten(r) = "trailer"
          PROVE  ~Written(file[r])
      <4>1. SUFFICES ASSUME Written(file[r]) PROVE FALSE
        OBVIOUS
      <4>2. r \in 1..Len(file)
        BY <1>6, <2>2, <3>2
      <4>3. file[r].kind = "trailer"
        BY <3>4, <4>1, <4>2, WrittenMark DEF Marks
      <4> DEFINE u == r - Start - 1
      <4>4. u \in (head + EventSize(hits) - 1)..(t - 1) /\ Start + u + 1 = r /\ u < FrameSize
        <5> PICK size \in Nat : size = EventSize(hits)
          BY <1>3
        <5>1. r \in (Start + head + size)..(Start + t) /\ t \in Nat /\ t < FrameSize
          BY <1>1, <1>4, <3>1, <3>2 DEF q
        <5> QED BY <1>1, <5>1
      <4> HIDE DEF u
      <4>5. IsTrailer(u)
        BY <4>3, <4>4 DEF IsTrailer, InFrame, Frame, Start
      <4> QED BY <1>4, <4>4, <4>5
    <3>5. l # q /\ l \in l..(q - 1)
      BY <2>2, <3>2, <3>3
    <3>6. ~Written(file[l])
      BY <2>2, <3>4, <3>5
    <3>7. \A r \in 1..Len(file) : r # l => Written(file[r])
      BY <2>2, <3>6, AtMostOneAltered
    <3>8. LookAlike(q)
      BY <1>4, <1>6, <3>3, <3>5, <3>7 DEF LookAlike, KindWritten
    <3>9. ASSUME NEW r \in (l + 1)..q PROVE KindWritten(r) # "trailer"
      <4>1. CASE r = q
        BY <3>3, <4>1
      <4>2. CASE r # q
        <5>1. r \in l..(q - 1) /\ r # l /\ r \in 1..Len(file)
          BY <1>6, <2>2, <3>2, <4>2
        <5> QED BY <3>4, <3>7, <5>1
      <4> QED BY <4>1, <4>2
    <3>10. q \in (l + 1)..((q + 1) - 1) /\ l \in (Start + 1)..q
      BY <1>1, <1>6, <2>1, <3>2, <3>5
    <3>11. StopsAstray(l, q + 1)
      BY <1>4, <2>2, <3>8, <3>9, <3>10 DEF StopsAstray
    <3> QED BY <3>6, <3>10, <3>11 DEF Astray
  <2> QED BY <2>3, <2>4
<1> QED BY <1>7, <1>8, <1>9

\* An event that is not left behind begins at p or behind the one there.
LEMMA EventAhead ==
  ASSUME Source, WithinFile, InStep, status = "unpacking", AsWritten(Start),
         ~Astray(Start, Start + head),
         NEW first, NEW last, WasEvent(Start, first, last), Start + head < last,
         NEW p, p = Start + head + 1
  PROVE  /\ head < FrameSize /\ KindWritten(p) = "event" /\ p \in Nat
         /\ \E l \in (p + 3)..(Start + FrameSize) :
              /\ EventWritten(Start, p, l)
              /\ (first = p /\ last = l) \/ l < first
<1>1. Start \in Nat /\ head \in Nat /\ FrameSize \in Nat /\ Laid(Start) /\ head <= FrameSize
  BY FrameWritten, Positions DEF WithinFile
<1>2. /\ first \in (Start + 1)..(Start + FrameSize) /\ last \in (Start + 1)..(Start + FrameSize)
      /\ first < last /\ KindWritten(first) = "event" /\ KindWritten(last) = "trailer"
      /\ \A q \in first..(last - 1) : KindWritten(q) # "trailer"
  BY DEF WasEvent
<1>3. head < FrameSize /\ p \in (Start + 1)..(Start + FrameSize)
  BY <1>1, <1>2
<1>4. p <= first
  <2>1. SUFFICES ASSUME first < p PROVE FALSE
    BY <1>1, <1>2
  <2> DEFINE at == Start + head
  <2>2. head > 0 /\ at \in first..(last - 1)
    BY <1>1, <1>2, <2>1
  <2>3. KindWritten(at) = "trailer"
    BY <2>2 DEF InStep
  <2> HIDE DEF at
  <2> QED BY <1>2, <2>2, <2>3
<1>5. KindWritten(p) = "event"
  <2>1. first \in p..(Start + FrameSize) /\ KindWritten(first) \in {"event", "trailer"}
    BY <1>1, <1>2, <1>4
  <2>2. \/ KindWritten(p) = "event"
        \/ \A r \in p..(Start + FrameSize) : KindWritten(r) \notin {"event", "trailer"}
    BY <1>3, EventOrNone
  <2> QED BY <2>1, <2>2
<1>6. PICK l \in (p + 3)..(Start + FrameSize) : EventWritten(Start, p, l)
  BY <1>1, <1>3, <1>5 DEF Laid
<1>7. /\ KindWritten(l) = "trailer"
      /\ \A q \in (p + 1)..(l - 1) : KindWritten(q) # "event" /\ KindWritten(q) # "trailer"
  BY <1>6 DEF EventWritten
<1>8. first = p => last = l
  <2>1. ASSUME first = p, last < l PROVE FALSE
    <3>1. last \in (p + 1)..(l - 1)
      BY <1>1, <1>2, <1>3, <2>1
    <3> QED BY <1>2, <1>7, <3>1
  <2>2. ASSUME first = p, l < last PROVE FALSE
    <3>1. l \in first..(last - 1)
      BY <1>1, <1>2, <1>3, <2>2
    <3> QED BY <1>2, <1>7, <3>1
  <2> QED BY <1>1, <1>2, <1>3, <2>1, <2>2
<1>9. first # p => l < first
  <2>1. SUFFICES ASSUME first # p, first <= l PROVE FALSE
    BY <1>1, <1>2, <1>3
  <2>2. first # l
    BY <1>2, <1>7
  <2>3. first \in (p + 1)..(l - 1)
    BY <1>1, <1>2, <1>3, <1>4, <2>1, <2>2
  <2> QED BY <1>2, <1>7, <2>3
<1> QED BY <1>1, <1>3, <1>5, <1>6, <1>8, <1>9

-----------------------------------------------------------------------------
(* Steps of the reader and the unpacker: where they are.                     *)

LEMMA LastEvent ==
  ASSUME SamplesRead, events # <<>>
  PROVE  LastAt \in Nat /\ Len(events) \in DOMAIN events
<1> DEFINE E == [at : Nat, hits : SUBSET Channels]
<1>1. events \in Seq(E)
  BY DEF SamplesRead
<1>2. events[Len(events)] \in E /\ Len(events) \in DOMAIN events
  <2> HIDE DEF E
  <2> QED BY <1>1
<1> QED BY <1>2 DEF LastAt

\* What is appended to the events.
LEMMA EventAppended ==
  ASSUME Inv, EventUnpacked
  PROVE  /\ status = "unpacking" /\ Wanted /\ AtEvent /\ head < FrameSize
         /\ UNCHANGED <<tool, file, pos, frames, skipped, status>>
         /\ Start \in Nat /\ Start + FrameSize <= Len(file) /\ frames # <<>>
         /\ LastAt' = Start + head /\ events' # <<>> /\ Start' = Start
         /\ Len(events) \in Nat /\ DOMAIN events = 1..Len(events)
         /\ DOMAIN events' = 1..(Len(events) + 1)
         /\ \A j \in DOMAIN events : j \in DOMAIN events' /\ events'[j] = events[j]
         /\ \E hits \in HitsAt(head + 2) :
              /\ events'[Len(events) + 1] = [at |-> Start + head, hits |-> hits]
              /\ EventSize(hits) \in Nat /\ EventSize(hits) >= 4
              /\ head' = head + EventSize(hits) /\ head' <= FrameSize
              /\ Found(head + EventSize(hits) - 1, head + EventSize(hits) - 1)
<1>1. WithinFile /\ SamplesRead
  BY DEF Inv
<1>2. /\ status = "unpacking" /\ Wanted /\ AtEvent /\ head < FrameSize
      /\ UNCHANGED <<tool, file, pos, frames, skipped, status>> /\ frames # <<>>
  BY <1>1 DEF EventUnpacked, AtWholeHeader, Unpacking, AtEvent, InFrame, Continues, WithinFile
<1>3. PICK hits \in HitsAt(head + 2) :
        /\ IsTrailer(head + EventSize(hits) - 1)
        /\ Delivered(hits) /\ head' = head + EventSize(hits)
  BY DEF EventUnpacked, Continues
<1>4. Start \in Nat /\ Start + FrameSize <= Len(file) /\ head \in Nat /\ FrameSize \in Nat
  BY <1>1, <1>2, FrameAtHand, Positions DEF Start
<1>5. hits \subseteq Channels
  BY <1>1, <1>2, <1>4, HitsAreChannels
<1>6. EventSize(hits) \in Nat /\ EventSize(hits) >= 4
  BY <1>5, EventSizes
<1>7. head' <= FrameSize /\ Found(head + EventSize(hits) - 1, head + EventSize(hits) - 1)
  <2> DEFINE t == head + EventSize(hits) - 1
  <2>1. t \in Nat /\ IsTrailer(t) /\ head' = t + 1
    BY <1>3, <1>4, <1>6
  <2>2. t < FrameSize
    BY <2>1 DEF IsTrailer, InFrame
  <2> HIDE DEF t
  <2>3. Found(t, t)
    BY <2>1 DEF Found
  <2>4. head' <= FrameSize
    BY <1>4, <2>1, <2>2
  <2> QED BY <2>3, <2>4 DEF t
<1> DEFINE event == [at |-> Start + head, hits |-> hits]
           E     == [at : Nat, hits : SUBSET Channels]
<1>8. events' = Append(events, event)
  BY <1>3 DEF Delivered, Start
<1>9. events \in Seq(E) /\ event \in E /\ event.at = Start + head
  BY <1>1, <1>4, <1>5 DEF SamplesRead
<1>10. /\ Len(events) \in Nat /\ DOMAIN events = 1..Len(events)
       /\ DOMAIN events' = 1..(Len(events) + 1) /\ Len(events') = Len(events) + 1
       /\ \A j \in DOMAIN events : j \in DOMAIN events' /\ events'[j] = events[j]
       /\ events'[Len(events) + 1] = event /\ events' # <<>>
  <2> HIDE DEF E, event
  <2> QED BY <1>8, <1>9
<1>11. LastAt' = Start + head
  BY <1>9, <1>10 DEF LastAt
<1>12. Start' = Start
  BY <1>2 DEF Start
<1> QED BY <1>2, <1>3, <1>4, <1>6, <1>7, <1>10, <1>11, <1>12

\* What is skipped with an invalid event.
LEMMA SkippedTo ==
  ASSUME Inv, EventSkipped
  PROVE  /\ status = "unpacking" /\ Wanted /\ AtEvent /\ head < FrameSize
         /\ UNCHANGED <<tool, file, pos, frames, skipped, events, status>>
         /\ Start \in Nat /\ Start + FrameSize <= Len(file) /\ frames # <<>>
         /\ \E hits \in HitsAt(head + 2), t \in Nat :
              /\ EventSize(hits) \in Nat /\ EventSize(hits) >= 4
              /\ ~IsTrailer(head + EventSize(hits) - 1)
              /\ Found(t, head + EventSize(hits) - 1)
              /\ t > head /\ t < FrameSize /\ head' = t + 1
<1>1. WithinFile
  BY DEF Inv
<1>2. /\ status = "unpacking" /\ Wanted /\ AtEvent /\ head < FrameSize /\ frames # <<>>
  BY <1>1 DEF EventSkipped, AtWholeHeader, Unpacking, AtEvent, InFrame, WithinFile
<1>3. PICK hits \in HitsAt(head + 2), t \in head..(FrameSize - 1) :
        /\ ~IsTrailer(head + EventSize(hits) - 1)
        /\ Found(t, head + EventSize(hits) - 1) /\ Continues(t + 1)
  BY DEF EventSkipped
<1>4. UNCHANGED <<tool, file, pos, frames, skipped, events, status>> /\ head' = t + 1
  BY <1>3 DEF EventSkipped, Continues
<1>5. Start \in Nat /\ Start + FrameSize <= Len(file) /\ head \in Nat /\ FrameSize \in Nat
  BY <1>1, <1>2, FrameAtHand, Positions DEF Start
<1>6. hits \subseteq Channels
  BY <1>1, <1>2, <1>5, HitsAreChannels
<1>7. EventSize(hits) \in Nat /\ EventSize(hits) >= 4
  BY <1>6, EventSizes
<1>8. t \in Nat /\ t > head /\ t < FrameSize
  <2>1. t >= head + EventSize(hits) - 1
    BY <1>3 DEF Found
  <2> QED BY <1>3, <1>5, <1>7, <2>1
<1> QED BY <1>2, <1>3, <1>4, <1>5, <1>7, <1>8

LEMMA PlaceKept ==
  ASSUME Source, Inv, Place, InStep, file' = file,
         \/ NewFrame \/ OldFrame \/ HkSkipped \/ Resynchronised
         \/ EventUnpacked \/ EventSkipped
         \/ UNCHANGED <<pos, frames, head, events>>
  PROVE  Place'
<1>1. WithinFile /\ SamplesRead
  BY DEF Inv
<1>2. frames # <<>> => Start \in Nat
  <2>1. frames \in Seq(Nat)
    BY <1>1 DEF WithinFile
  <2> QED BY <2>1 DEF Start
<1>3. ASSUME NEW start \in Nat, NEW next \in Nat, Unpacks(start, next),
             pos <= start, start + FrameSize <= next
      PROVE  Place'
  <2>1. pos' = next /\ head' = 0 /\ events' = events
    BY <1>3 DEF Unpacks
  <2>2. Start' = start /\ frames' # <<>>
    BY <1>1, <1>3, FrameAppended
  <2>3. LastAt' = LastAt
    BY <2>1 DEF LastAt
  <2>4. ASSUME events # <<>>
        PROVE  LastAt \in Nat /\ LastAt < start + FrameSize /\ LastAt <= start
    <3>1. LastAt < Start + FrameSize /\ Start + FrameSize <= pos /\ Start \in Nat
      BY <1>2, <2>4 DEF Place
    <3>2. LastAt \in Nat
      BY <1>1, <2>4, LastEvent
    <3> QED BY <1>1, <1>3, <3>1, <3>2, Positions
  <2> QED BY <1>3, <2>1, <2>2, <2>3, <2>4 DEF Place
<1>4. CASE NewFrame
  <2>1. Unpacks(pos, pos + FrameSize)
    BY <1>4 DEF NewFrame
  <2> QED BY <1>1, <1>3, <2>1, Positions
<1>5. CASE OldFrame
  <2>1. Unpacks(pos + 1, pos + FrameSize + 3)
    BY <1>5 DEF OldFrame
  <2> QED BY <1>1, <1>3, <2>1, Positions
<1>6. ASSUME pos' \in Nat, pos <= pos', UNCHANGED <<frames, head, events>>
      PROVE  Place'
  <2>1. Start' = Start /\ LastAt' = LastAt
    BY <1>6 DEF Start, LastAt
  <2>2. frames # <<>> => Start + FrameSize <= pos'
    BY <1>1, <1>2, <1>6, Positions DEF Place
  <2>3. AsWritten(Start') <=> AsWritten(Start)
    BY <2>1
  <2>4. AsWritten(Start)' <=> AsWritten(Start)
    BY <2>3, SameFile
  <2>5. /\ KindWritten(LastAt)' = KindWritten(LastAt)
        /\ Astray(Start, LastAt)' <=> Astray(Start, LastAt)
    BY <2>1, SameFile
  <2> QED BY <1>6, <2>1, <2>2, <2>4, <2>5 DEF Place
<1>7. CASE HkSkipped
  BY <1>1, <1>6, <1>7, Positions DEF HkSkipped, Moves
<1>8. CASE Resynchronised
  BY <1>1, <1>6, <1>8, Positions DEF Resynchronised, MovesOn, Moves
<1>9. CASE UNCHANGED <<pos, frames, head, events>>
  BY <1>1, <1>6, <1>9, Positions
<1>10. CASE EventUnpacked
  <2>1. /\ status = "unpacking" /\ head < FrameSize /\ UNCHANGED <<pos, frames>>
        /\ Start \in Nat /\ frames # <<>> /\ Start' = Start /\ LastAt' = Start + head
    BY <1>10, EventAppended
  <2>2. PICK size \in Nat : head' = head + size
    BY <1>10, EventAppended
  <2>3. head \in Nat /\ FrameSize \in Nat
    BY <1>1, Positions
  <2>4. AsWritten(Start)' /\ LastAt' > Start' =>
          KindWritten(LastAt)' = "trailer" \/ Astray(Start, LastAt)'
    <3>1. SUFFICES ASSUME AsWritten(Start)', Start + head > Start
                   PROVE  KindWritten(LastAt)' = "trailer" \/ Astray(Start, LastAt)'
      BY <2>1
    <3>2. AsWritten(Start)
      BY <2>1, <3>1, SameFile
    <3>3. KindWritten(Start + head) = "trailer" \/ Astray(Start, Start + head)
      BY <2>1, <2>3, <3>1, <3>2 DEF InStep
    <3> PICK start, at : start = Start /\ at = Start + head
      OBVIOUS
    <3>4. KindWritten(at) = "trailer" \/ Astray(start, at)
      BY <3>3
    <3>5. LastAt' = at /\ Start' = start
      BY <2>1
    <3> QED BY <3>4, <3>5, SameFile
  <2>5. Start + FrameSize <= pos
    BY <2>1 DEF Place
  <2> QED BY <2>1, <2>2, <2>3, <2>4, <2>5 DEF Place
<1>11. CASE EventSkipped
  <2>1. /\ UNCHANGED <<pos, frames, events>> /\ Start \in Nat /\ frames # <<>>
        /\ \E t \in Nat : t > head /\ head' = t + 1
    BY <1>11, SkippedTo
  <2>2. Start' = Start /\ LastAt' = LastAt
    BY <2>1 DEF Start, LastAt
  <2>3. AsWritten(Start)' <=> AsWritten(Start)
    BY <2>2, SameFile
  <2>4. /\ KindWritten(LastAt)' = KindWritten(LastAt)
        /\ Astray(Start, LastAt)' <=> Astray(Start, LastAt)
    BY <2>2, SameFile
  <2>5. events # <<>> => LastAt <= Start + head'
    <3>1. events # <<>> => LastAt \in Nat /\ LastAt <= Start + head
      BY <1>1, LastEvent DEF Place
    <3> QED BY <1>1, <2>1, <3>1, Positions
  <2> QED BY <2>1, <2>2, <2>3, <2>4, <2>5 DEF Place
<1> QED BY <1>4, <1>5, <1>7, <1>8, <1>9, <1>10, <1>11

LEMMA InStepKept ==
  ASSUME Source, Inv, InStep, file' = file,
         \/ EventUnpacked \/ EventSkipped
         \/ head' = 0
         \/ status' # "unpacking"
         \/ UNCHANGED <<frames, head, status>>
  PROVE  InStep'
<1>1. WithinFile
  BY DEF Inv
<1>2. CASE head' = 0 \/ status' # "unpacking"
  BY <1>2 DEF InStep
<1>3. CASE UNCHANGED <<frames, head, status>>
  <2>1. Start' = Start
    BY <1>3 DEF Start
  <2>2. /\ KindWritten(Start + head)' = KindWritten(Start + head)
        /\ Astray(Start, Start + head)' <=> Astray(Start, Start + head)
    BY <1>3, <2>1, SameFile
  <2>3. AsWritten(Start)' <=> AsWritten(Start)
    BY <2>1, SameFile
  <2> QED BY <1>3, <2>2, <2>3 DEF InStep
<1>4. ASSUME NEW hits \in HitsAt(head + 2), NEW t \in Nat, status = "unpacking", AtEvent,
             Found(t, head + EventSize(hits) - 1), head' = t + 1,
             frames' = frames, status' = status
      PROVE  InStep'
  <2>1. SUFFICES ASSUME AsWritten(Start)'
                 PROVE  KindWritten(Start + head)' = "trailer" \/ Astray(Start, Start + head)'
    BY DEF InStep
  <2>2. Start' = Start /\ Start \in Nat
    BY <1>1, <1>4, FrameWritten DEF Start
  <2>3. AsWritten(Start)
    BY <2>1, <2>2, SameFile
  <2>4. KindWritten(Start + t + 1) = "trailer" \/ Astray(Start, Start + t + 1)
    BY <1>1, <1>4, <2>3, TrailerFound
  <2> PICK start, q : start = Start /\ q = Start + t + 1
    OBVIOUS
  <2>5. KindWritten(q) = "trailer" \/ Astray(start, q)
    BY <2>4
  <2>6. (Start + head)' = q /\ Start' = start
    BY <1>4, <2>2
  <2> QED BY <2>5, <2>6, SameFile
<1>5. CASE EventUnpacked
  <2>1. /\ status = "unpacking" /\ AtEvent /\ UNCHANGED <<frames, status>>
        /\ \E hits \in HitsAt(head + 2) :
             /\ EventSize(hits) \in Nat /\ EventSize(hits) >= 4
             /\ head' = head + EventSize(hits)
             /\ Found(head + EventSize(hits) - 1, head + EventSize(hits) - 1)
    BY <1>5, EventAppended
  <2>2. PICK hits \in HitsAt(head + 2) :
             /\ EventSize(hits) \in Nat /\ EventSize(hits) >= 4
             /\ head' = head + EventSize(hits)
             /\ Found(head + EventSize(hits) - 1, head + EventSize(hits) - 1)
    BY <2>1
  <2> DEFINE t == head + EventSize(hits) - 1
  <2>3. t \in Nat /\ head' = t + 1 /\ Found(t, head + EventSize(hits) - 1)
    BY <1>1, <2>2, Positions
  <2> HIDE DEF t
  <2> QED BY <1>4, <2>1, <2>3
<1>6. CASE EventSkipped
  <2>1. /\ status = "unpacking" /\ AtEvent /\ UNCHANGED <<frames, status>>
        /\ \E hits \in HitsAt(head + 2), t \in Nat :
             Found(t, head + EventSize(hits) - 1) /\ head' = t + 1
    BY <1>6, SkippedTo
  <2> QED BY <1>4, <2>1
<1> QED BY <1>2, <1>3, <1>5, <1>6

\* A header without room for anything behind it was never written.
LEMMA GivesUpKept ==
  ASSUME Source, Inv, InStep, GivesUpOnlyOnDamage, file' = file,
         HeaderCutOff \/ status' # "failed" \/ UNCHANGED <<frames, status>>
  PROVE  GivesUpOnlyOnDamage'
<1>1. WithinFile
  BY DEF Inv
<1>2. CASE status' # "failed"
  BY <1>2 DEF GivesUpOnlyOnDamage
<1>3. CASE UNCHANGED <<frames, status>>
  BY <1>3 DEF GivesUpOnlyOnDamage, AsWritten, Unbroken, KindWritten, Written
<1>4. CASE HeaderCutOff
  <2>1. /\ status = "unpacking" /\ AtEvent /\ frames' = frames
        /\ file[Start + head + 1].kind = "event" /\ head < FrameSize /\ ~(head + 1 < FrameSize)
    BY <1>4 DEF HeaderCutOff, Unpacking, AtEvent, InFrame, Frame, Start
  <2> DEFINE last == Start + FrameSize
  <2>2. SUFFICES ASSUME AsWritten(Start)
                 PROVE  /\ file[last].kind = "event" /\ KindWritten(last) # "event"
                        /\ \E p \in (Start + 1)..last : ~Written(file[p])
    BY <2>1 DEF GivesUpOnlyOnDamage, AsWritten, Unbroken, KindWritten, Written, Start
  <2>3. /\ Start \in Nat /\ Start + head + 1 = last /\ last \in (Start + 1)..(Start + FrameSize)
        /\ Laid(Start) /\ last \in (Start + 1)..last
        /\ \A p \in (Start + 1)..(Start + head) : p \in (Start + 1)..last
    BY <1>1, <2>1, <2>2, FrameWritten, Positions
  <2>4. file[last].kind = "event"
    BY <2>1, <2>3
  <2>5. KindWritten(last) # "event"
    <3>1. SUFFICES ASSUME KindWritten(last) = "event" PROVE FALSE
      OBVIOUS
    <3>2. \E l \in (last + 3)..(Start + FrameSize) : EventWritten(Start, last, l)
      <4> HIDE DEF last
      <4> QED BY <2>3, <3>1 DEF Laid
    <3> QED BY <1>1, <2>3, <3>2, Positions
  <2> HIDE DEF last
  <2>6. CASE Astray(Start, Start + head)
    BY <2>3, <2>4, <2>5, <2>6 DEF Astray
  <2>7. CASE ~Astray(Start, Start + head)
    <3>1. ~Written(file[last])
      BY <1>1, <2>1, <2>2, <2>3, <2>4, <2>5, <2>7, EventOrNone
    <3> QED BY <2>3, <2>4, <2>5, <3>1
  <2> QED BY <2>6, <2>7
<1> QED BY <1>2, <1>3, <1>4

-----------------------------------------------------------------------------
(* The unpacker: what it leaves behind.                                      *)

\* There is damage that the event can be lost to.
Lost(start, first, last) ==
  \E p \in (start + 1)..last : ~Written(file[p]) /\ LostTo(p, first, last)

\* What makes a search go astray explains the loss of every event that ends
\* behind it.
LEMMA LostWhenAstray ==
  ASSUME NEW s \in Nat, NEW h \in Int, Laid(s), Astray(s, h),
         NEW first, NEW last, WasEvent(s, first, last), h < last
  PROVE  Lost(s, first, last)
<1>1. /\ first \in (s + 1)..(s + FrameSize) /\ last \in (s + 1)..(s + FrameSize)
      /\ first < last /\ KindWritten(first) = "event" /\ KindWritten(last) = "trailer"
      /\ \A r \in first..(last - 1) : KindWritten(r) # "trailer"
      /\ FrameSize \in Nat
  BY Sizes DEF WasEvent
<1>2. PICK p \in (s + 1)..h :
        /\ ~Written(file[p])
        /\ \/ KindWritten(p) \in {"event", "hits"}
           \/ StopsAstray(p, h + 1)
           \/ \A r \in p..(s + FrameSize) : KindWritten(r) \notin {"event", "trailer"}
  BY DEF Astray
<1>3. p \in (s + 1)..last /\ last \in p..(s + FrameSize)
  BY <1>1, <1>2
<1>4. SUFFICES LostTo(p, first, last)
  BY <1>2, <1>3 DEF Lost
<1>5. CASE KindWritten(p) \in {"event", "hits"}
  BY <1>5 DEF LostTo
<1>6. CASE StopsAstray(p, h + 1)
  <2>1. KindWritten(p) = "trailer"
    BY <1>6 DEF StopsAstray
  <2>2. PICK q \in (p + 1)..(h + 1 - 1) :
          /\ LookAlike(q) /\ file[q].kind = "trailer"
          /\ \A r \in (p + 1)..q : KindWritten(r) # "trailer"
    BY <1>6 DEF StopsAstray
  <2>3. CASE q < first
    <3>1. q \in (p + 1)..(first - 1)
      BY <1>1, <2>2, <2>3
    <3> QED BY <2>1, <2>2, <3>1 DEF StopsAstray, LostTo
  <2>4. CASE first <= q
    <3>1. p < first
      <4>1. SUFFICES ASSUME first <= p PROVE FALSE
        BY <1>1, <1>2
      <4>2. p \in first..(last - 1)
        BY <1>1, <1>2, <4>1
      <4> QED BY <1>1, <2>1, <4>2
    <3>2. SUFFICES ASSUME p + 1 # first PROVE FALSE
      <4>1. p + 1 # first \/ p = first - 1
        BY <1>1, <1>2
      <4> QED BY <3>2, <4>1 DEF LostTo
    <3> DEFINE next == p + 1
    <3>3. /\ p \in s..(s + FrameSize - 1) /\ next \in (s + 1)..(s + FrameSize)
          /\ first \in next..(s + FrameSize)
      BY <1>1, <1>2, <3>1
    <3>4. KindWritten(next) = "event"
      BY <1>1, <2>1, <3>3 DEF Laid
    <3>5. PICK l \in (next + 3)..(s + FrameSize) : EventWritten(s, next, l)
      BY <3>3, <3>4 DEF Laid
    <3>6. l > q
      <4>1. KindWritten(l) = "trailer"
        BY <3>5 DEF EventWritten
      <4>2. l \notin (p + 1)..q
        BY <2>2, <4>1
      <4> QED BY <1>2, <3>5, <4>2
    <3>7. first \in (next + 1)..(l - 1)
      BY <1>1, <1>2, <2>2, <2>4, <3>1, <3>2, <3>5, <3>6
    <3> QED BY <1>1, <3>5, <3>7 DEF EventWritten
  <2> QED BY <1>1, <2>2, <2>3, <2>4
<1>7. ~(\A r \in p..(s + FrameSize) : KindWritten(r) \notin {"event", "trailer"})
  BY <1>1, <1>3
<1> QED BY <1>2, <1>5, <1>6, <1>7

\* What is passed by with a valid event: none, or the damage explains it.
LEMMA PassedWithEvent ==
  ASSUME Source, Inv, InStep, EventUnpacked, AsWritten(Start),
         NEW first, NEW last, WasEvent(Start, first, last),
         Start + head < last, last <= Start + head'
  PROVE  first = Start + head + 1 \/ Lost(Start, first, last)
<1>0. SUFFICES ASSUME ~Astray(Start, Start + head) PROVE first = Start + head + 1 \/ Lost(Start, first, last)
  <2>1. /\ WithinFile /\ status = "unpacking" /\ Start \in Nat /\ head \in Nat /\ Laid(Start)
    <3>1. WithinFile /\ status = "unpacking"
      BY EventAppended DEF Inv
    <3> QED BY <3>1, FrameWritten, Positions
  <2> QED BY <2>1, <1>0, LostWhenAstray
<1> DEFINE p == Start + head + 1
<1>1. /\ status = "unpacking" /\ Start \in Nat /\ Start + FrameSize <= Len(file) /\ WithinFile
      /\ \E hits \in HitsAt(head + 2) :
           EventSize(hits) \in Nat /\ head' = head + EventSize(hits)
  BY EventAppended DEF Inv
<1>2. PICK hits \in HitsAt(head + 2) :
        EventSize(hits) \in Nat /\ head' = head + EventSize(hits)
  BY <1>1
<1>3. /\ first < last /\ first \in (Start + 1)..(Start + FrameSize)
      /\ last \in (Start + 1)..(Start + FrameSize)
  BY DEF WasEvent
<1>4. /\ p \in Nat
      /\ \E l \in (p + 3)..(Start + FrameSize) :
           /\ EventWritten(Start, p, l)
           /\ (first = p /\ last = l) \/ l < first
  BY <1>0, <1>1, EventAhead
<1>5. PICK l \in (p + 3)..(Start + FrameSize) :
        /\ EventWritten(Start, p, l)
        /\ (first = p /\ last = l) \/ l < first
  BY <1>4
<1> DEFINE size == EventSize(hits)
<1>6. /\ Start \in Nat /\ head \in Nat /\ FrameSize \in Nat /\ size \in Nat
      /\ head' = head + size /\ l \in (p + 3)..(Start + FrameSize)
      /\ first \in Int /\ last \in Int
  BY <1>1, <1>2, <1>3, Positions
<1>7. SUFFICES ASSUME l < first PROVE Lost(Start, first, last)
  BY <1>5
<1>8. ~Written(file[p + 2])
  <2>1. SUFFICES ASSUME Written(file[p + 2]) PROVE FALSE
    OBVIOUS
  <2>2. l = Start + head + EventSize(hits)
    BY <1>1, <1>4, <1>5, <2>1, SizeRead
  <2> HIDE DEF size
  <2> QED BY <1>3, <1>6, <1>7, <2>2 DEF size
<1>9. p + 2 \in (Start + 1)..last
  BY <1>3, <1>6, <1>7
<1>10. LostTo(p + 2, first, last)
  BY <1>5 DEF EventWritten, LostTo
<1> QED BY <1>8, <1>9, <1>10 DEF Lost

\* No event is passed by with an invalid one but those that the damage before
\* the footer that was found can explain.
LEMMA PassedWithSkipped ==
  ASSUME Source, Inv, InStep, EventSkipped, AsWritten(Start),
         NEW first, NEW last, WasEvent(Start, first, last),
         Start + head < last, last <= Start + head'
  PROVE  Lost(Start, first, last)
<1>0. SUFFICES ASSUME ~Astray(Start, Start + head) PROVE Lost(Start, first, last)
  <2>1. /\ WithinFile /\ status = "unpacking" /\ Start \in Nat /\ head \in Nat /\ Laid(Start)
    <3>1. WithinFile /\ status = "unpacking"
      BY SkippedTo DEF Inv
    <3> QED BY <3>1, FrameWritten, Positions
  <2> QED BY <2>1, <1>0, LostWhenAstray
<1> DEFINE p == Start + head + 1
<1>1. /\ status = "unpacking" /\ Start \in Nat /\ Start + FrameSize <= Len(file) /\ WithinFile
      /\ \E hits \in HitsAt(head + 2), t \in Nat :
           /\ EventSize(hits) \in Nat /\ EventSize(hits) >= 4
           /\ ~IsTrailer(head + EventSize(hits) - 1)
           /\ Found(t, head + EventSize(hits) - 1)
           /\ head' = t + 1
  BY SkippedTo DEF Inv
<1>2. PICK hits \in HitsAt(head + 2), t \in Nat :
           /\ EventSize(hits) \in Nat /\ EventSize(hits) >= 4
           /\ ~IsTrailer(head + EventSize(hits) - 1)
           /\ Found(t, head + EventSize(hits) - 1)
           /\ head' = t + 1
  BY <1>1
<1>3. /\ first < last /\ first \in (Start + 1)..(Start + FrameSize)
      /\ last \in (Start + 1)..(Start + FrameSize) /\ KindWritten(first) = "event"
  BY DEF WasEvent
<1>4. /\ p \in Nat /\ head \in Nat
      /\ \E l \in (p + 3)..(Start + FrameSize) :
           /\ EventWritten(Start, p, l)
           /\ (first = p /\ last = l) \/ l < first
  BY <1>0, <1>1, EventAhead, Positions
<1>5. PICK l \in (p + 3)..(Start + FrameSize) :
        /\ EventWritten(Start, p, l)
        /\ (first = p /\ last = l) \/ l < first
  BY <1>4
<1>6. /\ Start \in Nat /\ head \in Nat /\ FrameSize \in Nat /\ Len(file) \in Nat
      /\ Start + FrameSize <= Len(file)
  BY <1>1, Positions
<1>7. p + 2 \in (Start + 1)..last /\ l \in (Start + 1)..last /\ l \in 1..Len(file)
  BY <1>3, <1>5, <1>6
<1>8. LostTo(p + 2, first, last)
  BY <1>5 DEF EventWritten, LostTo
<1>9. SUFFICES ASSUME Written(file[p + 2]) PROVE Lost(Start, first, last)
  BY <1>7, <1>8 DEF Lost
<1>10. l = Start + head + EventSize(hits) /\ KindWritten(l) = "trailer"
  BY <1>1, <1>4, <1>5, <1>9, SizeRead DEF EventWritten
<1> DEFINE u == head + EventSize(hits) - 1
<1>11. u \in Nat /\ Start + u + 1 = l /\ u < FrameSize /\ ~IsTrailer(u) /\ Found(t, u)
  <2>1. u \in Nat /\ Start + u + 1 = l /\ u < FrameSize
    <3>1. EventSize(hits) \in Nat /\ EventSize(hits) >= 4 /\ l <= Start + FrameSize
      BY <1>2, <1>5
    <3> QED BY <1>10, <1>6, <3>1
  <2> QED BY <1>2, <2>1
<1> HIDE DEF u
<1>12. ~Written(file[l])
  <2>1. file[l].kind # "trailer"
    BY <1>11 DEF IsTrailer, InFrame, Frame, Start
  <2> QED BY <1>7, <1>10, <2>1, WrittenMark DEF Marks
<1>13. SUFFICES ASSUME l < first PROVE first = l + 1
  BY <1>5, <1>7, <1>12 DEF Lost, LostTo
<1>14. SUFFICES ASSUME first # l + 1 PROVE FALSE
  OBVIOUS
<1>15. l + 1 \in (Start + 1)..(Start + FrameSize) /\ l + 1 < first
       /\ l \in Start..(Start + FrameSize - 1) /\ first \in (l + 1)..(Start + FrameSize)
  BY <1>3, <1>5, <1>13, <1>14, <1>6
<1>16. Laid(Start)
  BY <1>1, FrameWritten
<1>17. KindWritten(l + 1) = "event"
  <2>1. \/ KindWritten(l + 1) = "event"
        \/ \A q \in (l + 1)..(Start + FrameSize) : KindWritten(q) \notin {"event", "trailer"}
    BY <1>10, <1>15, <1>16 DEF Laid
  <2> QED BY <1>3, <1>15, <2>1
<1> DEFINE next == l + 1
<1>18. PICK m \in (next + 3)..(Start + FrameSize) : EventWritten(Start, next, m)
  BY <1>15, <1>16, <1>17 DEF Laid
<1>19. KindWritten(m) = "trailer" /\ \A q \in (next + 1)..(m - 1) : KindWritten(q) # "event"
  BY <1>18 DEF EventWritten
<1>20. m \in 1..Len(file) /\ m # l /\ m > l
  BY <1>7, <1>15, <1>18, <1>6
<1>21. file[m].kind = "trailer"
  <2>1. Written(file[m])
    BY <1>7, <1>12, <1>20, AtMostOneAltered
  <2> QED BY <1>19, <1>20, <2>1, WrittenMark DEF Marks
<1> DEFINE v == m - Start - 1
<1>22. v \in Nat /\ Start + v + 1 = m /\ v < FrameSize /\ u <= v
  BY <1>11, <1>18, <1>20, <1>6
<1> HIDE DEF v
<1>23. IsTrailer(v)
  BY <1>21, <1>22 DEF IsTrailer, InFrame, Frame, Start
<1>24. t <= v
  <2>1. SUFFICES ASSUME v < t PROVE FALSE
    BY <1>2, <1>22
  <2>2. v \in u..(t - 1)
    BY <1>2, <1>11, <1>22, <2>1
  <2> QED BY <1>11, <1>23, <2>2 DEF Found
<1>25. first \in (next + 1)..(m - 1)
  BY <1>1, <1>2, <1>3, <1>7, <1>15, <1>22, <1>24
<1> QED BY <1>3, <1>19, <1>25

\* If there is a footer, the search finds one.
LEMMA FirstFound ==
  ASSUME NEW from \in Nat, NEW to \in from..(FrameSize - 1), IsTrailer(to)
  PROVE  \E t \in from..to : Found(t, from)
<1> DEFINE S == {t \in from..to : IsTrailer(t)}
<1>1. to \in S /\ S \subseteq Int /\ S \subseteq from..to
  BY Sizes
<1>2. IsFiniteSet(S)
  <2>1. IsFiniteSet(from..to)
    BY Sizes, FS_Interval
  <2> QED BY <1>1, <2>1, SubsetOfFinite
<1>3. PICK t \in S : \A u \in S : t <= u
  <2>1. S # {}
    BY <1>1
  <2> HIDE DEF S
  <2> QED BY <1>1, <1>2, <2>1, LeastElement
<1>4. t \in from..to /\ IsTrailer(t) /\ t >= from
  BY <1>3
<1>5. ASSUME NEW u \in from..(t - 1) PROVE ~IsTrailer(u)
  <2>1. u \in from..to /\ ~(t <= u)
    BY <1>4
  <2> QED BY <1>3, <2>1
<1> QED BY <1>4, <1>5 DEF Found

\* Neither is any left in a frame that ends but those.
LEMMA LeftInFrame ==
  ASSUME Source, Inv, InStep, FrameEnds, Wanted, AsWritten(Start),
         NEW first, NEW last, WasEvent(Start, first, last), Start + head < last
  PROVE  Lost(Start, first, last)
<1>0. SUFFICES ASSUME ~Astray(Start, Start + head) PROVE Lost(Start, first, last)
  <2>1. /\ WithinFile /\ status = "unpacking" /\ Start \in Nat /\ head \in Nat /\ Laid(Start)
    <3>1. WithinFile /\ status = "unpacking"
      BY DEF Inv, FrameEnds
    <3> QED BY <3>1, FrameWritten, Positions
  <2> QED BY <2>1, <1>0, LostWhenAstray
<1> DEFINE p == Start + head + 1
<1>1. /\ status = "unpacking" /\ Start \in Nat /\ Start + FrameSize <= Len(file) /\ WithinFile
      /\ head \in Nat /\ FrameSize \in Nat /\ Len(file) \in Nat
  <2>1. WithinFile /\ status = "unpacking"
    BY DEF Inv, FrameEnds
  <2> QED BY <2>1, FrameWritten, Positions
<1>2. /\ first < last /\ first \in (Start + 1)..(Start + FrameSize)
      /\ last \in (Start + 1)..(Start + FrameSize) /\ KindWritten(last) = "trailer"
  BY DEF WasEvent
<1>3. /\ p \in Nat /\ head < FrameSize /\ KindWritten(p) = "event"
      /\ \E l \in (p + 3)..(Start + FrameSize) :
           /\ EventWritten(Start, p, l)
           /\ (first = p /\ last = l) \/ l < first
  BY <1>0, <1>1, EventAhead
<1>4. PICK l \in (p + 3)..(Start + FrameSize) :
        /\ EventWritten(Start, p, l)
        /\ (first = p /\ last = l) \/ l < first
  BY <1>3
<1>5. /\ p \in (Start + 1)..last /\ p + 2 \in (Start + 1)..last /\ l \in (Start + 1)..last
      /\ l \in 1..Len(file) /\ last \in 1..Len(file)
  BY <1>1, <1>2, <1>4
<1>6. CASE ~AtEvent
  <2>1. file[p].kind # "event"
    BY <1>3, <1>6 DEF AtEvent, InFrame, Frame, Start
  <2>2. ~Written(file[p])
    BY <1>1, <1>3, <1>5, <2>1, WrittenMark DEF Marks
  <2> QED BY <1>3, <1>5, <2>2 DEF Lost, LostTo
<1>7. CASE \E hits \in HitsAt(head + 2) :
             LET from == head + EventSize(hits) - 1
             IN  \A t \in from..(FrameSize - 1) : Found(t, from) => t # from /\ Inside(t)
  <2>1. PICK hits \in HitsAt(head + 2) :
          \A t \in (head + EventSize(hits) - 1)..(FrameSize - 1) :
            Found(t, head + EventSize(hits) - 1)
              => t # head + EventSize(hits) - 1 /\ Inside(t)
    BY <1>7
  <2>2. LostTo(p + 2, first, last)
    BY <1>4 DEF EventWritten, LostTo
  <2>3. SUFFICES ASSUME Written(file[p + 2]) PROVE Lost(Start, first, last)
    BY <1>5, <2>2 DEF Lost
  <2>4. l = Start + head + EventSize(hits) /\ KindWritten(l) = "trailer"
    BY <1>1, <1>3, <1>4, <2>3, SizeRead DEF EventWritten
  <2>5. EventSize(hits) \in Nat
    <3>1. hits \subseteq Channels
      BY <1>1, HitsAreChannels
    <3> QED BY <3>1, EventSizes
  <2> DEFINE from == head + EventSize(hits) - 1
             to   == last - Start - 1
  <2>6. /\ from \in Nat /\ from < FrameSize /\ Start + from + 1 = l
        /\ to \in from..(FrameSize - 1) /\ Start + to + 1 = last /\ to < FrameSize
    <3> PICK size \in Nat : size = EventSize(hits)
      BY <2>5
    <3>1. /\ l \in (p + 3)..(Start + FrameSize) /\ l = Start + head + size
          /\ last \in l..(Start + FrameSize)
      BY <1>1, <1>2, <1>4, <2>4
    <3> QED BY <1>1, <3>1
  <2>7. \A t \in from..(FrameSize - 1) : Found(t, from) => t # from /\ Inside(t)
    BY <2>1
  <2> HIDE DEF from, to
  <2>8. ~IsTrailer(from)
    <3>1. SUFFICES ASSUME IsTrailer(from) PROVE FALSE
      OBVIOUS
    <3>2. /\ from \in from..(FrameSize - 1) /\ from >= from
          /\ \A u \in from..(from - 1) : ~IsTrailer(u)
      BY <1>1, <2>6
    <3>3. Found(from, from)
      BY <3>1, <3>2 DEF Found
    <3> QED BY <2>7, <3>2, <3>3
  <2>9. ~Written(file[l])
    <3>1. file[l].kind # "trailer"
      BY <2>6, <2>8 DEF IsTrailer, InFrame, Frame, Start
    <3> QED BY <1>1, <1>5, <2>4, <3>1, WrittenMark DEF Marks
  <2>10. CASE last = l
    BY <1>5, <2>9, <2>10 DEF Lost, LostTo
  <2>11. CASE last # l
    <3>1. ASSUME NEW r \in (l + 1)..(Start + FrameSize), KindWritten(r) = "trailer"
          PROVE  file[r].kind = "trailer"
      <4>1. r \in 1..Len(file) /\ r # l
        BY <1>1, <1>4
      <4>2. Written(file[r])
        BY <1>5, <2>9, <4>1, AtMostOneAltered
      <4> QED BY <3>1, <4>1, <4>2, WrittenMark DEF Marks
    <3>2. IsTrailer(to)
      <4>1. last \in (l + 1)..(Start + FrameSize)
        BY <1>1, <1>2, <1>4, <2>6, <2>11
      <4>2. file[last].kind = "trailer"
        BY <1>2, <3>1, <4>1
      <4> QED BY <2>6, <4>2 DEF IsTrailer, InFrame, Frame, Start
    <3>3. PICK t \in from..to : Found(t, from)
      BY <2>6, <3>2, FirstFound
    <3>4. t # from /\ Inside(t) /\ t \in Nat /\ t < FrameSize /\ t > from
      BY <1>1, <2>6, <2>7, <3>3
    <3> DEFINE q == Start + t + 1
    <3>5. /\ q \in (l + 1)..(Start + FrameSize) /\ q \in 1..Len(file) /\ q # l /\ q <= last
          /\ q \in Int /\ q \in Nat
      BY <1>1, <2>6, <3>3, <3>4
    <3>6. file[q].kind = "trailer"
      BY <3>3 DEF Found, IsTrailer, Frame, Start
    <3>7. KindWritten(q) # "trailer" /\ LookAlike(q)
      <4>1. Written(file[q])
        BY <1>5, <2>9, <3>5, AtMostOneAltered
      <4>2. Frame(t) = file[q]
        BY DEF Frame, Start
      <4> QED BY <3>4, <3>6, <4>1, <4>2 DEF Inside, LookAlike, KindWritten, Written
    <3>8. ASSUME NEW r \in (l + 1)..q PROVE KindWritten(r) # "trailer"
      <4>1. SUFFICES ASSUME KindWritten(r) = "trailer" PROVE FALSE
        OBVIOUS
      <4> DEFINE u == r - Start - 1
      <4>2. r # q
        BY <3>7, <4>1
      <4>3. /\ u \in from..(t - 1) /\ Start + u + 1 = r /\ u < FrameSize
            /\ r \in (l + 1)..(Start + FrameSize)
        BY <1>1, <2>6, <3>4, <3>5, <4>2
      <4> HIDE DEF u
      <4>4. IsTrailer(u)
        BY <3>1, <4>1, <4>3 DEF IsTrailer, InFrame, Frame, Start
      <4> QED BY <3>3, <4>3, <4>4 DEF Found
    <3> HIDE DEF q
    <3>9. StopsAstray(l, q + 1)
      <4>1. q \in (l + 1)..((q + 1) - 1)
        BY <3>5
      <4> QED BY <2>4, <3>6, <3>7, <3>8, <4>1 DEF StopsAstray
    <3>10. Astray(Start, q) /\ q < last
      <4>1. l \in (Start + 1)..q
        BY <1>5, <1>1, <3>5
      <4>2. q # last
        BY <1>2, <3>7
      <4> QED BY <1>2, <2>9, <3>5, <3>9, <4>1, <4>2 DEF Astray
    <3>11. Laid(Start)
      BY <1>1, FrameWritten
    <3> QED BY <1>1, <3>5, <3>10, <3>11, LostWhenAstray
  <2> QED BY <2>10, <2>11
<1> QED BY <1>6, <1>7 DEF FrameEnds

LEMMA AccountedKept ==
  ASSUME file' = file, NEW start, NEW first, NEW last, Accounted(start, first, last),
         \A j \in DOMAIN events : j \in DOMAIN events' /\ events'[j] = events[j]
  PROVE  Accounted(start, first, last)'
<1>1. CASE \E j \in DOMAIN events : events[j].at = first - 1
  BY <1>1 DEF Accounted
<1>2. CASE \E p \in (start + 1)..last : ~Written(file[p]) /\ LostTo(p, first, last)
  <2>1. \A p : LostTo(p, first, last)' <=> LostTo(p, first, last)
    BY SameFile DEF LostTo
  <2> QED BY <1>2, <2>1 DEF Accounted, Written
<1> QED BY <1>1, <1>2 DEF Accounted

LEMMA SettledKept ==
  ASSUME Source, Inv, InStep, Settled, file' = file,
         \/ NewFrame \/ OldFrame \/ EventUnpacked \/ EventSkipped \/ FrameEnds
         \/ /\ UNCHANGED <<frames, head, events>>
            /\ Wanted' /\ status' \in {"reading", "read"}
                 => Wanted /\ status \in {"reading", "read"}
  PROVE  Settled'
<1>1. SUFFICES ASSUME NEW k \in DOMAIN frames', NEW start, start = frames'[k], AsWritten(start),
                      NEW first \in (start + 1)..(start + FrameSize),
                      NEW last \in (start + 1)..(start + FrameSize),
                      WasEvent(start, first, last), Through(k)' \/ last <= start + head'
               PROVE  Accounted(start, first, last)'
  BY SameFile DEF Settled
<1>2. WithinFile /\ SamplesRead /\ frames \in Seq(Nat) /\ Len(frames) \in Nat
      /\ DOMAIN frames = 1..Len(frames) /\ head \in Nat
  BY Positions DEF Inv, WithinFile
<1>3. ASSUME k \in DOMAIN frames, frames'[k] = frames[k],
             Through(k) \/ last <= start + head,
             \A j \in DOMAIN events : j \in DOMAIN events' /\ events'[j] = events[j]
      PROVE  Accounted(start, first, last)'
  <2>1. Accounted(start, first, last)
    BY <1>1, <1>3 DEF Settled
  <2> QED BY <1>3, <2>1, AccountedKept
<1>4. ASSUME NEW from \in Nat, NEW next \in Nat, Unpacks(from, next), Wanted, status = "reading"
      PROVE  Accounted(start, first, last)'
  <2>1. /\ Len(frames') = Len(frames) + 1 /\ DOMAIN frames' = 1..(Len(frames) + 1)
        /\ frames'[Len(frames) + 1] = from
        /\ \A i \in DOMAIN frames : frames'[i] = frames[i]
    BY <1>2, <1>4, FrameAppended
  <2>2. events' = events /\ head' = 0 /\ status' = "unpacking"
    BY <1>4 DEF Unpacks
  <2>3. CASE k \in DOMAIN frames
    <3>1. Through(k)
      BY <1>4 DEF Through
    <3> QED BY <1>3, <2>1, <2>2, <2>3, <3>1
  <2>4. CASE k = Len(frames) + 1
    <3>1. ~(k < Len(frames')) /\ start = from
      BY <1>1, <1>2, <2>1, <2>4
    <3>2. ~Through(k)'
      BY <2>2, <3>1 DEF Through
    <3> QED BY <1>1, <1>4, <2>2, <3>1, <3>2, Positions
  <2> QED BY <1>1, <1>2, <2>1, <2>3, <2>4
<1>5. CASE NewFrame
  <2>1. Unpacks(pos, pos + FrameSize) /\ Wanted /\ status = "reading"
    BY <1>5 DEF NewFrame, Reading
  <2> QED BY <1>2, <1>4, <2>1, Positions
<1>6. CASE OldFrame
  <2>1. Unpacks(pos + 1, pos + FrameSize + 3) /\ Wanted /\ status = "reading"
    BY <1>6 DEF OldFrame, Reading
  <2> QED BY <1>2, <1>4, <2>1, Positions
<1>7. CASE /\ UNCHANGED <<frames, head, events>>
           /\ Wanted' /\ status' \in {"reading", "read"}
                => Wanted /\ status \in {"reading", "read"}
  <2>1. Through(k) \/ last <= start + head
    BY <1>1, <1>7 DEF Through
  <2> QED BY <1>1, <1>3, <1>7, <2>1
<1>8. ASSUME frames' = frames,
             \A j \in DOMAIN events : j \in DOMAIN events' /\ events'[j] = events[j],
             start = Start /\ Start + head < last => Accounted(start, first, last)'
      PROVE  Accounted(start, first, last)'
  <2>1. k \in DOMAIN frames /\ frames'[k] = frames[k] /\ start = frames[k]
    BY <1>1, <1>8
  <2>2. CASE k < Len(frames)
    BY <1>3, <1>8, <2>1, <2>2 DEF Through
  <2>3. CASE k = Len(frames)
    <3>1. start = Start /\ start \in Nat
      BY <1>2, <2>1, <2>3 DEF Start
    <3> QED BY <1>1, <1>2, <1>3, <1>8, <2>1, <3>1
  <2> QED BY <1>2, <2>1, <2>2, <2>3
<1>9. CASE EventUnpacked
  <2>1. /\ frames' = frames /\ status' = "unpacking"
        /\ \A j \in DOMAIN events : j \in DOMAIN events' /\ events'[j] = events[j]
        /\ Start \in Nat
        /\ Len(events) + 1 \in DOMAIN events' /\ events'[Len(events) + 1].at = Start + head
    <3>1. /\ status = "unpacking" /\ UNCHANGED <<frames, status>> /\ Start \in Nat
          /\ \A j \in DOMAIN events : j \in DOMAIN events' /\ events'[j] = events[j]
          /\ Len(events) \in Nat /\ DOMAIN events' = 1..(Len(events) + 1)
      BY <1>9, EventAppended
    <3>2. \E hits \in HitsAt(head + 2) :
             events'[Len(events) + 1] = [at |-> Start + head, hits |-> hits]
      BY <1>9, EventAppended
    <3>3. events'[Len(events) + 1].at = Start + head
      BY <3>2
    <3> QED BY <3>1, <3>3
  <2>2. SUFFICES ASSUME start = Start, Start + head < last
                 PROVE  Accounted(start, first, last)'
    BY <1>8, <2>1
  <2>3. SUFFICES ASSUME last <= Start + head' PROVE Accounted(start, first, last)'
    <3>1. Through(k)' => k < Len(frames)
      BY <2>1 DEF Through
    <3>2. SUFFICES ASSUME k < Len(frames) PROVE Accounted(start, first, last)'
      BY <1>1, <2>2, <2>3, <3>1
    <3> QED BY <1>1, <1>3, <2>1, <3>2 DEF Through
  <2>4. first = Start + head + 1 \/ Lost(Start, first, last)
    BY <1>1, <1>9, <2>2, <2>3, PassedWithEvent
  <2>5. CASE first = Start + head + 1
    <3>1. events'[Len(events) + 1].at = first - 1
      BY <1>2, <2>1, <2>5
    <3> QED BY <2>1, <3>1 DEF Accounted
  <2>6. CASE Lost(Start, first, last)
    <3>1. Accounted(start, first, last)
      BY <2>2, <2>6 DEF Accounted, Lost
    <3> QED BY <2>1, <3>1, AccountedKept
  <2> QED BY <2>4, <2>5, <2>6
<1>10. CASE EventSkipped
  <2>1. frames' = frames /\ events' = events /\ status' = "unpacking"
    BY <1>10, SkippedTo
  <2>2. SUFFICES ASSUME start = Start, Start + head < last
                 PROVE  Accounted(start, first, last)'
    BY <1>8, <2>1
  <2>3. SUFFICES ASSUME last <= Start + head' PROVE Accounted(start, first, last)'
    <3>1. Through(k)' => k < Len(frames)
      BY <2>1 DEF Through
    <3>2. SUFFICES ASSUME k < Len(frames) PROVE Accounted(start, first, last)'
      BY <1>1, <2>2, <2>3, <3>1
    <3> QED BY <1>1, <1>3, <2>1, <3>2 DEF Through
  <2>4. Lost(Start, first, last)
    BY <1>1, <1>10, <2>2, <2>3, PassedWithSkipped
  <2>5. Accounted(start, first, last)
    BY <2>2, <2>4 DEF Accounted, Lost
  <2> QED BY <2>1, <2>5, AccountedKept
<1>11. CASE FrameEnds
  <2>1. UNCHANGED <<tool, frames, head, events>>
    BY <1>11 DEF FrameEnds
  <2>2. SUFFICES ASSUME start = Start, Start + head < last
                 PROVE  Accounted(start, first, last)'
    BY <1>8, <2>1
  <2>3. CASE Wanted
    <3>1. Lost(Start, first, last)
      BY <1>1, <1>11, <2>2, <2>3, LeftInFrame
    <3>2. Accounted(start, first, last)
      BY <2>2, <3>1 DEF Accounted, Lost
    <3> QED BY <2>1, <3>2, AccountedKept
  <2>4. CASE ~Wanted
    <3>1. ~Wanted'
      BY <2>1, <2>4 DEF Wanted
    <3>2. Through(k) \/ last <= start + head
      BY <1>1, <2>1, <3>1 DEF Through
    <3> QED BY <1>1, <1>3, <2>1, <3>2
  <2> QED BY <2>3, <2>4
<1> QED BY <1>5, <1>6, <1>7, <1>9, <1>10, <1>11

-----------------------------------------------------------------------------
(* Valid events.                                                             *)

LEMMA GenuineInFrame ==
  ASSUME Source, WithinFile, status = "unpacking", AsWritten(Start),
         NEW p, p = Start + head + 1, KindWritten(p) = "event",
         NEW hits \in HitsAt(head + 2), NEW t \in Nat, t = head + EventSize(hits) - 1,
         Found(t, t)
  PROVE  Genuine(p, Start + t + 1)
<1> DEFINE last == Start + t + 1
<1>1. t < FrameSize
  BY DEF Found, IsTrailer, InFrame
<1>2. /\ Start \in Nat /\ head \in Nat /\ FrameSize \in Nat /\ Start + FrameSize <= Len(file)
      /\ Laid(Start)
  BY FrameWritten, Positions
<1>3. /\ p \in Nat /\ last \in Nat /\ p \in (Start + 1)..(Start + FrameSize)
      /\ last <= Start + FrameSize /\ Start + 1 <= p /\ p < last
  <2>1. EventSize(hits) \in Nat /\ EventSize(hits) >= 4
    <3>1. hits \subseteq Channels
      BY <1>2, HitsAreChannels
    <3> QED BY <3>1, EventSizes
  <2>2. head < t
    <3> PICK size \in Nat : size = EventSize(hits)
      BY <2>1
    <3>1. size >= 4 /\ t = head + size - 1
      BY <2>1
    <3> QED BY <1>2, <3>1
  <2>3. head + 1 \in 1..FrameSize /\ t + 1 \in 1..FrameSize
    BY <1>1, <1>2, <2>2
  <2> QED BY <1>2, <2>2, <2>3
<1> HIDE DEF last
<1>4. Unbroken(p, last)
  <2>1. Unbroken(Start + 1, Start + FrameSize)
    BY DEF AsWritten
  <2>2. /\ Start + 1 \in Int /\ Start + FrameSize \in Int /\ p \in Int /\ last \in Int
        /\ Start + 1 <= p /\ last <= Start + FrameSize
    BY <1>2, <1>3
  <2> QED BY <2>1, <2>2, UnbrokenWithin
<1>5. ASSUME Written(file[p + 2])
      PROVE  \A q \in p..last : /\ KindWritten(q) = "event" <=> q = p
                                /\ KindWritten(q) = "trailer" <=> q = last
  <2>1. PICK l \in (p + 3)..(Start + FrameSize) : EventWritten(Start, p, l)
    BY <1>2, <1>3 DEF Laid
  <2>2. l = Start + head + EventSize(hits)
    BY <1>3, <1>5, <2>1, SizeRead
  <2>3. EventSize(hits) \in Nat
    <3>1. hits \subseteq Channels
      BY <1>2, HitsAreChannels
    <3> QED BY <3>1, EventSizes
  <2>4. l = last
    <3>1. Start + head + EventSize(hits) = Start + t + 1
      BY <1>2, <2>3, SameEnd
    <3> QED BY <2>2, <3>1 DEF last
  <2>5. /\ KindWritten(last) = "trailer"
        /\ \A q \in (p + 1)..(last - 1) : KindWritten(q) \notin {"event", "trailer"}
    BY <2>1, <2>4 DEF EventWritten
  <2>6. \A q \in p..last : q = p \/ q = last \/ q \in (p + 1)..(last - 1)
    BY <1>3
  <2> QED BY <1>3, <2>5, <2>6
<1> QED BY <1>4, <1>5 DEF Genuine, last

\* Each event of a file lies within one of its records.
LEMMA EventInFile ==
  ASSUME NEW f \in Seq(Cells), IsOldFile(f) \/ IsNewFile(f), NEW q \in 1..Len(f),
         f[q].role = "event"
  PROVE  \E end \in 0..Len(f) :
           /\ IsEvent(f, q, end)
           /\ \A r \in q..end : f[r].record = f[q].record /\ f[r].index = f[q].index + (r - q)
<1>1. ASSUME NEW s \in Nat, NEW start \in Int, s + FrameSize <= Len(f), IsFrame(f, s),
             q \in (s + 1)..(s + FrameSize), start <= q,
             \A r \in start..(s + FrameSize) :
               f[r].record = f[start].record /\ f[r].index = r - start + 1
      PROVE  \E end \in 0..Len(f) :
               /\ IsEvent(f, q, end)
               /\ \A r \in q..end : f[r].record = f[q].record /\ f[r].index = f[q].index + (r - q)
  <2> DEFINE end == s + FrameSize
  <2>1. IsEvent(f, q, end)
    BY <1>1, EventOfFrame
  <2>2. end \in 0..Len(f) /\ q \in start..end /\ q \in Int /\ end \in Int
    BY <1>1, Sizes
  <2> HIDE DEF end
  <2>3. \A r \in start..end : f[r].record = f[start].record /\ f[r].index = r - start + 1
    BY <1>1 DEF end
  <2>4. ASSUME NEW r \in q..end
        PROVE  f[r].record = f[q].record /\ f[r].index = f[q].index + (r - q)
    <3>1. r \in start..end
      BY <2>2
    <3>2. f[r].record = f[start].record /\ f[r].index = r - start + 1
      BY <2>3, <3>1
    <3>3. f[q].record = f[start].record /\ f[q].index = q - start + 1
      BY <2>2, <2>3
    <3>4. r - start + 1 = (q - start + 1) + (r - q)
      BY <1>1, <2>2
    <3> QED BY <3>2, <3>3, <3>4
  <2> QED BY <2>1, <2>2, <2>4
<1>2. CASE IsNewFile(f)
  <2>1. PICK p \in 1..q : IsNewRecord(f, p) /\ q <= p + FrameSize - 1
    BY <1>2 DEF IsNewFile
  <2> DEFINE s == p - 1
  <2>2. /\ IsFrame(f, s) /\ p + FrameSize - 1 <= Len(f)
        /\ \A r \in p..(p + FrameSize - 1) : f[r].record = f[p].record /\ f[r].index = r - p + 1
    BY <2>1 DEF IsNewRecord, IsRecord
  <2>3. /\ s \in Nat /\ s + FrameSize = p + FrameSize - 1 /\ q \in (s + 1)..(s + FrameSize)
        /\ p <= q /\ p \in Int
    BY <2>1, Sizes
  <2> HIDE DEF s
  <2> QED BY <1>1, <2>2, <2>3
<1>3. CASE IsOldFile(f)
  <2>1. PICK p \in 1..q : \/ IsDataRecord(f, p) /\ q <= p + FrameSize + 2
                          \/ IsHkRecord(f, p) /\ q <= p + HkSize
    BY <1>3 DEF IsOldFile
  <2>2. p \in Nat \ {0}
    OBVIOUS
  <2>3. CASE IsHkRecord(f, p) /\ q <= p + HkSize
    <3>1. q \in p..(p + HkSize)
      BY <2>3, Sizes
    <3>2. f[q].role \in {"hk", "hkword"}
      BY <2>2, <2>3, <3>1, KindsOfHkRecord
    <3> QED BY <3>2
  <2>4. CASE IsDataRecord(f, p) /\ q <= p + FrameSize + 2
    <3>1. q \in p..(p + FrameSize + 2)
      BY <2>4, Sizes
    <3>2. /\ p + FrameSize + 2 <= Len(f)
          /\ \/ q = p /\ f[q].role = "data"
             \/ q \in (p + 1)..(p + FrameSize) /\ f[q].role \in EventKinds \union {"fill"}
             \/ q = p + FrameSize + 1 /\ f[q].role = "time"
             \/ q = p + FrameSize + 2 /\ f[q].role = "foot"
      BY <2>2, <2>4, <3>1, CellOfDataRecord
    <3>3. q \in (p + 1)..(p + FrameSize)
      BY <3>2
    <3>4. \A r \in p..(p + FrameSize + 2) :
            f[r].record = f[p].record /\ f[r].index = r - p + 1
      BY <2>2, <2>4, CellOfDataRecord
    <3>5. \A r \in p..(p + FrameSize) : r \in p..(p + FrameSize + 2)
      BY Sizes
    <3>6. IsFrame(f, p) /\ p \in Nat /\ p \in Int /\ p + FrameSize <= Len(f) /\ p <= q
      BY <2>4, <3>2, Sizes DEF IsDataRecord
    <3> QED BY <1>1, <3>3, <3>4, <3>5, <3>6
  <2> QED BY <2>1, <2>3, <2>4
<1> QED BY <1>2, <1>3

\* A file read in the wrong format has lost its beginning, or its first cell is
\* the altered one: all others are as they were.
LEMMA MisreadCells ==
  ASSUME Source, Misread, NEW f, NEW n, NEW lost, NEW x, Remains(f, n, lost, x)
  PROVE  \E d \in Nat : \A q \in 1..Len(file) :
           /\ q + d \in 1..Len(f) /\ file[q].record = f[q + d].record
           /\ file[q].index = f[q + d].index /\ KindWritten(q) = f[q + d].role
           /\ Written(file[q]) => file[q] = f[q + d]
           /\ q # 1 => Written(file[q])
<1>1. /\ f \in Seq(Cells) /\ (IsOldFile(f) \/ IsNewFile(f)) /\ n \in Nat /\ lost \in Nat
      /\ Len(file) \in Nat /\ Len(f) \in Nat /\ (lost # 0 => x = 0) /\ 1 \in 1..Len(file)
      /\ ~IsOldFormat
      /\ file[1].index # 1 \/ KindWritten(1) \in {"data", "hk"}
  <2>1. /\ f \in Seq(Cells) /\ (IsOldFile(f) \/ IsNewFile(f)) /\ n \in Nat /\ lost \in Nat
        /\ file \in Seq(Cells) /\ (lost # 0 => x = 0)
    BY Sizes DEF Remains
  <2>2. file # <<>> /\ ~IsOldFormat /\ (file[1].index # 1 \/ KindWritten(1) \in {"data", "hk"})
    BY DEF Misread
  <2> QED BY <2>1, <2>2
<1> DEFINE o == Origin(1, n, lost)
<1>2. /\ o \in 1..Len(f) /\ file[1].index = f[o].index
      /\ 1 # x => Written(file[1]) /\ file[1] = f[o]
      /\ 1 = x => o = 1
      /\ Written(file[1]) /\ KindWritten(1) \in Marks => file[1].kind = KindWritten(1)
  BY <1>1, CellLeft
<1>3. f[1].index = 1
  <2>1. 1 \in 1..Len(f) /\ 1 \in DOMAIN f
    BY <1>1, <1>2
  <2>2. PICK p \in 1..1 : IsDataRecord(f, p) \/ IsHkRecord(f, p) \/ IsNewRecord(f, p)
    BY <1>1, <2>1 DEF IsOldFile, IsNewFile
  <2>3. p = 1
    OBVIOUS
  <2>4. CASE IsNewRecord(f, p)
    <3>1. \A r \in 1..(1 + FrameSize - 1) : f[r].index = r - 1 + 1
      BY <2>3, <2>4 DEF IsNewRecord, IsRecord
    <3>2. 1 \in 1..(1 + FrameSize - 1) /\ 1 - 1 + 1 = 1
      BY Sizes
    <3> QED BY <3>1, <3>2
  <2>5. CASE IsDataRecord(f, p)
    <3>1. \A r \in 1..(1 + (FrameSize + 3) - 1) : f[r].index = r - 1 + 1
      BY <2>3, <2>5 DEF IsDataRecord, IsRecord
    <3>2. 1 \in 1..(1 + (FrameSize + 3) - 1) /\ 1 - 1 + 1 = 1
      BY Sizes
    <3> QED BY <3>1, <3>2
  <2>6. CASE IsHkRecord(f, p)
    <3>1. \A r \in 1..(1 + (HkSize + 1) - 1) : f[r].index = r - 1 + 1
      BY <2>3, <2>6 DEF IsHkRecord, IsRecord
    <3>2. 1 \in 1..(1 + (HkSize + 1) - 1) /\ 1 - 1 + 1 = 1
      BY Sizes
    <3> QED BY <3>1, <3>2
  <2> QED BY <2>2, <2>4, <2>5, <2>6
<1>4. (n = 0 /\ lost # 0) \/ x = 1
  <2>1. CASE file[1].index # 1
    <3>1. o # 1
      BY <1>2, <1>3, <2>1
    <3> QED BY <1>1, <3>1 DEF Origin
  <2>2. CASE KindWritten(1) \in {"data", "hk"}
    <3>1. file[1].kind \notin {"data", "hk"}
      BY <1>1 DEF IsOldFormat
    <3>2. ~Written(file[1])
      BY <1>2, <2>2, <3>1 DEF Marks
    <3> QED BY <1>2, <3>2
  <2> QED BY <1>1, <2>1, <2>2
<1> DEFINE d == lost
<1>5. d \in Nat /\ (x = 1 \/ x = 0) /\ \A q \in 1..Len(file) : Origin(q, n, lost) = q + d
  BY <1>1, <1>4 DEF Origin
<1>6. ASSUME NEW q \in 1..Len(file)
      PROVE  /\ q + d \in 1..Len(f) /\ file[q].record = f[q + d].record
             /\ file[q].index = f[q + d].index /\ KindWritten(q) = f[q + d].role
             /\ Written(file[q]) => file[q] = f[q + d]
             /\ q # 1 => Written(file[q])
  <2> DEFINE e == q + d
  <2>1. Origin(q, n, lost) = e
    BY <1>5
  <2> HIDE DEF e, d
  <2>2. /\ e \in 1..Len(f) /\ file[q].record = f[e].record /\ file[q].index = f[e].index
        /\ KindWritten(q) = f[e].role
        /\ q # x => Written(file[q]) /\ file[q] = f[e]
        /\ q = x => ~Written(file[q])
    BY <2>1, CellLeft
  <2>3. q # 1 => q # x
    BY <1>5
  <2> QED BY <2>2, <2>3 DEF e
<1> QED BY <1>5, <1>6

LEMMA GenuineMisread ==
  ASSUME Source, WithinFile, status = "unpacking", Misread,
         NEW p, p = Start + head + 1, KindWritten(p) = "event",
         NEW hits \in HitsAt(head + 2), NEW t \in Nat, t = head + EventSize(hits) - 1,
         Found(t, t)
  PROVE  Genuine(p, Start + t + 1)
<1> DEFINE last == Start + t + 1
<1>1. /\ Start \in Nat /\ head \in Nat /\ FrameSize \in Nat /\ Len(file) \in Nat
      /\ Start + FrameSize <= Len(file)
  BY FrameWritten, Positions
<1>2. hits \subseteq Channels
  BY <1>1, HitsAreChannels
<1>3. EventSize(hits) \in Nat /\ EventSize(hits) >= 4
  BY <1>2, EventSizes
<1>4. t < FrameSize
  BY DEF Found, IsTrailer, InFrame
<1>5. /\ p \in Nat /\ last \in Nat /\ p \in 1..Len(file) /\ last \in 1..Len(file)
      /\ p + 2 \in 1..Len(file) /\ p + 2 # 1 /\ p < last
      /\ head + 2 < FrameSize /\ Start + (head + 2) + 1 = p + 2
      /\ last = p + EventSize(hits) - 1
  BY <1>1, <1>3, <1>4, EventSpan, SMTT(30)
<1> HIDE DEF last
<1>6. PICK f, n, lost, x : Remains(f, n, lost, x)
  BY OneDamage
<1>7. PICK d \in Nat : \A q \in 1..Len(file) :
        /\ q + d \in 1..Len(f) /\ file[q].record = f[q + d].record
        /\ file[q].index = f[q + d].index /\ KindWritten(q) = f[q + d].role
        /\ Written(file[q]) => file[q] = f[q + d]
        /\ q # 1 => Written(file[q])
  BY <1>6, MisreadCells
<1> DEFINE first == p + d
<1>8. first \in 1..Len(f) /\ f[first].role = "event" /\ f \in Seq(Cells) /\ Len(f) \in Nat
      /\ (IsOldFile(f) \/ IsNewFile(f)) /\ first \in Nat \ {0} /\ first = p + d
  <2>1. /\ f \in Seq(Cells) /\ (IsOldFile(f) \/ IsNewFile(f))
    BY <1>6 DEF Remains
  <2>2. first \in 1..Len(f) /\ f[first].role = "event"
    BY <1>4, <1>5, <1>7
  <2> QED BY <1>5, <2>1, <2>2, SMTT(30)
<1>9. file[p + 2] = f[first + 2]
  <2> DEFINE flags == p + 2
  <2>1. flags \in 1..Len(file) /\ flags # 1 /\ flags + d = first + 2
    BY <1>5
  <2> HIDE DEF flags, first
  <2>2. file[flags] = f[flags + d]
    BY <1>7, <2>1
  <2> QED BY <2>1, <2>2 DEF flags
<1> HIDE DEF first
<1>10. PICK end \in 0..Len(f) :
         /\ IsEvent(f, first, end)
         /\ \A r \in first..end :
              f[r].record = f[first].record /\ f[r].index = f[first].index + (r - first)
  BY <1>8, EventInFile
<1>11. /\ LastOf(f, first) \in (first + 3)..end
       /\ f[first].role = "event" /\ f[first + 2].role = "hits" /\ f[LastOf(f, first)].role = "trailer"
       /\ \A q \in (first + 1)..(LastOf(f, first) - 1) :
            f[q].role \in EventKinds \ {"event", "trailer"}
  BY <1>8, <1>10, EventBounds
<1>12. hits = f[first + 2].hits
  <2>1. Frame(head + 2) = file[p + 2] /\ InFrame(head + 2)
    BY <1>5 DEF Frame, InFrame, Start
  <2>2. Frame(head + 2).role = "hits"
    BY <1>9, <1>11, <2>1
  <2>3. hits = Frame(head + 2).hits
    BY <2>1, <2>2 DEF HitsAt
  <2> QED BY <1>9, <2>1, <2>3
<1>13. LastOf(f, first) = last + d
  <2>1. LastOf(f, first) = first + EventSize(hits) - 1
    BY <1>12 DEF LastOf
  <2> PICK size \in Nat : size = EventSize(hits)
    BY <1>3
  <2>2. /\ LastOf(f, first) = first + size - 1 /\ last = p + size - 1
        /\ first = p + d /\ p \in Nat
    BY <1>5, <1>8, <2>1
  <2> QED BY <2>2
<1>14. /\ p \in Nat /\ last \in Nat /\ d \in Nat /\ first = p + d /\ end \in Int
       /\ last + d <= end /\ LastOf(f, first) = last + d /\ p < last
       /\ p >= 1 /\ last <= Len(file) /\ Len(file) \in Nat
  <2>1. last + d <= end /\ end \in Int
    BY <1>8, <1>11, <1>13
  <2>2. p >= 1 /\ last <= Len(file) /\ Len(file) \in Nat
    BY <1>1, <1>5
  <2> QED BY <1>5, <1>8, <1>13, <2>1, <2>2
<1>15. ASSUME NEW q \in p..last
       PROVE  /\ q \in 1..Len(file) /\ q + d \in first..end
              /\ file[q].record = f[first].record
              /\ file[q].index = f[first].index + (q - p)
              /\ KindWritten(q) = f[q + d].role
  <2>1. q \in 1..Len(file) /\ q + d \in first..end /\ (q + d) - first = q - p
    <3>1. q \in Int /\ p <= q /\ q <= last
      BY <1>14
    <3>2. q \in 1..Len(file)
      BY <1>14, <3>1
    <3>3. q + d \in Int /\ first <= q + d /\ q + d <= last + d /\ q + d <= end
      BY <1>14, <3>1, SMTT(30)
    <3>4. (q + d) - first = q - p /\ first \in Int
      BY <1>14, <3>1
    <3> QED BY <1>14, <3>2, <3>3, <3>4
  <2>2. /\ file[q].record = f[q + d].record /\ file[q].index = f[q + d].index
        /\ KindWritten(q) = f[q + d].role
    BY <1>7, <2>1
  <2>3. f[q + d].record = f[first].record /\ f[q + d].index = f[first].index + ((q + d) - first)
    BY <1>10, <2>1
  <2> QED BY <2>1, <2>2, <2>3
<1>16. Unbroken(p, last)
  <2>1. f[first].index \in Int
    <3>1. f[first] \in Cells
      BY <1>8
    <3> QED BY <3>1 DEF Cells
  <2>2. ASSUME NEW q \in p..(last - 1)
        PROVE  file[q + 1].record = file[q].record /\ file[q + 1].index = file[q].index + 1
    <3>1. q \in p..last /\ q + 1 \in p..last
      BY <1>5
    <3>2. file[q].record = f[first].record /\ file[q].index = f[first].index + (q - p)
      BY <1>15, <3>1
    <3>3. file[q + 1].record = f[first].record /\ file[q + 1].index = f[first].index + (q + 1 - p)
      BY <1>15, <3>1
    <3>4. f[first].index + (q + 1 - p) = (f[first].index + (q - p)) + 1
      <4>1. q \in Int /\ p \in Int
        BY <1>14
      <4> QED BY <2>1, <4>1, NextIndex
    <3> QED BY <3>2, <3>3, <3>4
  <2> QED BY <2>2 DEF Unbroken
<1>17. ASSUME NEW q \in p..last
       PROVE  /\ KindWritten(q) = "event" <=> q = p
              /\ KindWritten(q) = "trailer" <=> q = last
  <2>1. KindWritten(q) = f[q + d].role
    BY <1>15
  <2>2. CASE q = p
    <3>1. q + d = first /\ q # last
      BY <1>5, <1>8, <2>2
    <3> QED BY <1>11, <2>1, <2>2, <3>1
  <2>3. CASE q = last
    <3>1. q + d = LastOf(f, first) /\ q # p
      BY <1>5, <1>13, <2>3
    <3> QED BY <1>11, <2>1, <2>3, <3>1
  <2>4. CASE q # p /\ q # last
    <3>1. q + d \in (first + 1)..(LastOf(f, first) - 1)
      <4>1. q \in Int /\ p < q /\ q < last
        BY <1>14, <2>4
      <4>2. q + d \in Int /\ first + 1 <= q + d /\ q + d <= last + d - 1
        BY <1>14, <4>1
      <4> QED BY <1>14, <4>2
    <3>2. f[q + d].role \in EventKinds \ {"event", "trailer"}
      BY <1>11, <3>1
    <3> QED BY <2>1, <2>4, <3>2
  <2> QED BY <2>2, <2>3, <2>4
<1> QED BY <1>16, <1>17 DEF Genuine, last

\* What is taken for an event although it was not written as one has damage
\* before it.
LEMMA NoEventBehindDamage ==
  ASSUME Source, WithinFile, InStep, status = "unpacking", AsWritten(Start), AtEvent,
         NEW p, p = Start + head + 1, KindWritten(p) # "event"
  PROVE  \E r \in (Start + 1)..p : ~Written(file[r])
<1>1. Start \in Nat /\ head \in Nat /\ head < FrameSize /\ file[p].kind = "event"
  <2>1. file[Start + head + 1].kind = "event" /\ head < FrameSize
    BY DEF AtEvent, InFrame, Frame, Start
  <2> QED BY <2>1, FrameWritten, Positions
<1>2. CASE Astray(Start, Start + head)
  <2>1. PICK r \in (Start + 1)..(Start + head) : ~Written(file[r])
    BY <1>2 DEF Astray
  <2>2. r \in (Start + 1)..p
    BY <1>1, <2>1
  <2> QED BY <2>1, <2>2
<1>3. CASE ~Astray(Start, Start + head)
  <2>1. ~Written(file[p])
    BY <1>1, <1>3, EventOrNone
  <2>2. p \in (Start + 1)..p
    BY <1>1
  <2> QED BY <2>1, <2>2
<1> QED BY <1>2, <1>3

\* What EventsGenuine says of an event from first to last in the frame behind s.
Valid(s, first, last) ==
  /\ first > s /\ last <= s + FrameSize
  /\ Written(file[last]) => KindWritten(last) = "trailer" \/ LookAlike(last)
  /\ KindWritten(first) = "event" => (Misread \/ AsWritten(s) => Genuine(first, last))
  /\ KindWritten(first) # "event" /\ AsWritten(s) =>
       \E r \in (s + 1)..first : ~Written(file[r])

LEMMA EventsAreValid ==
  EventsGenuine <=>
    \A k \in DOMAIN events : \E j \in DOMAIN frames :
      Valid(frames[j], events[k].at + 1, events[k].at + EventSize(events[k].hits))
BY DEF EventsGenuine, Valid

LEMMA UnpackedIsValid ==
  ASSUME Inv, Source, InStep, status = "unpacking", AtEvent,
         NEW hits \in HitsAt(head + 2), NEW t \in Nat, t = head + EventSize(hits) - 1,
         Found(t, t), NEW p, p = Start + head + 1, NEW last, last = Start + t + 1
  PROVE  Valid(Start, p, last)
<1>1. WithinFile /\ Start \in Nat /\ head \in Nat /\ FrameSize \in Nat /\ Len(file) \in Nat
  <2>1. WithinFile
    BY DEF Inv
  <2> QED BY <2>1, FrameWritten, Positions
<1>2. t < FrameSize /\ file[last].kind = "trailer"
  BY DEF Found, IsTrailer, InFrame, Frame, Start
<1>3. p > Start /\ last <= Start + FrameSize
  BY <1>1, <1>2
<1>4. Written(file[last]) => KindWritten(last) = "trailer" \/ LookAlike(last)
  BY <1>2 DEF LookAlike, KindWritten
<1>5. KindWritten(p) = "event" => (Misread \/ AsWritten(Start) => Genuine(p, last))
  BY <1>1, GenuineInFrame, GenuineMisread
<1>6. KindWritten(p) # "event" /\ AsWritten(Start) =>
        \E r \in (Start + 1)..p : ~Written(file[r])
  BY <1>1, NoEventBehindDamage
<1> QED BY <1>3, <1>4, <1>5, <1>6 DEF Valid

LEMMA EventsGenuineKept ==
  ASSUME Source, Inv, InStep, EventsGenuine, file' = file,
         \/ EventUnpacked
         \/ events' = events /\ \A j \in DOMAIN frames : j \in DOMAIN frames' /\ frames'[j] = frames[j]
  PROVE  EventsGenuine'
<1>1. \A k \in DOMAIN events : \E j \in DOMAIN frames :
        Valid(frames[j], events[k].at + 1, events[k].at + EventSize(events[k].hits))
  BY EventsAreValid
<1>2. \A s, p, q : Valid(s, p, q)' <=> Valid(s, p, q)
  <2>1. \A p, q : Genuine(p, q)' <=> Genuine(p, q)
    BY SameFile DEF Genuine
  <2> QED BY <2>1, SameFile DEF Valid
<1>3. SUFFICES ASSUME NEW k \in DOMAIN events'
               PROVE  \E j \in DOMAIN frames' :
                        Valid(frames'[j], events'[k].at + 1, events'[k].at + EventSize(events'[k].hits))
  <2>1. \A k \in DOMAIN events' : \E j \in DOMAIN frames' :
          Valid(frames[j], events[k].at + 1, events[k].at + EventSize(events[k].hits))'
    BY <1>2, <1>3
  <2> QED BY <2>1 DEF EventsGenuine, Valid
<1>4. CASE events' = events /\ \A j \in DOMAIN frames : j \in DOMAIN frames' /\ frames'[j] = frames[j]
  BY <1>1, <1>3, <1>4
<1>5. CASE EventUnpacked
  <2>1. /\ status = "unpacking" /\ AtEvent /\ frames # <<>> /\ frames' = frames
        /\ Len(events) \in Nat /\ DOMAIN events = 1..Len(events)
        /\ DOMAIN events' = 1..(Len(events) + 1)
        /\ \A j \in DOMAIN events : j \in DOMAIN events' /\ events'[j] = events[j]
    BY <1>5, EventAppended
  <2>2. PICK hits \in HitsAt(head + 2) :
          /\ events'[Len(events) + 1] = [at |-> Start + head, hits |-> hits]
          /\ EventSize(hits) \in Nat /\ EventSize(hits) >= 4
          /\ Found(head + EventSize(hits) - 1, head + EventSize(hits) - 1)
    BY <1>5, EventAppended
  <2>3. CASE k \in DOMAIN events
    BY <1>1, <2>1, <2>3
  <2>4. CASE k = Len(events) + 1
    <3>1. events'[k].at = Start + head /\ events'[k].hits = hits
      BY <2>2, <2>4
    <3> DEFINE t     == head + EventSize(hits) - 1
               first == Start + head + 1
               last  == Start + t + 1
    <3>2. /\ t \in Nat /\ Found(t, t)
          /\ events'[k].at + 1 = first /\ events'[k].at + EventSize(events'[k].hits) = last
      <4>1. WithinFile
        BY DEF Inv
      <4>2. Start \in Nat /\ head \in Nat
        BY <2>1, <4>1, FrameWritten, Positions
      <4> QED BY <2>2, <3>1, <4>2
    <3>3. Valid(Start, first, last)
      <4> HIDE DEF t
      <4>1. t = head + EventSize(hits) - 1
        BY DEF t
      <4> QED BY <2>1, <3>2, <4>1, UnpackedIsValid
    <3>4. Len(frames) \in DOMAIN frames' /\ frames'[Len(frames)] = Start
      BY <2>1 DEF Inv, WithinFile, Start
    <3> QED BY <3>2, <3>3, <3>4
  <2> QED BY <1>3, <2>1, <2>3, <2>4
<1> QED BY <1>4, <1>5

-----------------------------------------------------------------------------
(* Invariance.                                                               *)

LEMMA InitiallyRead == Init => RawInv
<1>1. SUFFICES ASSUME Init PROVE RawInv
  OBVIOUS
<1>2. /\ Source /\ frames = <<>> /\ events = <<>> /\ pos = 0 /\ head = 0 /\ status = "reading"
  BY <1>1 DEF Init, RawInit, Source
<1>3. DOMAIN frames = {} /\ DOMAIN events = {} /\ 1..pos = {}
  BY <1>2
<1>4. BetweenMarks /\ NonePassed /\ Place /\ InStep /\ Settled
  BY <1>2, <1>3 DEF BetweenMarks, NonePassed, Place, InStep, Settled
<1>5. IntactFramesReturned /\ EventsGenuine /\ GivesUpOnlyOnDamage
  BY <1>2, <1>3 DEF IntactFramesReturned, Over, EventsGenuine, GivesUpOnlyOnDamage
<1>6. FrameByFrame
  <2>1. SUFFICES ASSUME ~Misread, ~IsOldFormat, pos < Len(file) PROVE file[pos + 1].index = 1
    BY <1>3 DEF FrameByFrame
  <2>2. pos + 1 = 1 /\ file # <<>>
    BY <1>2, <2>1
  <2> QED BY <2>1, <2>2 DEF Misread
<1> QED BY <1>2, <1>4, <1>5, <1>6 DEF RawInv, Kept

\* Each step keeps each part, under the conditions its lemma names.
LEMMA KeptBy ==
  ASSUME Inv, RawInv, file' = file,
         \/ NewFrame \/ OldFrame \/ HkSkipped \/ Resynchronised
         \/ UNCHANGED <<pos, frames, skipped>>,
         NewFrame \/ OldFrame \/ frames' = frames,
         NewFrame \/ IsOldFormat \/ UNCHANGED <<pos, frames>>,
         \/ NewFrame \/ OldFrame \/ HkSkipped \/ Resynchronised
         \/ EventUnpacked \/ EventSkipped
         \/ UNCHANGED <<pos, frames, head, events>>,
         \/ EventUnpacked \/ EventSkipped \/ head' = 0 \/ status' # "unpacking"
         \/ UNCHANGED <<frames, head, status>>,
         \/ NewFrame \/ OldFrame \/ EventUnpacked \/ EventSkipped \/ FrameEnds
         \/ /\ UNCHANGED <<frames, head, events>>
            /\ Wanted' /\ status' \in {"reading", "read"}
                 => Wanted /\ status \in {"reading", "read"},
         ReadingEnds \/ status' # "read" \/ UNCHANGED <<tool, frames, skipped, events, status>>,
         EventUnpacked \/ events' = events,
         HeaderCutOff \/ status' # "failed" \/ UNCHANGED <<frames, status>>
  PROVE  RawInv'
<1>1. /\ Source /\ WithinFile
      /\ BetweenMarks /\ FrameByFrame /\ NonePassed /\ Place /\ InStep /\ Settled
      /\ IntactFramesReturned /\ EventsGenuine /\ GivesUpOnlyOnDamage
  BY DEF RawInv, Kept, Inv
<1>2. Source'
  BY <1>1 DEF Source
<1>3. BetweenMarks'
  BY <1>1, BetweenMarksKept
<1>4. FrameByFrame'
  BY <1>1, FrameByFrameKept
<1>5. NonePassed'
  BY <1>1, NonePassedKept
<1>6. Place'
  BY <1>1, PlaceKept
<1>7. InStep'
  BY <1>1, InStepKept
<1>8. Settled'
  BY <1>1, SettledKept
<1>9. IntactFramesReturned'
  BY <1>1, IntactFramesReturnedKept
<1>10. EventsGenuine'
  <2>1. \A j \in DOMAIN frames : j \in DOMAIN frames' /\ frames'[j] = frames[j]
    <3>1. NewFrame => Unpacks(pos, pos + FrameSize) /\ pos \in Nat
      BY <1>1, Positions DEF NewFrame
    <3>2. OldFrame => Unpacks(pos + 1, pos + FrameSize + 3) /\ pos + 1 \in Nat
      BY <1>1, Positions DEF OldFrame
    <3>3. /\ Len(frames) \in Nat /\ DOMAIN frames = 1..Len(frames)
      BY <1>1 DEF WithinFile
    <3>4. pos + FrameSize \in Nat /\ pos + FrameSize + 3 \in Nat
      BY <1>1, Positions
    <3>5. NewFrame \/ OldFrame => \A j \in DOMAIN frames : j \in DOMAIN frames' /\ frames'[j] = frames[j]
      BY <1>1, <3>1, <3>2, <3>3, <3>4, FrameAppended
    <3> QED BY <3>5
  <2> QED BY <1>1, <2>1, EventsGenuineKept
<1>11. GivesUpOnlyOnDamage'
  BY <1>1, GivesUpKept
<1> QED BY <1>2, <1>3, <1>4, <1>5, <1>6, <1>7, <1>8, <1>9, <1>10, <1>11 DEF RawInv, Kept

LEMMA RawStepKept ==
  ASSUME Inv, RawInv, RawStep
  PROVE  RawInv'
<1>1. CASE NewFrame
  <2>1. UNCHANGED <<file, tool, events>> /\ head' = 0 /\ status' = "unpacking"
    BY <1>1 DEF NewFrame, Unpacks
  <2> QED BY <1>1, <2>1, KeptBy
<1>2. CASE OldFrame
  <2>1. /\ UNCHANGED <<file, tool, events>> /\ head' = 0 /\ status' = "unpacking" /\ IsOldFormat
    BY <1>2 DEF OldFrame, Unpacks
  <2> QED BY <1>2, <2>1, KeptBy
<1>3. ASSUME HkSkipped \/ Resynchronised PROVE RawInv'
  <2>1. /\ UNCHANGED <<tool, file, frames, head, events, status>> /\ IsOldFormat
        /\ status = "reading" /\ Wanted
    BY <1>3 DEF HkSkipped, Resynchronised, MovesOn, Moves, Reading
  <2> QED BY <1>3, <2>1, KeptBy
<1>4. CASE ReadingEnds
  <2>1. /\ UNCHANGED <<tool, file, pos, frames, skipped, head, events>>
        /\ status = "reading" /\ status' = "read"
    BY <1>4 DEF ReadingEnds
  <2>2. Wanted' => Wanted
    BY <2>1 DEF Wanted
  <2> QED BY <1>4, <2>1, <2>2, KeptBy
<1>5. CASE EventUnpacked
  <2>1. UNCHANGED <<file, tool, pos, frames, skipped, status>> /\ status = "unpacking"
    BY <1>5 DEF EventUnpacked, AtWholeHeader, Unpacking, Continues
  <2> QED BY <1>5, <2>1, KeptBy
<1>6. CASE EventSkipped
  <2>1. UNCHANGED <<file, tool, pos, frames, skipped, events, status>> /\ status = "unpacking"
    BY <1>6 DEF EventSkipped, AtWholeHeader, Unpacking, Continues
  <2> QED BY <1>6, <2>1, KeptBy
<1>7. CASE FrameEnds
  <2>1. UNCHANGED <<file, tool, pos, frames, skipped, head, events>> /\ status' = "reading"
    BY <1>7 DEF FrameEnds
  <2> QED BY <1>7, <2>1, KeptBy
<1>8. CASE HeaderCutOff
  <2>1. UNCHANGED <<file, tool, pos, frames, skipped, head, events>> /\ status' = "failed"
    BY <1>8 DEF HeaderCutOff
  <2> QED BY <1>8, <2>1, KeptBy
<1>9. CASE TreeWritten
  <2>1. UNCHANGED <<file, tool, pos, frames, skipped, head, events>> /\ status' = "written"
    BY <1>9 DEF TreeWritten
  <2> QED BY <1>9, <2>1, KeptBy
<1> QED BY <1>1, <1>2, <1>3, <1>4, <1>5, <1>6, <1>7, <1>8, <1>9 DEF RawStep

\* What is read of a damaged file, and what is left behind in it, is accounted
\* for in every state.
THEOREM RawInvariance == Spec => [](Inv /\ RawInv)
<1>1. ASSUME Inv, RawInv, [Next]_vars PROVE RawInv'
  <2>1. ASSUME UNCHANGED <<tool, file, pos, frames, skipped, head, events>>,
               status' \in {"printed", "calibrated", "rejected"}
        PROVE  RawInv'
    <3>1. status' # "unpacking" /\ status' # "read" /\ status' # "failed" /\ status' # "reading"
      BY <2>1
    <3> QED BY <1>1, <2>1, <3>1, KeptBy
  <2>2. CASE UNCHANGED vars
    <3>1. UNCHANGED <<tool, file, pos, frames, skipped, head, events, status>>
      BY <2>2 DEF vars
    <3>2. Wanted' => Wanted
      BY <3>1 DEF Wanted
    <3> QED BY <1>1, <3>1, <3>2, KeptBy
  <2>3. CASE RawStep
    BY <1>1, <2>3, RawStepKept
  <2>4. CASE MediansPrinted
    BY <2>1, <2>4 DEF MediansPrinted
  <2>5. CASE NothingPrinted
    BY <2>1, <2>5 DEF NothingPrinted
  <2>6. CASE RegisterWritten
    BY <2>1, <2>6 DEF RegisterWritten, Ends
  <2>7. CASE RegisterRejected
    BY <2>1, <2>7 DEF RegisterRejected, Ends
  <2> QED BY <1>1, <2>2, <2>3, <2>4, <2>5, <2>6, <2>7 DEF Next
<1> QED BY <1>1, Invariance, InitiallyRead, PTL DEF Spec

\* Wherever bytes were lost or overwritten, and whatever the bodies hold, a
\* frame of the old format is the frame of one record, never pieced together
\* from what is left of two, unless its header or its footer is a look-alike.
THEOREM FramesOfOneRecord == Spec => []FramesGenuine
<1>1. ASSUME Inv, RawInv PROVE FramesGenuine
  <2>1. SUFFICES ASSUME IsOldFormat, NEW k \in DOMAIN frames,
                        ~LookAlike(frames[k]), ~LookAlike(frames[k] + FrameSize + 2)
                 PROVE  Unbroken(frames[k], frames[k] + FrameSize + 2)
    BY DEF FramesGenuine
  <2>2. Source /\ BetweenMarks
    BY <1>1 DEF RawInv, Kept
  <2>3. /\ frames[k] \in 1..(Len(file) - FrameSize - 2)
        /\ file[frames[k]].kind = "data" /\ file[frames[k] + FrameSize + 2].kind = "foot"
    BY <2>1, <2>2 DEF BetweenMarks
  <2> QED BY <2>1, <2>2, <2>3, FrameOfRecord
<1> QED BY <1>1, RawInvariance, PTL

\* Each record that is left intact is found again, whatever the bodies hold,
\* unless its header lies in what a look-alike made the reader return as a
\* frame, or within the length of an HK record behind what it took for one.
THEOREM IntactFramesFound == Spec => []IntactFramesReturned
<1>1. RawInv => IntactFramesReturned
  BY DEF RawInv, Kept
<1> QED BY <1>1, RawInvariance, PTL

\* What is returned as a valid event lies in a returned frame and ends in a
\* footer or a look-alike of one; if it begins with an event's header, it is
\* that event, whole and in order, but for damaged flags; and in a frame that is
\* as it was written, what does not begin so lies behind the damage.
THEOREM ValidEventsGenuine == Spec => []EventsGenuine
<1>1. RawInv => EventsGenuine
  BY DEF RawInv, Kept
<1> QED BY <1>1, RawInvariance, PTL

\* Every event of a frame that was returned is delivered, or the damage to its
\* own header, flags or footer, to an earlier header or flags of its frame, to
\* the footer before it, or to one from which the search goes astray explains
\* why not; and a program gives up only over a damaged end of a frame.
THEOREM OneDamageContained == Spec => []DamageContained
<1>1. ASSUME Inv, RawInv PROVE DamageContained
  <2>1. Source /\ Settled /\ Place /\ GivesUpOnlyOnDamage /\ WithinFile /\ SamplesRead
    BY <1>1 DEF RawInv, Kept, Inv
  <2>2. ASSUME Over, NEW k \in DOMAIN frames, NEW start, start = frames[k], AsWritten(start),
               NEW first \in (start + 1)..(start + FrameSize),
               NEW last \in (start + 1)..(start + FrameSize),
               first < last, first <= Horizon,
               KindWritten(first) = "event", KindWritten(last) = "trailer",
               \A p \in first..(last - 1) : KindWritten(p) # "trailer"
        PROVE  \/ \E j \in DOMAIN events : events[j].at = first - 1
               \/ \E p \in (start + 1)..last : ~Written(file[p]) /\ LostTo(p, first, last)
    <3>1. WasEvent(start, first, last)
      BY <2>2 DEF WasEvent
    <3>2. CASE Through(k) \/ last <= start + head
      BY <2>1, <2>2, <3>1, <3>2 DEF Settled, Accounted
    <3>3. SUFFICES ASSUME ~Through(k), last > start + head
                   PROVE  Lost(start, first, last)
      <4>1. Lost(start, first, last) =>
              \E p \in (start + 1)..last : ~Written(file[p]) /\ LostTo(p, first, last)
        BY DEF Lost
      <4>2. Through(k) \/ last <= start + head \/ last > start + head
        <5>1. start \in Nat /\ head \in Nat /\ last \in Int
          BY <2>1, <2>2, Positions DEF WithinFile
        <5> QED BY <5>1
      <4> QED BY <3>2, <3>3, <4>1, <4>2
    <3>4. /\ frames \in Seq(Nat) /\ Len(frames) \in Nat /\ DOMAIN frames = 1..Len(frames)
          /\ head \in Nat
      BY <2>1, Positions DEF WithinFile
    <3>5. ~Wanted /\ k = Len(frames) /\ start = Start /\ start \in Nat
      BY <2>2, <3>3, <3>4 DEF Through, Over, Start
    <3>6. Horizon = LastAt /\ events # <<>>
      <4>1. Horizon = LastAt
        BY <3>5 DEF Horizon, LastAt
      <4>2. ~(Len(events) < MaxEvents) /\ MaxEvents \in Nat \ {0}
        BY <3>5, RawDataAssumption DEF Wanted
      <4> QED BY <4>1, <4>2
    <3>7. LastAt \in Nat
      BY <2>1, <3>6, LastEvent
    <3>8. LastAt > Start /\ LastAt <= Start + head
      BY <2>1, <2>2, <3>5, <3>6, <3>7 DEF Place
    <3>9. KindWritten(LastAt) = "trailer" \/ Astray(Start, LastAt)
      BY <2>1, <2>2, <3>5, <3>6, <3>8 DEF Place
    <3>10. LastAt \in first..(last - 1) /\ LastAt < last
      BY <2>2, <3>3, <3>4, <3>5, <3>6, <3>7, <3>8
    <3>11. Astray(Start, LastAt)
      BY <2>2, <3>9, <3>10
    <3>12. Laid(Start)
      <4>1. start + FrameSize <= Len(file)
        BY <2>1, <2>2 DEF WithinFile
      <4> QED BY <2>1, <2>2, <3>5, <4>1, AsWrittenLaid
    <3> QED BY <3>1, <3>5, <3>7, <3>10, <3>11, <3>12, LostWhenAstray
  <2>3. EventsDelivered
    BY <2>2 DEF EventsDelivered
  <2> QED BY <2>1, <2>3 DEF DamageContained
<1> QED BY <1>1, RawInvariance, PTL

=============================================================================
