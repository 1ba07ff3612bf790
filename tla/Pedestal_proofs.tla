--------------------------- MODULE Pedestal_proofs ---------------------------
(***************************************************************************)
(* Theorems of Pedestal: what calc_pedestal prints are medians, and what   *)
(* set_delreg.py writes is a register that aligns them, for every set of   *)
(* channels, every file, and every width of the register.                  *)
(***************************************************************************)
EXTENDS Pedestal, FiniteInduction, FiniteSetTheorems, TLAPS

-----------------------------------------------------------------------------
(* Finite sets of measurements: f gives those with the indices in I.         *)

\* Those below, and not above, a value.
Below(f, I, v)    == {k \in I : f[k] < v}
NotAbove(f, I, v) == {k \in I : f[k] <= v}
Above(f, I, v)    == {k \in I : f[k] > v}

LEMMA AboveCount ==
  ASSUME NEW I, IsFiniteSet(I), NEW f \in [I -> Int], NEW v \in Int
  PROVE  /\ Cardinality(Above(f, I, v)) = Cardinality(I) - Cardinality(NotAbove(f, I, v))
         /\ Cardinality(NotAbove(f, I, v)) \in Nat /\ Cardinality(Below(f, I, v)) \in Nat
<1>1. Above(f, I, v) = I \ NotAbove(f, I, v) /\ NotAbove(f, I, v) = I \cap NotAbove(f, I, v)
  BY DEF Above, NotAbove
<1>2. Cardinality(I \ NotAbove(f, I, v)) =
        Cardinality(I) - Cardinality(I \cap NotAbove(f, I, v))
  BY FS_Difference
<1>3. NotAbove(f, I, v) \subseteq I /\ Below(f, I, v) \subseteq I
  BY DEF Below, NotAbove
<1> QED BY <1>1, <1>2, <1>3, SubsetOfFinite

\* There is an n-th measurement: the least one that more than n are not above.
LEMMA NthExists ==
  ASSUME NEW I, IsFiniteSet(I), NEW f \in [I -> Int], NEW n \in Nat, n < Cardinality(I)
  PROVE  \E k \in I :
           /\ Cardinality(Below(f, I, f[k])) <= n
           /\ Cardinality(NotAbove(f, I, f[k])) > n
<1> DEFINE T == {k \in I : Cardinality(NotAbove(f, I, f[k])) > n}
           g == [k \in T |-> -f[k]]
<1>1. T # {}
  <2>1. I # {}
    BY FS_EmptySet
  <2>2. PICK k \in I : \A j \in I : f[j] <= f[k]
    BY <2>1, Greatest
  <2>3. NotAbove(f, I, f[k]) = I
    BY <2>2 DEF NotAbove
  <2> QED BY <2>3
<1>2. IsFiniteSet(T)
  BY SubsetOfFinite
<1>3. g \in [T -> Int]
  OBVIOUS
<1> HIDE DEF g
<1>4. PICK k \in T : \A j \in T : g[j] <= g[k]
  BY <1>1, <1>2, <1>3, Greatest
<1>5. \A j \in T : f[k] <= f[j]
  <2>1. TAKE j \in T
  <2>2. g[j] <= g[k] /\ g[j] = -f[j] /\ g[k] = -f[k] /\ f[j] \in Int /\ f[k] \in Int
    BY <1>4 DEF g
  <2> QED BY <2>2
<1> DEFINE L == Below(f, I, f[k])
           h == [j \in L |-> f[j]]
<1>6. IsFiniteSet(L) /\ Cardinality(L) \in Nat
  BY SubsetOfFinite DEF Below
<1>7. Cardinality(L) <= n
  <2>1. SUFFICES ASSUME Cardinality(L) > n PROVE FALSE
    BY <1>6
  <2>2. L # {}
    BY <2>1, FS_EmptySet
  <2>3. h \in [L -> Int] /\ \A j \in L : h[j] = f[j]
    BY DEF Below
  <2> HIDE DEF h
  <2>4. PICK m \in L : \A j \in L : h[j] <= h[m]
    BY <1>6, <2>2, <2>3, Greatest
  <2>5. m \in I /\ f[m] < f[k] /\ f[m] \in Int /\ f[k] \in Int
    BY DEF Below
  <2>6. L \subseteq NotAbove(f, I, f[m])
    BY <2>3, <2>4 DEF Below, NotAbove
  <2>7. /\ Cardinality(NotAbove(f, I, f[m])) \in Nat
        /\ Cardinality(L) <= Cardinality(NotAbove(f, I, f[m]))
    <3>1. NotAbove(f, I, f[m]) \subseteq I
      BY DEF NotAbove
    <3>2. IsFiniteSet(NotAbove(f, I, f[m])) /\ Cardinality(NotAbove(f, I, f[m])) \in Nat
      BY <3>1, SubsetOfFinite
    <3> HIDE DEF L
    <3> QED BY <2>6, <3>2, SubsetOfFinite
  <2>8. m \in T
    BY <1>6, <2>1, <2>5, <2>7
  <2> QED BY <1>5, <2>5, <2>8
<1> QED BY <1>4, <1>7

-----------------------------------------------------------------------------
(* The inductive invariant, in parts named for what they say of the code.    *)

\* The reader stays within its file, and the unpacker within a frame of it.
WithinFile ==
  /\ tool \in {"raw2root", "calc_pedestal"}
  /\ file \in Seq(Cells) /\ pos \in 0..Len(file) /\ head \in 0..FrameSize
  /\ frames \in Seq(Nat)
  /\ \A k \in DOMAIN frames : frames[k] + FrameSize <= Len(file)
  /\ skipped \subseteq 1..Len(file)
  /\ status = "unpacking" => frames # <<>>

\* The samples of a valid event are in the file.
SamplesRead ==
  /\ events \in Seq([at : Nat, hits : SUBSET Channels])
  /\ \A k \in DOMAIN events : events[k].at + EventSize(events[k].hits) <= Len(file)
  /\ tool = "calc_pedestal" => Len(events) <= MaxEvents

\* The pipeline is at most at set_delreg.py.
Piped == status \in {"printed", "calibrated", "rejected"}

\* What was printed are the medians of the events, and all of them exactly if
\* calc_pedestal succeeded; before it has ended there is nothing.
MediansOfEvents ==
  /\ status \in {"reading", "unpacking", "read", "failed", "written", "printed",
                 "calibrated", "rejected"}
  /\ medians \in Seq(Int) /\ calcExit \in {"running", "success", "failure"}
  /\ ~Piped => medians = <<>> /\ calcExit = "running"
  /\ \A k \in DOMAIN medians : Hit(ChannelOf(k)) # {} /\ medians[k] = Median(ChannelOf(k))
  /\ Len(medians) = Cardinality(Channels) => calcExit = "success"

\* A register was written by the last step, from all medians.
RegisterOfMedians ==
  /\ ~Piped \/ status = "printed" => delIn = NoRegister
  /\ delIn = NoRegister => delOut = NoRegister
  /\ delIn # NoRegister =>
       delIn \in Registers /\ Len(medians) = Cardinality(Channels) /\ delOut = NewRegister(delIn)

Inv == WithinFile /\ SamplesRead /\ MediansOfEvents /\ RegisterOfMedians

-----------------------------------------------------------------------------
(* Channels, events and samples.                                             *)

LEMMA ChannelSets ==
  ASSUME NEW S, S \subseteq Channels
  PROVE  /\ IsFiniteSet(S) /\ Cardinality(S) \in Nat
         /\ \A c \in S : Rank(c, S) \in 1..Cardinality(S)
<1>1. IsFiniteSet(S) /\ Cardinality(S) \in Nat
  BY SubsetOfFinite, RawDataAssumption
<1>2. ASSUME NEW c \in S PROVE Rank(c, S) \in 1..Cardinality(S)
  <2> DEFINE T == {d \in S : d <= c}
  <2>1. T \subseteq S /\ c \in T
    BY RawDataAssumption
  <2>2. IsFiniteSet(T) /\ Cardinality(T) \in Nat /\ Cardinality(T) <= Cardinality(S)
    <3> HIDE DEF T
    <3> QED BY <1>1, <2>1, SubsetOfFinite
  <2>3. Cardinality(T) # 0
    BY <2>1, <2>2, FS_EmptySet
  <2>4. Cardinality(T) \in 1..Cardinality(S)
    <3> HIDE DEF T
    <3> QED BY <1>1, <2>2, <2>3
  <2> QED BY <2>4 DEF Rank
<1> QED BY <1>1, <1>2

\* Counting the channels up to one tells which it is.
LEMMA ChannelOfRank ==
  ASSUME NEW c \in Channels
  PROVE  ChannelOf(Rank(c, Channels)) = c
<1>1. ASSUME NEW a \in Channels, NEW b \in Channels, a < b
      PROVE  Rank(a, Channels) # Rank(b, Channels)
  <2> DEFINE A == {d \in Channels : d <= a}
             B == {d \in Channels : d <= b}
  <2>1. A \subseteq B /\ B \subseteq Channels /\ b \in B /\ b \notin A
    <3>1. \A d \in Channels : d \in Nat
      BY RawDataAssumption
    <3>2. a \in Nat /\ b \in Nat /\ \A d \in Channels : d <= a => d <= b
      BY <1>1, <3>1
    <3>3. ~(b <= a) /\ b <= b
      BY <1>1, <3>2
    <3> QED BY <3>2, <3>3
  <2>2. IsFiniteSet(B)
    <3> HIDE DEF B
    <3> QED BY <2>1, ChannelSets
  <2>3. Cardinality(A) = Cardinality(B) => A = B
    <3> HIDE DEF A, B
    <3>1. A \in SUBSET B
      BY <2>1
    <3> QED BY <2>2, <3>1, FS_Subset
  <2> QED BY <2>1, <2>3 DEF Rank
<1>2. \A d \in Channels : Rank(d, Channels) = Rank(c, Channels) => d = c
  <2>1. TAKE d \in Channels
  <2>2. d \in Nat /\ c \in Nat
    BY RawDataAssumption
  <2> QED BY <1>1, <2>2
<1> QED BY <1>2 DEF ChannelOf

\* An event with a hit has room for its samples and their common mode.
LEMMA EventSizes ==
  ASSUME NEW hits, hits \subseteq Channels
  PROVE  /\ EventSize(hits) \in Nat /\ EventSize(hits) >= 4
         /\ hits # {} => EventSize(hits) = Cardinality(hits) + 5
<1>1. Cardinality(hits) \in Nat
  BY ChannelSets
<1> QED BY <1>1 DEF EventSize

LEMMA SampleType ==
  ASSUME WithinFile, SamplesRead, NEW c, NEW k \in Hit(c)
  PROVE  c \in Channels /\ Sample(events[k], c) \in Int
<1> DEFINE e == events[k]
<1>1. k \in DOMAIN events /\ c \in e.hits
  BY DEF Hit
<1>2. e.at \in Nat /\ e.hits \subseteq Channels /\ e.at + EventSize(e.hits) <= Len(file)
  <2> DEFINE E == [at : Nat, hits : SUBSET Channels]
  <2>1. events \in Seq(E)
    BY DEF SamplesRead
  <2>2. e \in E
    <3> HIDE DEF E
    <3> QED BY <1>1, <2>1
  <2>3. e.at + EventSize(e.hits) <= Len(file)
    BY <1>1 DEF SamplesRead
  <2> QED BY <2>2, <2>3
<1> HIDE DEF e
<1>3. EventSize(e.hits) = Cardinality(e.hits) + 5 /\ Cardinality(e.hits) \in Nat
  <2>1. e.hits # {}
    BY <1>1
  <2> QED BY <1>2, <2>1, EventSizes, ChannelSets
<1>4. Rank(c, e.hits) \in 1..Cardinality(e.hits)
  BY <1>1, <1>2, ChannelSets
<1>5. /\ e.at + 3 + Rank(c, e.hits) \in 1..Len(file)
      /\ e.at + 4 + Cardinality(e.hits) \in 1..Len(file)
  <2>1. file \in Seq(Cells) /\ Len(file) \in Nat
    BY DEF WithinFile
  <2>2. /\ Cardinality(e.hits) \in Nat /\ Rank(c, e.hits) \in Nat
        /\ 1 <= Rank(c, e.hits) /\ Rank(c, e.hits) <= Cardinality(e.hits)
        /\ e.at \in Nat /\ e.at + (Cardinality(e.hits) + 5) <= Len(file)
    BY <1>2, <1>3, <1>4
  <2>3. e.at + 3 + Rank(c, e.hits) \in 1..Len(file)
    BY <2>1, <2>2
  <2>4. e.at + 4 + Cardinality(e.hits) \in 1..Len(file)
    BY <2>1, <2>2
  <2> QED BY <2>3, <2>4
<1>6. \A p \in 1..Len(file) : file[p].adc \in Int
  <2>1. \A p \in 1..Len(file) : file[p] \in Cells
    BY DEF WithinFile
  <2> QED BY <2>1 DEF Cells
<1>7. c \in Channels
  BY <1>1, <1>2
<1>8. Sample(e, c) \in Int
  BY <1>5, <1>6 DEF Sample
<1> QED BY <1>7, <1>8 DEF e

LEMMA HitsFinite ==
  ASSUME SamplesRead, NEW c
  PROVE  IsFiniteSet(Hit(c)) /\ Cardinality(Hit(c)) \in Nat
<1>1. Hit(c) \subseteq 1..Len(events) /\ Len(events) \in Nat
  BY DEF Hit, SamplesRead
<1>2. IsFiniteSet(1..Len(events))
  BY <1>1, FS_Interval
<1> QED BY <1>1, <1>2, SubsetOfFinite

\* The samples of a channel, event by event.
Samples(c) == [k \in Hit(c) |-> Sample(events[k], c)]

LEMMA SamplesType ==
  ASSUME WithinFile, SamplesRead, NEW c
  PROVE  Samples(c) \in [Hit(c) -> Int]
BY SampleType DEF Samples

\* What std::nth_element finds.
LEMMA NthSample ==
  ASSUME WithinFile, SamplesRead, NEW c, NEW n \in Nat, n < Cardinality(Hit(c))
  PROVE  /\ NthElement(c, n) \in Int
         /\ Cardinality(Below(Samples(c), Hit(c), NthElement(c, n))) <= n
         /\ Cardinality(NotAbove(Samples(c), Hit(c), NthElement(c, n))) > n
<1> DEFINE f == Samples(c)
           I == Hit(c)
           is(v) == Cardinality(Below(f, I, v)) <= n /\ Cardinality(NotAbove(f, I, v)) > n
<1>1. PICK k \in I : is(f[k])
  BY HitsFinite, SamplesType, NthExists
<1>2. \A v : /\ Below(f, I, v) = {j \in I : Sample(events[j], c) < v}
             /\ NotAbove(f, I, v) = {j \in I : Sample(events[j], c) <= v}
  BY DEF Below, NotAbove, Samples
<1>3. NthElement(c, n) = CHOOSE v \in {Sample(events[j], c) : j \in I} : is(v)
  BY <1>2 DEF NthElement
<1>4. f[k] \in {Sample(events[j], c) : j \in I}
  BY DEF Samples
<1>5. NthElement(c, n) \in {Sample(events[j], c) : j \in I} /\ is(NthElement(c, n))
  <2> HIDE DEF is, f
  <2> QED BY <1>1, <1>3, <1>4
<1>6. NthElement(c, n) \in Int
  BY <1>5, SampleType
<1> QED BY <1>5, <1>6

\* The doubled median of one or two of them leaves at most half on either side.
LEMMA MiddleOdd ==
  ASSUME NEW m \in Nat, m % 2 # 0, NEW below \in Nat, NEW notAbove \in Nat,
         below <= m \div 2, notAbove > m \div 2
  PROVE  2 * below <= m /\ 2 * (m - notAbove) <= m
OBVIOUS

LEMMA MiddleEven ==
  ASSUME NEW m \in Nat, m % 2 = 0, m # 0
  PROVE  /\ m \div 2 \in Nat /\ m \div 2 - 1 \in Nat /\ m \div 2 < m /\ m \div 2 - 1 < m
         /\ m = 2 * (m \div 2)
OBVIOUS

LEMMA MedianIsCentral ==
  ASSUME WithinFile, SamplesRead, NEW c, Hit(c) # {}
  PROVE  /\ Median(c) \in Int
         /\ 2 * Cardinality({j \in Hit(c) : 2 * Sample(events[j], c) < Median(c)})
              <= Cardinality(Hit(c))
         /\ 2 * Cardinality({j \in Hit(c) : 2 * Sample(events[j], c) > Median(c)})
              <= Cardinality(Hit(c))
<1> DEFINE f == Samples(c)
           I == Hit(c)
           m == Cardinality(I)
           lower(x) == {j \in I : 2 * Sample(events[j], c) < x}
           upper(x) == {j \in I : 2 * Sample(events[j], c) > x}
<1>1. IsFiniteSet(I) /\ m \in Nat /\ m # 0
  BY HitsFinite, FS_EmptySet
<1>2. f \in [I -> Int] /\ \A j \in I : f[j] = Sample(events[j], c) /\ f[j] \in Int
  <2>1. f \in [I -> Int]
    BY SamplesType
  <2> QED BY <2>1 DEF Samples
<1>3. CASE m % 2 # 0
  <2> DEFINE v == NthElement(c, m \div 2)
  <2>1. Median(c) = 2 * v
    BY <1>3 DEF Median
  <2>2. m \div 2 \in Nat /\ m \div 2 < m
    BY <1>1, <1>3
  <2>3. /\ v \in Int
        /\ Cardinality(Below(f, I, v)) <= m \div 2 /\ Cardinality(NotAbove(f, I, v)) > m \div 2
    BY <2>2, NthSample
  <2> HIDE DEF v, f
  <2>4. lower(2 * v) = Below(f, I, v) /\ upper(2 * v) = Above(f, I, v)
    BY <1>2, <2>3 DEF Below, Above
  <2>5. /\ Cardinality(Above(f, I, v)) = m - Cardinality(NotAbove(f, I, v))
        /\ Cardinality(NotAbove(f, I, v)) \in Nat /\ Cardinality(Below(f, I, v)) \in Nat
    BY <1>1, <1>2, <2>3, AboveCount
  <2> HIDE DEF m
  <2>6. 2 * Cardinality(Below(f, I, v)) <= m /\ 2 * Cardinality(Above(f, I, v)) <= m
    BY <1>1, <1>3, <2>3, <2>5, MiddleOdd
  <2> USE DEF m
  <2> QED BY <2>1, <2>3, <2>4, <2>6
<1>4. CASE m % 2 = 0
  <2> DEFINE a == NthElement(c, m \div 2 - 1)
             b == NthElement(c, m \div 2)
  <2>1. Median(c) = a + b
    BY <1>4 DEF Median
  <2>2. /\ m \div 2 \in Nat /\ m \div 2 - 1 \in Nat /\ m \div 2 < m /\ m \div 2 - 1 < m
        /\ m = 2 * (m \div 2)
    <3> HIDE DEF m
    <3> QED BY <1>1, <1>4, MiddleEven
  <2>3. /\ a \in Int
        /\ Cardinality(Below(f, I, a)) <= m \div 2 - 1
        /\ Cardinality(NotAbove(f, I, a)) > m \div 2 - 1
    BY <2>2, NthSample
  <2>4. /\ b \in Int
        /\ Cardinality(Below(f, I, b)) <= m \div 2 /\ Cardinality(NotAbove(f, I, b)) > m \div 2
    BY <2>2, NthSample
  <2> HIDE DEF a, b, f
  <2>5. /\ Cardinality(Above(f, I, a)) = m - Cardinality(NotAbove(f, I, a))
        /\ Cardinality(NotAbove(f, I, a)) \in Nat /\ Cardinality(Below(f, I, a)) \in Nat
    BY <1>1, <1>2, <2>3, AboveCount
  <2>6. Cardinality(NotAbove(f, I, b)) \in Nat /\ Cardinality(Below(f, I, b)) \in Nat
    BY <1>1, <1>2, <2>4, AboveCount
  <2>7. a <= b
    <3>1. SUFFICES ASSUME b < a PROVE FALSE
      BY <2>3, <2>4
    <3>2. NotAbove(f, I, b) \subseteq Below(f, I, a)
      BY <1>2, <2>3, <2>4, <3>1 DEF NotAbove, Below
    <3>3. Below(f, I, a) \subseteq I
      BY DEF Below
    <3>4. IsFiniteSet(Below(f, I, a))
      BY <1>1, <3>3, SubsetOfFinite
    <3>5. Cardinality(NotAbove(f, I, b)) <= Cardinality(Below(f, I, a))
      BY <3>2, <3>4, SubsetOfFinite
    <3> HIDE DEF m
    <3> QED BY <1>1, <2>2, <2>3, <2>4, <2>5, <2>6, <3>5
  <2>8. lower(a + b) \subseteq Below(f, I, b) /\ upper(a + b) \subseteq Above(f, I, a)
    BY <1>2, <2>3, <2>4, <2>7 DEF Below, Above
  <2>9. IsFiniteSet(Below(f, I, b)) /\ IsFiniteSet(Above(f, I, a))
    <3>1. Below(f, I, b) \subseteq I /\ Above(f, I, a) \subseteq I
      BY DEF Below, Above
    <3> QED BY <1>1, <3>1, SubsetOfFinite
  <2>10. /\ Cardinality(lower(a + b)) \in Nat
         /\ Cardinality(lower(a + b)) <= Cardinality(Below(f, I, b))
    <3> HIDE DEF lower
    <3> QED BY <2>8, <2>9, SubsetOfFinite
  <2>11. /\ Cardinality(upper(a + b)) \in Nat
         /\ Cardinality(upper(a + b)) <= Cardinality(Above(f, I, a))
    <3> HIDE DEF upper
    <3> QED BY <2>8, <2>9, SubsetOfFinite
  <2>12. 2 * Cardinality(lower(a + b)) <= m /\ 2 * Cardinality(upper(a + b)) <= m
    <3> HIDE DEF m, lower, upper
    <3>1. m \div 2 \in Nat
      BY <2>2
    <3>2. 2 * Cardinality(lower(a + b)) <= m
      BY <1>1, <2>2, <2>4, <2>6, <2>10
    <3>3. Cardinality(Above(f, I, a)) <= m - (m \div 2) /\ Cardinality(Above(f, I, a)) \in Int
      BY <1>1, <2>2, <2>3, <2>5
    <3>4. 2 * Cardinality(upper(a + b)) <= m
      BY <1>1, <2>2, <2>11, <3>3
    <3> QED BY <3>2, <3>4
  <2> QED BY <2>1, <2>3, <2>4, <2>12
<1> QED BY <1>3, <1>4

-----------------------------------------------------------------------------
(* The new register.                                                         *)

LEMMA HighestUntrimmed ==
  ASSUME medians \in Seq(Int), Len(medians) = Cardinality(Channels), NEW del \in Registers
  PROVE  /\ Highest(del) \in Int
         /\ \A c \in Channels :
              /\ del[c] \in 0..MaxDel
              /\ Untrimmed(del)[c] \in Int /\ Untrimmed(del)[c] <= Highest(del)
<1> DEFINE u == Untrimmed(del)
<1>1. \A c \in Channels : del[c] \in 0..MaxDel
  BY PedestalAssumption
<1>2. \A c \in Channels : Rank(c, Channels) \in 1..Len(medians)
  BY ChannelSets
<1>3. u \in [Channels -> Int]
  <2>1. \A c \in Channels : medians[Rank(c, Channels)] \in Int
    BY <1>2
  <2> QED BY <1>1, <2>1, PedestalAssumption DEF Untrimmed
<1>4. IsFiniteSet(Channels) /\ Channels # {}
  BY RawDataAssumption
<1> HIDE DEF u
<1>5. PICK k \in Channels : \A j \in Channels : u[j] <= u[k]
  BY <1>3, <1>4, Greatest
<1> DEFINE S == {u[c] : c \in Channels}
<1>6. u[k] \in S /\ AtLeastAll(u[k], S)
  BY <1>5 DEF AtLeastAll
<1>7. Highest(del) = CHOOSE p \in S : AtLeastAll(p, S)
  BY DEF Highest, u
<1>8. Highest(del) \in S /\ AtLeastAll(Highest(del), S)
  <2> HIDE DEF S
  <2> QED BY <1>6, <1>7
<1>9. \A c \in Channels : u[c] <= Highest(del)
  BY <1>8 DEF AtLeastAll
<1>10. Highest(del) \in Int
  BY <1>3, <1>8
<1> QED BY <1>1, <1>3, <1>9, <1>10 DEF u

LEMMA Rounding ==
  ASSUME NEW x \in Nat
  PROVE  /\ RoundHalf(x) \in Nat
         /\ 2 * RoundHalf(x) - x \in -1..1
BY DEF RoundHalf

\* Each channel's new setting is in range, and aligns it unless it is at its end.
LEMMA NewSetting ==
  ASSUME medians \in Seq(Int), Len(medians) = Cardinality(Channels), NEW del \in Registers,
         NEW c \in Channels
  PROVE  LET aligned == Untrimmed(del)[c] + 2 * NewRegister(del)[c] IN
         /\ NewRegister(del)[c] \in 0..MaxDel
         /\ \/ aligned \in (Highest(del) - 1)..(Highest(del) + 1)
            \/ NewRegister(del)[c] = MaxDel /\ aligned < Highest(del)
<1> DEFINE u == Untrimmed(del)[c]
           h == Highest(del)
           r == RoundHalf(h - u)
<1>1. u \in Int /\ h \in Int /\ h - u \in Nat
  BY HighestUntrimmed
<1>2. NewRegister(del)[c] = Clamped(r)
  BY DEF NewRegister
<1> HIDE DEF u, h
<1>3. r \in Nat /\ 2 * r - (h - u) \in -1..1
  BY <1>1, Rounding
<1> HIDE DEF r
<1>4. CASE r <= MaxDel
  <2>1. Clamped(r) = r
    BY <1>3, <1>4, PedestalAssumption DEF Clamped
  <2>2. r \in 0..MaxDel /\ u + 2 * r \in (h - 1)..(h + 1)
    BY <1>1, <1>3, <1>4, PedestalAssumption
  <2> QED BY <1>2, <2>1, <2>2 DEF u, h
<1>5. CASE ~(r <= MaxDel)
  <2>1. Clamped(r) = MaxDel
    BY <1>3, <1>5, PedestalAssumption DEF Clamped
  <2>2. MaxDel \in 0..MaxDel /\ u + 2 * MaxDel < h
    BY <1>1, <1>3, <1>5, PedestalAssumption
  <2> QED BY <1>2, <2>1, <2>2 DEF u, h
<1> QED BY <1>4, <1>5

-----------------------------------------------------------------------------
(* What a step that leaves its arguments alone does to an operator.          *)

LEMMA SameEvents ==
  ASSUME UNCHANGED <<file, events>>, NEW c
  PROVE  Hit(c)' = Hit(c) /\ Median(c)' = Median(c)
<1>1. Hit(c)' = Hit(c)
  BY DEF Hit
<1>2. \A n : NthElement(c, n)' = NthElement(c, n)
  BY DEF NthElement, Hit, Sample
<1> QED BY <1>1, <1>2 DEF Median

LEMMA SameMedians ==
  ASSUME UNCHANGED medians, NEW del
  PROVE  NewRegister(del)' = NewRegister(del)
BY DEF NewRegister, Highest, Untrimmed

-----------------------------------------------------------------------------
(* Invariance.                                                               *)

LEMMA NoRegisterIsNone == NoRegister \notin Registers
<1>1. PICK c \in Channels : TRUE
  BY RawDataAssumption
<1>2. NoRegister[c] = -1
  BY DEF NoRegister
<1>3. \A del \in Registers : del[c] \in 0..MaxDel
  BY PedestalAssumption
<1> QED BY <1>2, <1>3, PedestalAssumption

LEMMA Initially == Init => Inv
<1>1. SUFFICES ASSUME Init PROVE Inv
  OBVIOUS
<1>2. file \in Seq(Cells)
  BY <1>1, RawDataAssumption DEF Init, RawInit
<1>3. WithinFile
  BY <1>1, <1>2, RawDataAssumption DEF Init, RawInit, WithinFile
<1>4. SamplesRead
  BY <1>1, RawDataAssumption DEF Init, RawInit, SamplesRead
<1>5. Cardinality(Channels) # 0
  BY RawDataAssumption, FS_EmptySet
<1>6. MediansOfEvents
  BY <1>1, <1>5 DEF Init, RawInit, MediansOfEvents, Piped
<1>7. RegisterOfMedians
  BY <1>1 DEF Init, RawInit, RegisterOfMedians, Piped
<1> QED BY <1>3, <1>4, <1>6, <1>7 DEF Inv

\* The reader and the unpacker, one step each. Their positions are numbers.
LEMMA Positions ==
  ASSUME WithinFile
  PROVE  /\ Len(file) \in Nat /\ pos \in Nat /\ head \in Nat /\ FrameSize \in Nat /\ HkSize \in Nat
         /\ pos <= Len(file) /\ FrameSize > 0
BY RawDataAssumption DEF WithinFile

LEMMA UnpacksKeeps ==
  ASSUME WithinFile, NEW start \in Nat, NEW next \in Nat, start + FrameSize <= next,
         next <= Len(file), Unpacks(start, next)
  PROVE  WithinFile'
<1>1. /\ file \in Seq(Cells) /\ file' = file /\ tool' = tool /\ pos' = next /\ head' = 0
      /\ frames' = Append(frames, start) /\ skipped' = skipped
  BY DEF Unpacks, WithinFile
<1>2. frames \in Seq(Nat) /\ \A k \in DOMAIN frames : frames[k] + FrameSize <= Len(file)
  BY DEF WithinFile
<1>3. frames' \in Seq(Nat) /\ Len(frames') = Len(frames) + 1
  BY <1>1, <1>2
<1>4. \A k \in DOMAIN frames' : frames'[k] + FrameSize <= Len(file)
  <2>1. TAKE k \in DOMAIN frames'
  <2>2. k \in 1..(Len(frames) + 1)
    BY <1>3
  <2>3. CASE k = Len(frames) + 1
    <3>1. frames'[k] = start
      BY <1>1, <1>2, <2>3
    <3> QED BY <3>1, Positions
  <2>4. CASE k # Len(frames) + 1
    <3>1. k \in DOMAIN frames /\ frames'[k] = frames[k]
      BY <1>1, <1>2, <2>2, <2>4
    <3> QED BY <1>2, <3>1
  <2> QED BY <2>3, <2>4
<1>5. frames' # <<>>
  BY <1>3, <1>2
<1>6. pos' \in 0..Len(file) /\ head' \in 0..FrameSize
  BY <1>1, Positions
<1>7. tool \in {"raw2root", "calc_pedestal"} /\ skipped \subseteq 1..Len(file)
  BY DEF WithinFile
<1> QED BY <1>1, <1>3, <1>4, <1>5, <1>6, <1>7 DEF WithinFile

LEMMA MovesKeeps ==
  ASSUME WithinFile, NEW next \in Nat, next <= Len(file), Moves(next),
         skipped' \subseteq 1..Len(file)
  PROVE  WithinFile'
BY Positions DEF Moves, WithinFile

LEMMA ReaderKeeps ==
  ASSUME WithinFile,
         NewFrame \/ OldFrame \/ HkSkipped \/ Resynchronised
  PROVE  WithinFile' /\ UNCHANGED <<tool, file, events>>
<1>1. CASE NewFrame
  <2>1. Unpacks(pos, pos + FrameSize) /\ pos + FrameSize <= Len(file)
    BY <1>1 DEF NewFrame, Fits
  <2>2. UNCHANGED <<tool, file, events>>
    BY <2>1 DEF Unpacks
  <2>3. pos + FrameSize \in Nat
    BY Positions
  <2> QED BY <2>1, <2>2, <2>3, Positions, UnpacksKeeps
<1>2. CASE OldFrame
  <2>1. Unpacks(pos + 1, pos + FrameSize + 3) /\ pos + FrameSize + 3 <= Len(file)
    <3>1. pos + (FrameSize + 3) <= Len(file)
      BY <1>2 DEF OldFrame, Follows, Fits
    <3> QED BY <1>2, <3>1, Positions DEF OldFrame
  <2>2. UNCHANGED <<tool, file, events>>
    BY <2>1 DEF Unpacks
  <2>3. pos + FrameSize + 3 \in Nat /\ pos + 1 \in Nat /\ pos + 1 + FrameSize <= pos + FrameSize + 3
    BY Positions
  <2> QED BY <2>1, <2>2, <2>3, Positions, UnpacksKeeps
<1>3. CASE HkSkipped
  <2>1. /\ Moves(pos + 1 + HkSize) /\ pos + 1 + HkSize <= Len(file)
        /\ skipped' \subseteq 1..Len(file)
    BY <1>3, Positions DEF HkSkipped, Fits, WithinFile
  <2>2. pos + 1 + HkSize \in Nat
    BY Positions
  <2> QED BY <2>1, <2>2, MovesKeeps DEF Moves
<1>4. CASE Resynchronised
  <2>1. Moves(pos + 1) /\ pos + 1 <= Len(file) /\ skipped' \subseteq 1..Len(file)
    BY <1>4, Positions DEF Resynchronised, MovesOn, Fits, WithinFile
  <2>2. pos + 1 \in Nat
    BY Positions
  <2> QED BY <2>1, <2>2, MovesKeeps DEF Moves
<1> QED BY <1>1, <1>2, <1>3, <1>4

LEMMA ReaderKeepsSamples ==
  ASSUME SamplesRead, UNCHANGED <<tool, file, events>>
  PROVE  SamplesRead'
BY DEF SamplesRead

\* The frame at hand lies in the file.
LEMMA FrameAtHand ==
  ASSUME WithinFile, status = "unpacking"
  PROVE  frames[Len(frames)] \in Nat /\ frames[Len(frames)] + FrameSize <= Len(file)
<1>1. frames \in Seq(Nat) /\ frames # <<>>
  BY DEF WithinFile
<1>2. Len(frames) \in DOMAIN frames
  BY <1>1
<1> QED BY <1>1, <1>2 DEF WithinFile

\* Whatever the flags are read as, they are a set of channels.
LEMMA HitsAreChannels ==
  ASSUME WithinFile, status = "unpacking", NEW h \in Nat, NEW hits \in HitsAt(h)
  PROVE  hits \subseteq Channels
<1>1. CASE InFrame(h) /\ Frame(h).role = "hits"
  <2>1. frames[Len(frames)] + h + 1 \in 1..Len(file)
    BY <1>1, FrameAtHand, Positions, SMTT(30) DEF InFrame
  <2>2. \A p \in 1..Len(file) : file[p] \in Cells
    BY DEF WithinFile
  <2>3. Frame(h) \in Cells
    BY <2>1, <2>2 DEF Frame
  <2>4. Frame(h).hits \in SUBSET Channels
    BY <2>3 DEF Cells
  <2> QED BY <1>1, <2>4 DEF HitsAt
<1>2. CASE ~(InFrame(h) /\ Frame(h).role = "hits")
  BY <1>2 DEF HitsAt
<1> QED BY <1>1, <1>2

LEMMA EventUnpackedKeeps ==
  ASSUME WithinFile, SamplesRead, EventUnpacked
  PROVE  WithinFile' /\ SamplesRead'
<1>1. status = "unpacking" /\ Wanted /\ UNCHANGED <<tool, file, pos, frames, skipped, status>>
  BY DEF EventUnpacked, AtWholeHeader, Unpacking, Continues
<1> DEFINE start == frames[Len(frames)]
<1>2. start \in Nat /\ start + FrameSize <= Len(file)
  BY <1>1, FrameAtHand
<1>3. PICK hits \in HitsAt(head + 2) :
        /\ IsTrailer(head + EventSize(hits) - 1)
        /\ Delivered(hits) /\ Continues(head + EventSize(hits))
  BY DEF EventUnpacked
<1>4. hits \subseteq Channels
  <2>1. head + 2 \in Nat
    BY Positions
  <2> QED BY <1>1, <1>3, <2>1, HitsAreChannels
<1> DEFINE size == EventSize(hits)
           event == [at |-> start + head, hits |-> hits]
<1>5. size \in Nat /\ size >= 4
  BY <1>4, EventSizes
<1>6. head + size - 1 < FrameSize
  BY <1>3 DEF IsTrailer, InFrame
<1>7. head' = head + size /\ events' = Append(events, event)
  BY <1>3 DEF Continues, Delivered
<1> HIDE DEF size, start
<1>8. head' \in 0..FrameSize
  BY <1>5, <1>6, <1>7, Positions
<1>9. WithinFile'
  BY <1>1, <1>8 DEF WithinFile
<1>10. start + head \in Nat /\ start + head + size <= Len(file)
  BY <1>2, <1>5, <1>6, Positions
<1> DEFINE E == [at : Nat, hits : SUBSET Channels]
<1>11. event \in E /\ events \in Seq(E)
  BY <1>4, <1>10 DEF SamplesRead
<1> HIDE DEF E, event
<1>12. events' \in Seq(E) /\ Len(events') = Len(events) + 1 /\ Len(events) \in Nat
  BY <1>7, <1>11
<1>13. \A k \in DOMAIN events' : events'[k].at + EventSize(events'[k].hits) <= Len(file)
  <2>1. TAKE k \in DOMAIN events'
  <2>2. k \in 1..(Len(events) + 1)
    BY <1>12
  <2>3. CASE k = Len(events) + 1
    <3>1. events'[k] = event
      BY <1>7, <1>11, <2>3
    <3>2. event.at = start + head /\ EventSize(event.hits) = size
      BY DEF event, size
    <3> QED BY <3>1, <3>2, <1>10
  <2>4. CASE k # Len(events) + 1
    <3>1. k \in DOMAIN events /\ events'[k] = events[k]
      BY <1>7, <1>11, <2>2, <2>4
    <3>2. events[k].at + EventSize(events[k].hits) <= Len(file)
      BY <3>1 DEF SamplesRead
    <3> QED BY <3>1, <3>2
  <2> QED BY <2>3, <2>4
<1>14. tool = "calc_pedestal" => Len(events') <= MaxEvents
  BY <1>1, <1>12, RawDataAssumption DEF Wanted
<1>15. SamplesRead'
  BY <1>1, <1>12, <1>13, <1>14 DEF SamplesRead, E
<1> QED BY <1>9, <1>15

LEMMA EventSkippedKeeps ==
  ASSUME WithinFile, EventSkipped
  PROVE  WithinFile' /\ UNCHANGED <<tool, file, events>>
<1>1. PICK t \in head..(FrameSize - 1) : Continues(t + 1)
  BY DEF EventSkipped
<1>2. t + 1 \in 0..FrameSize
  BY Positions
<1>3. UNCHANGED <<tool, file, pos, frames, skipped, status, events>> /\ head' = t + 1
  BY <1>1 DEF EventSkipped, Continues
<1> QED BY <1>2, <1>3 DEF WithinFile

\* No step of the two programs' reading touches the rest of the pipeline.
LEMMA RawStepKeeps ==
  ASSUME Inv, RawStep, UNCHANGED <<medians, calcExit, delIn, delOut>>
  PROVE  Inv'
<1>1. WithinFile' /\ SamplesRead' /\ ~Piped /\ ~Piped'
  <2>1. WithinFile /\ SamplesRead
    BY DEF Inv
  <2>2. CASE NewFrame \/ OldFrame \/ HkSkipped \/ Resynchronised
    <3>1. ~Piped /\ ~Piped'
      BY <2>2 DEF NewFrame, OldFrame, HkSkipped, Resynchronised, Unpacks, MovesOn, Moves, Reading, Piped
    <3>2. WithinFile' /\ UNCHANGED <<tool, file, events>>
      BY <2>1, <2>2, ReaderKeeps
    <3> QED BY <2>1, <3>1, <3>2, ReaderKeepsSamples
  <2>3. CASE EventUnpacked
    <3>1. ~Piped /\ ~Piped'
      BY <2>3 DEF EventUnpacked, AtWholeHeader, Unpacking, Continues, Piped
    <3> QED BY <2>1, <2>3, <3>1, EventUnpackedKeeps
  <2>4. CASE EventSkipped
    <3>1. ~Piped /\ ~Piped'
      BY <2>4 DEF EventSkipped, AtWholeHeader, Unpacking, Continues, Piped
    <3>2. WithinFile' /\ UNCHANGED <<tool, file, events>>
      BY <2>1, <2>4, EventSkippedKeeps
    <3> QED BY <2>1, <3>1, <3>2, ReaderKeepsSamples
  <2>5. CASE ReadingEnds \/ FrameEnds \/ HeaderCutOff \/ TreeWritten
    <3>1. /\ UNCHANGED <<tool, file, pos, frames, skipped, head, events>>
          /\ status' # "unpacking" /\ ~Piped /\ ~Piped'
      BY <2>5 DEF ReadingEnds, FrameEnds, HeaderCutOff, TreeWritten, Unpacking, Piped
    <3>2. WithinFile'
      BY <2>1, <3>1 DEF WithinFile
    <3> QED BY <2>1, <3>1, <3>2, ReaderKeepsSamples
  <2> QED BY <2>2, <2>3, <2>4, <2>5 DEF RawStep
<1>2. status' \in {"reading", "unpacking", "read", "failed", "written"}
  BY DEF Inv, MediansOfEvents, RawStep, NewFrame, OldFrame, HkSkipped, Resynchronised, ReadingEnds,
         EventUnpacked, EventSkipped, FrameEnds, HeaderCutOff, TreeWritten, Unpacks, MovesOn, Moves,
         Continues, AtWholeHeader, Unpacking, Reading
<1>3. medians' = <<>> /\ calcExit' = "running" /\ delIn' = NoRegister /\ delOut' = NoRegister
  BY <1>1 DEF Inv, MediansOfEvents, RegisterOfMedians
<1>4. Cardinality(Channels) # 0
  BY RawDataAssumption, FS_EmptySet
<1>5. MediansOfEvents'
  BY <1>2, <1>3, <1>4 DEF MediansOfEvents
<1>6. RegisterOfMedians'
  BY <1>3 DEF RegisterOfMedians
<1> QED BY <1>1, <1>5, <1>6 DEF Inv

LEMMA ReadingOver ==
  ASSUME WithinFile, SamplesRead, UNCHANGED <<tool, file, pos, frames, skipped, head, events>>,
         status' # "unpacking"
  PROVE  WithinFile' /\ SamplesRead'
BY DEF WithinFile, SamplesRead

LEMMA MediansPrintedKeeps ==
  ASSUME Inv, MediansPrinted
  PROVE  Inv'
<1>1. /\ WithinFile /\ SamplesRead /\ status = "read" /\ status' = "printed"
      /\ UNCHANGED <<tool, file, pos, frames, skipped, head, events, delIn, delOut>>
  BY DEF Inv, MediansPrinted
<1>2. WithinFile' /\ SamplesRead'
  BY <1>1, ReadingOver
<1>3. PICK n \in 0..Cardinality(Channels) :
        /\ \A k \in 1..n : Hit(ChannelOf(k)) # {}
        /\ medians' = [k \in 1..n |-> Median(ChannelOf(k))]
        /\ calcExit' = IF n = Cardinality(Channels) THEN "success" ELSE "failure"
  BY DEF MediansPrinted
<1>4. Cardinality(Channels) \in Nat /\ n \in Nat
  BY ChannelSets
<1>5. \A k \in 1..n : Median(ChannelOf(k)) \in Int
  BY <1>1, <1>3, MedianIsCentral
<1>6. medians' \in Seq(Int) /\ Len(medians') = n /\ DOMAIN medians' = 1..n
  BY <1>3, <1>4, <1>5
<1>7. \A k \in 1..n : Hit(ChannelOf(k))' # {} /\ medians'[k] = Median(ChannelOf(k))'
  <2>1. TAKE k \in 1..n
  <2>2. Hit(ChannelOf(k))' = Hit(ChannelOf(k)) /\ Median(ChannelOf(k))' = Median(ChannelOf(k))
    BY <1>1, SameEvents
  <2> QED BY <1>3, <2>2
<1>8. MediansOfEvents'
  BY <1>1, <1>3, <1>6, <1>7 DEF MediansOfEvents, Piped
<1>9. RegisterOfMedians'
  <2>1. delIn = NoRegister /\ delOut = NoRegister
    BY <1>1 DEF Inv, RegisterOfMedians, Piped
  <2> QED BY <1>1, <2>1 DEF RegisterOfMedians
<1> QED BY <1>2, <1>8, <1>9 DEF Inv

LEMMA NothingPrintedKeeps ==
  ASSUME Inv, NothingPrinted
  PROVE  Inv'
<1>1. /\ WithinFile /\ SamplesRead /\ status = "failed" /\ status' = "printed"
      /\ calcExit' = "failure"
      /\ UNCHANGED <<tool, file, pos, frames, skipped, head, events, medians, delIn, delOut>>
  BY DEF Inv, NothingPrinted
<1>2. WithinFile' /\ SamplesRead'
  BY <1>1, ReadingOver
<1>3. medians' = <<>> /\ delIn' = NoRegister /\ delOut' = NoRegister
  BY <1>1 DEF Inv, MediansOfEvents, RegisterOfMedians, Piped
<1>4. Cardinality(Channels) # 0
  BY RawDataAssumption, FS_EmptySet
<1>5. MediansOfEvents'
  BY <1>1, <1>3, <1>4 DEF MediansOfEvents, Piped
<1>6. RegisterOfMedians'
  BY <1>3 DEF RegisterOfMedians
<1> QED BY <1>2, <1>5, <1>6 DEF Inv

\* What calc_pedestal has left is not touched by set_delreg.py.
LEMMA EndsKeeps ==
  ASSUME Inv, status = "printed", NEW outcome \in {"calibrated", "rejected"}, Ends(outcome)
  PROVE  WithinFile' /\ SamplesRead' /\ MediansOfEvents'
<1>1. /\ WithinFile /\ SamplesRead /\ MediansOfEvents /\ status' = outcome
      /\ UNCHANGED <<tool, file, pos, frames, skipped, head, events, medians, calcExit>>
  BY DEF Inv, Ends
<1>2. WithinFile' /\ SamplesRead'
  BY <1>1, ReadingOver
<1>3. \A k \in DOMAIN medians' : Hit(ChannelOf(k))' # {} /\ medians'[k] = Median(ChannelOf(k))'
  <2>1. TAKE k \in DOMAIN medians'
  <2>2. Hit(ChannelOf(k))' = Hit(ChannelOf(k)) /\ Median(ChannelOf(k))' = Median(ChannelOf(k))
    BY <1>1, SameEvents
  <2>3. Hit(ChannelOf(k)) # {} /\ medians[k] = Median(ChannelOf(k))
    BY <1>1, <2>1 DEF MediansOfEvents
  <2> QED BY <1>1, <2>2, <2>3
<1>4. Piped' /\ status' \in {"calibrated", "rejected"}
  BY <1>1 DEF Piped
<1>5. MediansOfEvents'
  BY <1>1, <1>3, <1>4 DEF MediansOfEvents
<1> QED BY <1>2, <1>5

LEMMA RegisterWrittenKeeps ==
  ASSUME Inv, RegisterWritten
  PROVE  Inv'
<1>1. /\ status = "printed" /\ status' = "calibrated" /\ medians' = medians
      /\ Len(medians) = Cardinality(Channels)
  BY DEF RegisterWritten, Ends
<1>2. PICK del \in Registers : delIn' = del /\ delOut' = NewRegister(del)
  BY DEF RegisterWritten
<1>3. NewRegister(del)' = NewRegister(del)
  BY <1>1, SameMedians
<1>4. del # NoRegister
  BY NoRegisterIsNone
<1>5. RegisterOfMedians'
  BY <1>1, <1>2, <1>3, <1>4 DEF RegisterOfMedians, Piped
<1>6. WithinFile' /\ SamplesRead' /\ MediansOfEvents'
  BY <1>1, EndsKeeps DEF RegisterWritten
<1> QED BY <1>5, <1>6 DEF Inv

LEMMA RegisterRejectedKeeps ==
  ASSUME Inv, RegisterRejected
  PROVE  Inv'
<1>1. /\ status = "printed" /\ status' = "rejected" /\ UNCHANGED <<medians, delIn, delOut>>
  BY DEF RegisterRejected, Ends
<1>2. delIn' = NoRegister /\ delOut' = NoRegister
  BY <1>1 DEF Inv, RegisterOfMedians
<1>3. RegisterOfMedians'
  BY <1>2 DEF RegisterOfMedians
<1>4. WithinFile' /\ SamplesRead' /\ MediansOfEvents'
  BY <1>1, EndsKeeps DEF RegisterRejected
<1> QED BY <1>3, <1>4 DEF Inv

\* The invariant holds of every behaviour, on every file.
THEOREM Invariance == Spec => []Inv
<1>1. ASSUME Inv, [Next]_vars PROVE Inv'
  <2>1. CASE RawStep /\ UNCHANGED <<medians, calcExit, delIn, delOut>>
    BY <1>1, <2>1, RawStepKeeps
  <2>2. CASE MediansPrinted
    BY <1>1, <2>2, MediansPrintedKeeps
  <2>3. CASE NothingPrinted
    BY <1>1, <2>3, NothingPrintedKeeps
  <2>4. CASE RegisterWritten
    BY <1>1, <2>4, RegisterWrittenKeeps
  <2>5. CASE RegisterRejected
    BY <1>1, <2>5, RegisterRejectedKeeps
  <2>6. CASE UNCHANGED vars
    <3>1. UNCHANGED <<tool, file, pos, frames, skipped, head, events, status, medians, calcExit, delIn,
                      delOut>>
      BY <2>6 DEF vars
    <3>2. WithinFile' /\ SamplesRead'
      BY <1>1, <3>1 DEF Inv, WithinFile, SamplesRead
    <3>3. \A k \in DOMAIN medians' :
            Hit(ChannelOf(k))' # {} /\ medians'[k] = Median(ChannelOf(k))'
      <4>1. TAKE k \in DOMAIN medians'
      <4>2. /\ Hit(ChannelOf(k))' = Hit(ChannelOf(k))
            /\ Median(ChannelOf(k))' = Median(ChannelOf(k))
        BY <3>1, SameEvents
      <4>3. Hit(ChannelOf(k)) # {} /\ medians[k] = Median(ChannelOf(k))
        BY <1>1, <3>1, <4>1 DEF Inv, MediansOfEvents
      <4> QED BY <3>1, <4>2, <4>3
    <3>4. MediansOfEvents'
      BY <1>1, <3>1, <3>3 DEF Inv, MediansOfEvents, Piped
    <3>5. RegisterOfMedians'
      <4>1. NewRegister(delIn)' = NewRegister(delIn)
        BY <3>1, SameMedians DEF NewRegister, Highest, Untrimmed
      <4> QED BY <1>1, <3>1, <4>1 DEF Inv, RegisterOfMedians, Piped
    <3> QED BY <3>2, <3>4, <3>5 DEF Inv
  <2> QED BY <1>1, <2>1, <2>2, <2>3, <2>4, <2>5, <2>6 DEF Next
<1> QED BY <1>1, Initially, PTL DEF Spec

\* Each printed median leaves at most half of the samples of its channel, of
\* which there are some, on either side, whatever the number of events; no more
\* than kMaxEvents events are used.
THEOREM MediansCorrect == Spec => []MediansCentral
<1>1. ASSUME Inv PROVE MediansCentral
  <2>1. WithinFile /\ SamplesRead /\ tool = "calc_pedestal" => Len(events) <= MaxEvents
    BY <1>1 DEF Inv, SamplesRead
  <2>2. ASSUME NEW k \in DOMAIN medians
        PROVE  LET c == ChannelOf(k) IN
               /\ 2 * Cardinality({j \in Hit(c) : 2 * Sample(events[j], c) < medians[k]})
                    <= Cardinality(Hit(c))
               /\ 2 * Cardinality({j \in Hit(c) : 2 * Sample(events[j], c) > medians[k]})
                    <= Cardinality(Hit(c))
    <3>1. Hit(ChannelOf(k)) # {} /\ medians[k] = Median(ChannelOf(k))
      BY <1>1 DEF Inv, MediansOfEvents
    <3>2. WithinFile /\ SamplesRead
      BY <1>1 DEF Inv
    <3> QED BY <3>1, <3>2, MedianIsCentral
  <2> QED BY <1>1, <2>1, <2>2 DEF MediansCentral, Inv
<1> QED BY <1>1, Invariance, PTL

\* A register is written only if calc_pedestal succeeded, which is read off the
\* number of its medians, and then every channel had samples.
THEOREM WholeOutputOnly == Spec => []RegisterFromWholeOutput
<1>1. ASSUME Inv PROVE RegisterFromWholeOutput
  <2>1. SUFFICES ASSUME delOut # NoRegister
                 PROVE  calcExit = "success" /\ \A c \in Channels : Hit(c) # {}
    BY DEF RegisterFromWholeOutput
  <2>2. Len(medians) = Cardinality(Channels)
    BY <1>1, <2>1 DEF Inv, RegisterOfMedians
  <2>3. calcExit = "success"
    BY <1>1, <2>2 DEF Inv, MediansOfEvents
  <2>4. ASSUME NEW c \in Channels PROVE Hit(c) # {}
    <3>1. Rank(c, Channels) \in DOMAIN medians
      BY <1>1, <2>2, ChannelSets DEF Inv, MediansOfEvents
    <3>2. ChannelOf(Rank(c, Channels)) = c
      BY ChannelOfRank
    <3> QED BY <1>1, <3>1, <3>2 DEF Inv, MediansOfEvents
  <2> QED BY <2>3, <2>4
<1> QED BY <1>1, Invariance, PTL

\* A written register brings each channel's pedestal to within half a unit of
\* the highest, or is at its end, whatever was measured.
THEOREM Aligned == Spec => []RegisterAligns
<1>1. ASSUME Inv PROVE RegisterAligns
  <2>1. SUFFICES ASSUME delOut # NoRegister, NEW c \in Channels
                 PROVE  LET aligned == Untrimmed(delIn)[c] + 2 * delOut[c] IN
                        \/ aligned \in (Highest(delIn) - 1)..(Highest(delIn) + 1)
                        \/ delOut[c] = MaxDel /\ aligned < Highest(delIn)
    BY DEF RegisterAligns
  <2>2. /\ delIn \in Registers /\ delOut = NewRegister(delIn)
        /\ medians \in Seq(Int) /\ Len(medians) = Cardinality(Channels)
    BY <1>1, <2>1 DEF Inv, RegisterOfMedians, MediansOfEvents
  <2> QED BY <2>2, NewSetting
<1> QED BY <1>1, Invariance, PTL

\* Every variable has its type; in particular the reader never leaves its file
\* and a written register fits into its bits.
THEOREM TypeCorrect == Spec => []TypeOK
<1>1. ASSUME Inv PROVE TypeOK
  <2>1. RawTypeOK
    BY <1>1 DEF Inv, WithinFile, SamplesRead, RawTypeOK
  <2>2. delIn \in Registers \union {NoRegister}
    BY <1>1 DEF Inv, RegisterOfMedians
  <2>3. delOut \in [Channels -> 0..MaxDel] \union {NoRegister}
    <3>1. SUFFICES ASSUME delOut # NoRegister PROVE delOut \in [Channels -> 0..MaxDel]
      OBVIOUS
    <3>2. /\ delIn \in Registers /\ delOut = NewRegister(delIn)
          /\ medians \in Seq(Int) /\ Len(medians) = Cardinality(Channels)
      BY <1>1, <3>1 DEF Inv, RegisterOfMedians, MediansOfEvents
    <3>3. \A c \in Channels : NewRegister(delIn)[c] \in 0..MaxDel
      BY <3>2, NewSetting
    <3>4. NewRegister(delIn) = [c \in Channels |-> NewRegister(delIn)[c]]
      BY DEF NewRegister
    <3> QED BY <3>2, <3>3, <3>4
  <2> QED BY <1>1, <2>1, <2>2, <2>3 DEF Inv, MediansOfEvents, TypeOK
<1> QED BY <1>1, Invariance, PTL

-----------------------------------------------------------------------------
(* Why no search goes on for ever.                                           *)

\* What is left of the frame at hand, and the programs that are still to run.
Stage ==
  CASE status = "unpacking" -> 5 + FrameSize - head
    [] status = "reading" -> 4
    [] status \in {"read", "failed"} -> 3
    [] status = "printed" -> 2
    [] OTHER -> 0

\* A cell that is left of the file weighs as much as all a frame can cost.
StepsLeft == (Len(file) - pos) * (FrameSize + 2) + Stage

\* A cell less outweighs the frame that may be entered for it.
LEMMA CellsWeigh ==
  ASSUME NEW left \in Nat, NEW now \in Nat, now < left,
         NEW size \in Nat, NEW stage \in Nat, stage <= 5 + size
  PROVE  now * (size + 2) + stage < left * (size + 2) + 4
<1> DEFINE weight == size + 2
           d == left - now - 1
<1>1. weight \in Nat /\ d \in Nat /\ left = (now + 1) + d
  OBVIOUS
<1>2. stage < weight + 4
  OBVIOUS
<1> HIDE DEF weight, d
<1>3. left * weight = (now + 1) * weight + d * weight
  BY <1>1
<1>4. (now + 1) * weight = now * weight + weight
  BY <1>1
<1>5. d * weight \in Nat /\ now * weight \in Nat
  BY <1>1
<1>6. now * weight + stage < left * weight + 4
  BY <1>1, <1>2, <1>3, <1>4, <1>5
<1> QED BY <1>6 DEF weight

LEMMA StepsLeftType ==
  ASSUME WithinFile
  PROVE  StepsLeft \in Nat /\ Stage \in Nat /\ (Len(file) - pos) * (FrameSize + 2) \in Nat
<1>1. Stage \in Nat
  <2>1. FrameSize \in Nat /\ head \in Nat /\ 5 + FrameSize - head \in Nat
    BY Positions DEF WithinFile
  <2> QED BY <2>1 DEF Stage
<1>2. Len(file) - pos \in Nat /\ FrameSize + 2 \in Nat
  BY Positions
<1>3. (Len(file) - pos) * (FrameSize + 2) \in Nat
  BY <1>2
<1> QED BY <1>1, <1>3 DEF StepsLeft

\* A step of the reader takes at least one cell off the file.
LEMMA ReaderAdvances ==
  ASSUME WithinFile,
         NewFrame \/ OldFrame \/ HkSkipped \/ Resynchronised
  PROVE  StepsLeft' < StepsLeft
<1>1. WithinFile' /\ file' = file
  BY ReaderKeeps
<1>2. /\ pos \in Nat /\ pos' \in Nat /\ pos < pos' /\ pos' <= Len(file) /\ Len(file) \in Nat
      /\ FrameSize \in Nat
  <2>1. pos < pos'
    <3>1. \/ pos' = pos + FrameSize \/ pos' = pos + FrameSize + 3
          \/ pos' = pos + 1 + HkSize \/ pos' = pos + 1
      BY DEF NewFrame, OldFrame, HkSkipped, Resynchronised, Unpacks, MovesOn, Moves
    <3> QED BY <3>1, Positions
  <2>2. pos' \in 0..Len(file)
    BY <1>1 DEF WithinFile
  <2> QED BY <2>1, <2>2, Positions
<1>3. Stage = 4
  BY DEF Stage, NewFrame, OldFrame, HkSkipped, Resynchronised, Reading
<1>4. Stage' \in Nat /\ Stage' <= 5 + FrameSize
  <2>1. CASE status' = "unpacking"
    <3>1. head' = 0
      BY <2>1 DEF NewFrame, OldFrame, HkSkipped, Resynchronised, Unpacks, MovesOn, Moves, Reading
    <3> QED BY <1>2, <2>1, <3>1 DEF Stage
  <2>2. CASE status' # "unpacking"
    BY <1>2, <2>2 DEF Stage
  <2> QED BY <2>1, <2>2
<1>5. /\ Len(file) - pos \in Nat /\ Len(file) - pos' \in Nat
      /\ Len(file) - pos' < Len(file) - pos
  BY <1>2
<1>6. (Len(file) - pos') * (FrameSize + 2) + Stage' < (Len(file) - pos) * (FrameSize + 2) + 4
  BY <1>2, <1>4, <1>5, CellsWeigh
<1> QED BY <1>1, <1>3, <1>6 DEF StepsLeft

\* Every other step leaves the reader where it is and lowers what is left.
LEMMA OthersAdvance ==
  ASSUME WithinFile, UNCHANGED <<file, pos>>, WithinFile', Stage' < Stage
  PROVE  StepsLeft' < StepsLeft
<1>1. /\ Stage \in Nat /\ Stage' \in Nat
      /\ (Len(file) - pos) * (FrameSize + 2) \in Nat
  <2>1. Stage \in Nat /\ (Len(file) - pos) * (FrameSize + 2) \in Nat
    BY StepsLeftType
  <2>2. Stage' \in Nat
    <3>1. head' \in 0..FrameSize /\ FrameSize \in Nat
      BY Positions DEF WithinFile
    <3> QED BY <3>1 DEF Stage
  <2> QED BY <2>1, <2>2
<1> QED BY <1>1 DEF StepsLeft

\* Each step of the pipeline uses up some of a finite supply, on every file: a
\* search for the next header or footer that stays where it is would not.  What
\* is left to fairness in Terminates is that the programs go on at all.
THEOREM Progress == Spec => [][StepsLeft' < StepsLeft /\ StepsLeft \in Nat]_vars
<1>1. ASSUME Inv, Inv', [Next]_vars
      PROVE  [StepsLeft' < StepsLeft /\ StepsLeft \in Nat]_vars
  <2>1. WithinFile /\ WithinFile' /\ head \in 0..FrameSize /\ FrameSize \in Nat
    BY <1>1, Positions DEF Inv, WithinFile
  <2> SUFFICES ASSUME Next PROVE StepsLeft' < StepsLeft
    BY <1>1, <2>1, StepsLeftType
  <2>2. CASE NewFrame \/ OldFrame \/ HkSkipped \/ Resynchronised
    BY <2>1, <2>2, ReaderAdvances
  <2>3. CASE EventUnpacked
    <3>1. UNCHANGED <<file, pos, status>> /\ status = "unpacking"
      BY <2>3 DEF EventUnpacked, AtWholeHeader, Unpacking, Continues
    <3>2. PICK hits \in HitsAt(head + 2) : head' = head + EventSize(hits)
      BY <2>3 DEF EventUnpacked, Continues
    <3>3. EventSize(hits) \in Nat /\ EventSize(hits) >= 4
      <4>1. head + 2 \in Nat
        BY <2>1
      <4>2. hits \subseteq Channels
        BY <2>1, <3>1, <3>2, <4>1, HitsAreChannels
      <4> QED BY <4>2, EventSizes
    <3>4. Stage' < Stage
      BY <2>1, <3>1, <3>2, <3>3 DEF Stage
    <3> QED BY <2>1, <3>1, <3>4, OthersAdvance
  <2>4. CASE EventSkipped
    <3>1. UNCHANGED <<file, pos, status>> /\ status = "unpacking"
      BY <2>4 DEF EventSkipped, AtWholeHeader, Unpacking, Continues
    <3>2. PICK t \in head..(FrameSize - 1) : head' = t + 1
      BY <2>4 DEF EventSkipped, Continues
    <3>3. Stage' < Stage
      BY <2>1, <3>1, <3>2 DEF Stage
    <3> QED BY <2>1, <3>1, <3>3, OthersAdvance
  <2>5. CASE ReadingEnds \/ FrameEnds \/ HeaderCutOff \/ TreeWritten
    <3>1. UNCHANGED <<file, pos>>
      BY <2>5 DEF ReadingEnds, FrameEnds, HeaderCutOff, TreeWritten
    <3>2. Stage' < Stage
      BY <2>1, <2>5 DEF ReadingEnds, FrameEnds, HeaderCutOff, TreeWritten, Unpacking, Stage
    <3> QED BY <2>1, <3>1, <3>2, OthersAdvance
  <2>6. CASE MediansPrinted \/ NothingPrinted \/ RegisterWritten \/ RegisterRejected
    <3>1. UNCHANGED <<file, pos>>
      BY <2>6 DEF MediansPrinted, NothingPrinted, RegisterWritten, RegisterRejected, Ends
    <3>2. Stage' < Stage
      BY <2>6 DEF MediansPrinted, NothingPrinted, RegisterWritten, RegisterRejected, Ends, Stage
    <3> QED BY <2>1, <3>1, <3>2, OthersAdvance
  <2> QED BY <2>2, <2>3, <2>4, <2>5, <2>6 DEF Next, RawStep
<1> QED BY <1>1, Invariance, PTL DEF Spec

=============================================================================
