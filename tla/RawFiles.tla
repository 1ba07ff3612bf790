------------------------------ MODULE RawFiles ------------------------------
(***************************************************************************)
(* How the raw files that are read were laid out when they were written,   *)
(* and what one damage may leave of them.  The theorems on which frames    *)
(* and events are returned assume this much of WholeFiles and Damaged, and *)
(* no more: any number of records, in any order, of any size, holding any  *)
(* events, and in the bodies of records and events anything at all, also   *)
(* what looks like a header or a footer.                                   *)
(***************************************************************************)
EXTENDS RawData

-----------------------------------------------------------------------------
(* Whole files.                                                              *)

Marks == {"data", "hk", "foot", "event", "trailer"}

LastOf(f, p) == p + EventSize(f[p + 2].hits) - 1

\* An event begins at p and lies before the end.
IsEvent(f, p, end) ==
  /\ p + 3 <= end /\ LastOf(f, p) <= end
  /\ f[p].role = "event" /\ f[p + 2].role = "hits" /\ f[LastOf(f, p)].role = "trailer"
  /\ \A q \in (p + 1)..(LastOf(f, p) - 1) : f[q].role \in EventKinds \ {"event", "trailer"}

\* A frame behind s: events, and filling behind the last of them, which does not
\* begin like another event.
IsFrame(f, s) ==
  \A q \in (s + 1)..(s + FrameSize) :
    \/ \E p \in (s + 1)..q : IsEvent(f, p, s + FrameSize) /\ q <= LastOf(f, p)
    \/ /\ \A r \in q..(s + FrameSize) : f[r].role = "fill"
       /\ f[q].kind = "event" => q > s + 1 /\ f[q - 1].role = "fill"

IsRecord(f, p, size) ==
  /\ p + size - 1 <= Len(f)
  /\ \A q \in p..(p + size - 1) : f[q].record = f[p].record /\ f[q].index = q - p + 1

IsDataRecord(f, p) ==
  /\ IsRecord(f, p, FrameSize + 3) /\ f[p].role = "data" /\ IsFrame(f, p)
  /\ f[p + FrameSize + 1].role = "time" /\ f[p + FrameSize + 2].role = "foot"

IsHkRecord(f, p) ==
  /\ IsRecord(f, p, HkSize + 1) /\ f[p].role = "hk"
  /\ \A q \in (p + 1)..(p + HkSize) : f[q].role = "hkword"

\* In the new format there is nothing but frames.
IsNewRecord(f, p) == IsRecord(f, p, FrameSize) /\ IsFrame(f, p - 1)

IsOldFile(f) ==
  \A q \in DOMAIN f : \E p \in 1..q :
    \/ IsDataRecord(f, p) /\ q <= p + FrameSize + 2
    \/ IsHkRecord(f, p) /\ q <= p + HkSize

IsNewFile(f) ==
  \A q \in DOMAIN f : \E p \in 1..q : IsNewRecord(f, p) /\ q <= p + FrameSize - 1

\* Every cell is where and what it was when it was written, and headers and
\* footers look like what they are.
IsWhole(f) ==
  /\ f \in Seq(Cells) /\ \A p \in DOMAIN f : Written(f[p])
  /\ \A p \in DOMAIN f : f[p].role \in Marks => f[p].kind = f[p].role
  /\ \A p, q \in DOMAIN f : f[p].record = f[q].record => f[q].index - f[p].index = q - p
  /\ IsOldFile(f) \/ IsNewFile(f)

-----------------------------------------------------------------------------
(* One damage: what it leaves of f is g.                                     *)

IsCutShort(f, g) == Len(g) <= Len(f) /\ \A p \in DOMAIN g : g[p] = f[p]

\* Bytes were lost behind n, less than a data record has. (A loss of just a
\* record's length can leave the beginning of one record and the end of the
\* next, with a footer where it should be.)
HasLost(f, g) ==
  LET lost == Len(f) - Len(g) IN
  /\ lost \in 1..(FrameSize + 2)
  /\ \E n \in 0..Len(g) : \A p \in DOMAIN g : g[p] = f[IF p <= n THEN p ELSE p + lost]

IsOverwritten(f, g) ==
  /\ Len(g) = Len(f)
  /\ \E x \in DOMAIN f :
       /\ \A p \in DOMAIN f \ {x} : g[p] = f[p]
       /\ g[x].altered /\ g[x].role = f[x].role
       /\ g[x].record = f[x].record /\ g[x].index = f[x].index

ASSUME DamageAssumption ==
  \A f \in WholeFiles :
    LET old == IsOldFile(f) IN
    /\ IsWhole(f)
    /\ \A g \in Damaged(f) :
         IsCutShort(f, g) \/ IsOverwritten(f, g) \/ (old /\ HasLost(f, g))

=============================================================================
