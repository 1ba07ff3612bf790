------------------------------ MODULE RawData ------------------------------
(***************************************************************************)
(* The readers of raw files: RawDataFile, which returns frames and finds   *)
(* its way back to them after lost bytes, FrameAnalyzer, which unpacks the *)
(* events of a frame, and the main loops of raw2root and calc_pedestal     *)
(* around the two.  A file is a sequence of cells.  One cell stands for a  *)
(* header or a footer, or for a part of a body, and a body may look like   *)
(* any header or footer.  Searches move by cells: what they are looking    *)
(* for, where it lies across two cells, counts as the later one's.         *)
(***************************************************************************)
EXTENDS Integers, Sequences, FiniteSets

CONSTANTS
  Channels,     \* channels of the ASIC
  FrameSize,    \* kFrameSize, in cells
  HkSize,       \* size of the body of an HK record, in cells
  MaxEvents,    \* kMaxEvents
  WholeFiles,   \* the files that were written
  Damaged(_)    \* what may be left of such a file when it is read

VARIABLES
  tool,         \* the program that reads: raw2root or calc_pedestal
  file,         \* what it reads
  pos,          \* file_.tellg()
  frames,       \* where the frames returned so far begin
  skipped,      \* where the HK records skipped so far begin
  head,         \* head_, in the last of them
  events,       \* the valid events returned so far, in order
  status        \* what the program is doing, and how it ended

rawVars == <<tool, file, pos, frames, skipped, head, events, status>>

-----------------------------------------------------------------------------
(* The program sees what the contents of a cell look like to the checks for  *)
(* headers and footers, kind, and what they are as channel flags and as      *)
(* sample. It does not see as what the cell was written, role, nor where,    *)
(* record and index, nor whether its contents have been altered since.       *)

RecordKinds == {"data", "hk", "foot", "time"}
EventKinds  == {"event", "fixed", "hits", "adc", "cmn", "trailer"}
CellKinds   == RecordKinds \union EventKinds \union {"fill", "hkword"}

Cells == [kind : CellKinds, hits : SUBSET Channels, adc : Int,
          role : CellKinds, altered : BOOLEAN, record : Nat, index : Nat]

ASSUME RawDataAssumption ==
  /\ Channels \subseteq Nat /\ IsFiniteSet(Channels) /\ Channels # {}
  /\ FrameSize \in Nat \ {0} /\ HkSize \in 0..FrameSize /\ MaxEvents \in Nat \ {0}
  /\ \A f \in WholeFiles : Damaged(f) \subseteq Seq(Cells)

Written(cell) == ~cell.altered
KindWritten(p) == file[p].role

\* Part of a body that looks like something else.
LookAlike(p) == Written(file[p]) /\ file[p].kind # file[p].role

RawInit ==
  /\ tool \in {"raw2root", "calc_pedestal"} /\ \E f \in WholeFiles : file \in Damaged(f)
  /\ pos = 0 /\ frames = <<>> /\ skipped = {} /\ head = 0 /\ events = <<>> /\ status = "reading"

-----------------------------------------------------------------------------
(* RawDataFile::GetNextFrame.                                                *)

\* Headers of the old format begin with the same three bytes.
IsOldFormat == Len(file) > 0 /\ file[1].kind \in {"data", "hk"}

\* calc_pedestal stops at kMaxEvents.
Wanted == tool = "calc_pedestal" => Len(events) < MaxEvents

Fits(n) == pos + n <= Len(file)
Header == file[pos + 1].kind
Follows(kind, n) == Fits(n) /\ file[pos + n].kind = kind

Reading == status = "reading" /\ Wanted

Unpacks(start, next) ==
  /\ frames' = Append(frames, start) /\ pos' = next /\ head' = 0 /\ status' = "unpacking"
  /\ UNCHANGED <<tool, file, skipped, events>>

NewFrame ==
  /\ Reading /\ ~IsOldFormat /\ Fits(FrameSize)
  /\ Unpacks(pos, pos + FrameSize)

\* Fault: the footer is skipped unread.
OldFrameUnchecked ==
  /\ Reading /\ IsOldFormat /\ Follows("data", 1) /\ Fits(FrameSize + 3)
  /\ Unpacks(pos + 1, pos + FrameSize + 3)

\* Header, frame, time and footer.
OldFrame ==
  /\ Reading /\ IsOldFormat /\ Follows("data", 1) /\ Follows("foot", FrameSize + 3)
  /\ Unpacks(pos + 1, pos + FrameSize + 3)

Moves(next) == pos' = next /\ UNCHANGED <<tool, file, frames, head, events, status>>
MovesOn == Moves(pos + 1) /\ UNCHANGED skipped

\* An HK record is skipped. It is read without a footer.
HkSkipped ==
  /\ Reading /\ IsOldFormat /\ Follows("hk", 1) /\ Fits(1 + HkSize)
  /\ Moves(pos + 1 + HkSize) /\ skipped' = skipped \union {pos + 1}

\* Fault: the search goes on behind the record whose footer is missing.
ResynchronisedBehind ==
  /\ Reading /\ IsOldFormat /\ Fits(1)
  /\ \/ Header \notin {"data", "hk"} /\ Moves(pos + 1)
     \/ Header = "data" /\ Fits(FrameSize + 3) /\ ~Follows("foot", FrameSize + 3)
        /\ Moves(pos + FrameSize + 3)
  /\ UNCHANGED skipped

\* Fault: the search does not move.
ResynchronisedHere ==
  /\ Reading /\ IsOldFormat /\ Fits(1)
  /\ \/ Header \notin {"data", "hk"}
     \/ Header = "data" /\ Fits(FrameSize + 3) /\ ~Follows("foot", FrameSize + 3)
  /\ Moves(pos) /\ UNCHANGED skipped

\* No header, or a data record without its footer: the search goes on one
\* further. (misalignment_count_, which is never read, is left out.)
Resynchronised ==
  /\ Reading /\ IsOldFormat /\ Fits(1)
  /\ \/ Header \notin {"data", "hk"}
     \/ Header = "data" /\ Fits(FrameSize + 3) /\ ~Follows("foot", FrameSize + 3)
  /\ MovesOn

\* What is left is shorter than what begins here, or enough events were read.
ReadingEnds ==
  /\ status = "reading"
  /\ \/ ~Wanted
     \/ ~IsOldFormat /\ ~Fits(FrameSize)
     \/ IsOldFormat /\ ~Fits(1)
     \/ IsOldFormat /\ Follows("hk", 1) /\ ~Fits(1 + HkSize)
     \/ IsOldFormat /\ Follows("data", 1) /\ ~Fits(FrameSize + 3)
  /\ status' = "read"
  /\ UNCHANGED <<tool, file, pos, frames, skipped, head, events>>

-----------------------------------------------------------------------------
(* FrameAnalyzer::UnpackNextEvent.                                           *)

Frame(h) == file[frames[Len(frames)] + h + 1]
InFrame(h) == h < FrameSize
IsTrailer(h) == InFrame(h) /\ Frame(h).kind = "trailer"

\* The channel flags. Any bits are taken for flags, also those behind the end of
\* the frame, since they are read without looking at its size.
HitsAt(h) ==
  IF InFrame(h) /\ Frame(h).role = "hits" THEN {Frame(h).hits} ELSE SUBSET Channels

\* An ASIC without hits sends its header only, else it sends its samples and
\* the common mode: the size of the event depends on its hits.
EventSize(hits) == 4 + IF hits = {} THEN 0 ELSE Cardinality(hits) + 1

Unpacking == status = "unpacking" /\ Wanted
AtEvent == InFrame(head) /\ Frame(head).kind = "event"

Continues(next) == head' = next /\ UNCHANGED <<tool, file, pos, frames, skipped, status>>

\* The header and the 20 bytes behind it.
AtWholeHeader == Unpacking /\ AtEvent /\ InFrame(head + 1)

Delivered(hits) ==
  events' = Append(events, [at |-> frames[Len(frames)] + head, hits |-> hits])

\* Fault: the event is taken for valid without a look at its footer.
EventUncheckedTrailer ==
  /\ AtWholeHeader
  /\ \E hits \in HitsAt(head + 2) :
       /\ InFrame(head + EventSize(hits) - 1)
       /\ Delivered(hits) /\ Continues(head + EventSize(hits))

EventUnpacked ==
  /\ AtWholeHeader
  /\ \E hits \in HitsAt(head + 2) :
       /\ IsTrailer(head + EventSize(hits) - 1)
       /\ Delivered(hits) /\ Continues(head + EventSize(hits))

Found(t, from) == t >= from /\ IsTrailer(t) /\ \A u \in from..(t - 1) : ~IsTrailer(u)

\* Fault: the rest of the frame is skipped with an event without footer.
EventSkippedWithFrame ==
  /\ AtWholeHeader
  /\ \E hits \in HitsAt(head + 2) :
       /\ InFrame(head + EventSize(hits) - 1) /\ ~IsTrailer(head + EventSize(hits) - 1)
  /\ Continues(FrameSize) /\ UNCHANGED events

\* The footer is not where the hits say: the event is invalid, which both
\* programs skip, and the next footer is searched for.
EventSkipped ==
  /\ AtWholeHeader
  /\ \E hits \in HitsAt(head + 2), t \in head..(FrameSize - 1) :
       /\ ~IsTrailer(head + EventSize(hits) - 1)
       /\ Found(t, head + EventSize(hits) - 1)
       /\ Continues(t + 1)
  /\ UNCHANGED events

\* A footer that was not written as one may lie across the beginning of its
\* cell. The search that stops there leaves the reader inside of the cell.
Inside(t) == Frame(t).altered \/ Frame(t).role # "trailer"

\* There is no event, or none that can be unpacked, in the rest of the frame.
FrameEnds ==
  /\ status = "unpacking"
  /\ \/ ~Wanted
     \/ ~AtEvent
     \/ /\ InFrame(head + 1)
        /\ \E hits \in HitsAt(head + 2) :
             LET from == head + EventSize(hits) - 1
             IN  \A t \in from..(FrameSize - 1) : Found(t, from) => t # from /\ Inside(t)
  /\ status' = "reading"
  /\ UNCHANGED <<tool, file, pos, frames, skipped, head, events>>

\* A header in the last bytes of the frame: out_of_range, which ends the program.
HeaderCutOff ==
  /\ Unpacking /\ AtEvent /\ ~InFrame(head + 1)
  /\ status' = "failed"
  /\ UNCHANGED <<tool, file, pos, frames, skipped, head, events>>

\* raw2root writes the tree of all events.
TreeWritten ==
  /\ tool = "raw2root" /\ status = "read" /\ status' = "written"
  /\ UNCHANGED <<tool, file, pos, frames, skipped, head, events>>

RawStep ==
  \/ NewFrame \/ OldFrame \/ HkSkipped \/ Resynchronised \/ ReadingEnds
  \/ EventUnpacked \/ EventSkipped \/ FrameEnds \/ HeaderCutOff \/ TreeWritten

-----------------------------------------------------------------------------
(* Safety.                                                                   *)

RawTypeOK ==
  /\ tool \in {"raw2root", "calc_pedestal"}
  /\ pos \in 0..Len(file) /\ head \in 0..FrameSize
  /\ frames \in Seq(Nat)
  /\ \A k \in DOMAIN frames : frames[k] + FrameSize <= Len(file)
  /\ skipped \subseteq 1..Len(file)
  /\ events \in Seq([at : Nat, hits : SUBSET Channels])
  /\ status = "unpacking" => frames # <<>>

\* Cells of one record in the order in which they were written.
Unbroken(first, last) ==
  \A p \in first..(last - 1) :
    /\ file[p + 1].record = file[p].record
    /\ file[p + 1].index = file[p].index + 1

\* A frame of the old format is the frame of one record: frames are never
\* pieced together from what is left of two, wherever the loss, but for a part
\* of a body that looks like a header or a footer right where one is expected.
FramesGenuine ==
  IsOldFormat =>
    \A k \in DOMAIN frames :
      LET p == frames[k]
      IN  Unbroken(p, p + FrameSize + 2) \/ LookAlike(p) \/ LookAlike(p + FrameSize + 2)

\* How far the events had to be looked at.
Horizon == IF Wanted THEN Len(file) ELSE events[Len(events)].at

\* The file was read to its end.
Over == status = "read"

\* A data record is there from its header at p on, unaltered.
Intact(p) ==
  /\ p + FrameSize + 2 <= Len(file)
  /\ KindWritten(p) = "data" /\ Unbroken(p, p + FrameSize + 2)
  /\ \A q \in p..(p + FrameSize + 2) : Written(file[q])

\* p lies in what was returned as a frame because part of a body looked like
\* its header or its footer.
InFalseFrame(p) ==
  \E k \in DOMAIN frames :
    /\ p \in (frames[k] + 1)..(frames[k] + FrameSize + 2)
    /\ LookAlike(frames[k]) \/ LookAlike(frames[k] + FrameSize + 2)

\* p lies within the length of an HK record behind what was taken for one.
BehindHk(p) ==
  \E s \in skipped : file[s].kind = "hk" /\ p \in (s + 1)..(s + HkSize)

\* After a loss, each intact record is found again, whatever the bodies hold,
\* unless the reader was led past its header.
IntactFramesReturned ==
  Over /\ IsOldFormat =>
    \A p \in 1..Len(file) :
      p < Horizon /\ Intact(p) =>
        (\E k \in DOMAIN frames : frames[k] = p) \/ InFalseFrame(p) \/ BehindHk(p)

\* What was returned as the frame behind p is a frame as it was written. In a
\* file read in the wrong format, or with a false frame, it may not be.
AsWritten(p) ==
  /\ file[p + 1].index \in {1, 2} /\ KindWritten(p + 1) \notin {"data", "hk", "hkword"}
  /\ Unbroken(p + 1, p + FrameSize)

\* The file lost its very first header and is read in the wrong format.
Misread ==
  /\ file # <<>> /\ ~IsOldFormat
  /\ file[1].index # 1 \/ KindWritten(1) \in {"data", "hk"}

\* An event as it was written, unless its channel flags are damaged.
Genuine(first, last) ==
  /\ Unbroken(first, last)
  /\ Written(file[first + 2]) =>
       \A p \in first..last :
         /\ KindWritten(p) = "event" <=> p = first
         /\ KindWritten(p) = "trailer" <=> p = last

\* A valid event has its footer, or what looks like one. If its header is one,
\* it was written, whole and in order, and a frame as it was written has others
\* only behind damage.
EventsGenuine ==
  \A k \in DOMAIN events :
    LET first == events[k].at + 1
        last  == events[k].at + EventSize(events[k].hits)
    IN  /\ Written(file[last]) => KindWritten(last) = "trailer" \/ LookAlike(last)
        /\ \E j \in DOMAIN frames :
             /\ first > frames[j] /\ last <= frames[j] + FrameSize
             /\ IF KindWritten(first) = "event"
                THEN Misread \/ AsWritten(frames[j]) => Genuine(first, last)
                ELSE AsWritten(frames[j]) =>
                       \E p \in (frames[j] + 1)..first : ~Written(file[p])

\* The search for the footer that is missing at p stops before the event at
\* first, at part of a body that looks like a footer.
StopsAstray(p, first) ==
  /\ KindWritten(p) = "trailer"
  /\ \E q \in (p + 1)..(first - 1) :
       /\ LookAlike(q) /\ file[q].kind = "trailer"
       /\ \A r \in (p + 1)..q : KindWritten(r) # "trailer"

\* What the event from first to last can be lost to: an altered header or
\* altered channel flags up to it in its frame, its own footer, that of the
\* event before it, or one from which the search goes astray.
LostTo(p, first, last) ==
  \/ KindWritten(p) \in {"event", "hits"}
  \/ p = last \/ p = first - 1
  \/ StopsAstray(p, first)

\* Of each such frame every event is delivered but for these.
EventsDelivered ==
  Over =>
    \A k \in DOMAIN frames : AsWritten(frames[k]) =>
      \A first, last \in (frames[k] + 1)..(frames[k] + FrameSize) :
        /\ first < last /\ first <= Horizon
        /\ KindWritten(first) = "event" /\ KindWritten(last) = "trailer"
        /\ \A p \in first..(last - 1) : KindWritten(p) # "trailer"
        => \/ \E j \in DOMAIN events : events[j].at = first - 1
           \/ \E p \in (frames[k] + 1)..last : ~Written(file[p]) /\ LostTo(p, first, last)

\* A program gives up only over a damaged frame, or one that is none, whose end
\* looks like the header of an event.
GivesUpOnlyOnDamage ==
  status = "failed" =>
    LET start == frames[Len(frames)]
        last  == start + FrameSize
    IN  AsWritten(start) =>
          /\ file[last].kind = "event" /\ KindWritten(last) # "event"
          /\ \E p \in (start + 1)..last : ~Written(file[p])

\* Damage reaches neither back, nor into another frame: what follows it in its
\* frame may be lost, and a program may give up, but no more.
DamageContained == EventsDelivered /\ GivesUpOnlyOnDamage

=============================================================================
