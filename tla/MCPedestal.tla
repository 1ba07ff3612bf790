----------------------------- MODULE MCPedestal -----------------------------
(* Instances of Pedestal for TLC, and the raw files they read: two frames in *)
(* the new format, or, in the old format, two frames with an HK record       *)
(* between them, with one damage.                                            *)
EXTENDS Pedestal, RawFiles

TwoChannels == {0, 1}
AllRegisters == [Channels -> 0..MaxDel]

Word(kind, hits, adc) ==
  [kind |-> kind, hits |-> hits, adc |-> adc,
   role |-> kind, altered |-> FALSE, record |-> 0, index |-> 0]
Plain(kind) == Word(kind, {}, 0)
Hits(hits)  == Word("hits", hits, 0)
Adc(value)  == Word("adc", {}, value)
Cmn(value)  == Word("cmn", {}, value)
Repeated(cell, n) == [i \in 1..n |-> cell]
Seeming(cell, kind) == [cell EXCEPT !.kind = kind]

EventWith(fixed, body) == <<Plain("event"), fixed>> \o body \o <<Plain("trailer")>>
Event(body)   == EventWith(Plain("fixed"), body)
Both(x, y, c) == Event(<<Hits({0, 1}), Adc(x), Adc(y), Cmn(c)>>)
One(x, c)     == Event(<<Hits({0}), Adc(x), Cmn(c)>>)
Empty         == Event(<<Hits({})>>)

Filled(cells) == cells \o Repeated(Plain("fill"), FrameSize - Len(cells))
FrameContents ==
  {Filled(Both(3, 1, 1) \o Both(0, 2, 0)), Filled(One(1, 0) \o Both(3, 0, 0)),
   Filled(Empty \o One(2, 1) \o Empty), Filled(One(3, 0))}

\* Event counters, samples and filling that look like headers and footers.
EmptyLike(kind)     == EventWith(Seeming(Plain("fixed"), kind), <<Hits({})>>)
OneLike(x, kind, c) == Event(<<Hits({0}), Seeming(Adc(x), kind), Cmn(c)>>)
FilledLike(cells, kinds) ==
  cells \o [i \in 1..(FrameSize - Len(cells)) |->
              IF i \in DOMAIN kinds THEN Seeming(Plain("fill"), kinds[i]) ELSE Plain("fill")]

Indexed(cells, r) ==
  [i \in DOMAIN cells |-> [cells[i] EXCEPT !.record = r, !.index = i]]
OldRecord(frame) ==
  <<Plain("data")>> \o frame \o <<Plain("time"), Plain("foot")>>
HkRecord(last) == <<Plain("hk")>> \o Repeated(Plain("hkword"), HkSize - 1) \o <<last>>

NewFile(f, g) == Indexed(f, 1) \o Indexed(g, 2)
OldFile(f, word, g) ==
  Indexed(OldRecord(f), 1) \o Indexed(HkRecord(word), 2) \o Indexed(OldRecord(g), 3)

\* In the first pair the search for the footer of the first event may stop in
\* the second; in the second pair a false frame may be read from one record to
\* the next; in the third filling may be read as an event.
LookAlikePairs ==
  {<<Filled(Empty \o EmptyLike("trailer") \o Empty), Filled(OneLike(2, "trailer", 0) \o One(1, 1))>>,
   <<FilledLike(One(3, 0), <<"data">>), Filled(EmptyLike("foot") \o Both(2, 3, 1))>>,
   <<FilledLike(One(3, 0), <<"trailer", "event", "fill", "fill", "trailer">>),
     Filled(OneLike(1, "data", 0))>>}

FilesWritten ==
  {NewFile(f, g) : f, g \in FrameContents} \union
  {OldFile(f, Plain("hkword"), g) : f, g \in FrameContents} \union
  {NewFile(pair[1], pair[2]) : pair \in LookAlikePairs} \union
  {OldFile(pair[1], Seeming(Plain("hkword"), "hk"), pair[2]) : pair \in LookAlikePairs}

\* A file cut short; cells lost from a file of the old format; a cell
\* overwritten by another.
CutShort(f) == {SubSeq(f, 1, n) : n \in 0..Len(f)}
Without(f) ==
  IF f[1].role # "data" THEN {}
  ELSE {SubSeq(f, 1, n) \o SubSeq(f, n + k + 1, Len(f)) :
          n \in 0..(Len(f) - FrameSize - 2), k \in {1, 2, HkSize, FrameSize + 2}}
Replacements ==
  {Plain("event"), Plain("trailer"), Plain("hk"), Plain("data"), Plain("foot"),
   Hits({1}), Hits({0, 1})}
Overwritten(f) ==
  {[f EXCEPT ![p] = [new EXCEPT !.record = f[p].record, !.index = f[p].index,
                                !.role = f[p].role, !.altered = TRUE]] :
     p \in DOMAIN f, new \in Replacements}

WithOneDamage(f) == CutShort(f) \union Without(f) \union Overwritten(f)

=============================================================================
