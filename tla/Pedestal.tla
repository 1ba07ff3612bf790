------------------------------ MODULE Pedestal ------------------------------
(***************************************************************************)
(* The calibration that do_pedcalib_readout_foreground runs as a shell     *)
(* pipeline: calc_pedestal prints the median pedestal of each channel of   *)
(* a raw file, set_delreg.py corrects the Del register of a VAREG file by  *)
(* them.  The status of the pipeline is that of set_delreg.py alone.       *)
(* Medians are kept doubled, so that they are integers.                    *)
(***************************************************************************)
EXTENDS RawData

CONSTANTS
  Registers,    \* the Del registers found in VAREG files
  MaxDel        \* largest value of a Del register, 63

ASSUME PedestalAssumption ==
  /\ MaxDel \in Nat
  /\ Registers \subseteq [Channels -> 0..MaxDel]

VARIABLES
  medians,      \* what calc_pedestal has printed: channel by channel, doubled
  calcExit,     \* its exit status, which nobody looks at
  delIn,        \* the Del register in the file given to --in
  delOut        \* the one in the file written to --out

vars ==
  <<tool, file, pos, frames, skipped, head, events, status, medians, calcExit, delIn, delOut>>

NoRegister == [c \in Channels |-> -1]

Init ==
  /\ RawInit
  /\ medians = <<>> /\ calcExit = "running" /\ delIn = NoRegister /\ delOut = NoRegister

-----------------------------------------------------------------------------
(* calc_pedestal.                                                            *)

\* Channels are taken in their order, in events as in what is printed.
Rank(c, S) == Cardinality({d \in S : d <= c})
ChannelOf(k) == CHOOSE c \in Channels : Rank(c, Channels) = k

\* adc_data[channel] - cmn of an event with a hit in the channel.
Sample(event, c) ==
  file[event.at + 3 + Rank(c, event.hits)].adc
    - file[event.at + 4 + Cardinality(event.hits)].adc

Hit(c) == {k \in DOMAIN events : c \in events[k].hits}

\* std::nth_element: the sample that would be at place n, from 0, in order.
NthElement(c, n) ==
  CHOOSE v \in {Sample(events[k], c) : k \in Hit(c)} :
    /\ Cardinality({k \in Hit(c) : Sample(events[k], c) < v}) <= n
    /\ Cardinality({k \in Hit(c) : Sample(events[k], c) <= v}) > n

\* Fault: the middle is taken from the samples as they came.
MedianUnordered(c) ==
  LET before(k) == Cardinality({j \in Hit(c) : j < k})
      middle == Cardinality(Hit(c)) \div 2
  IN  2 * Sample(events[CHOOSE k \in Hit(c) : before(k) = middle], c)

Median(c) ==
  LET middle == Cardinality(Hit(c)) \div 2
  IN  IF Cardinality(Hit(c)) % 2 # 0 THEN 2 * NthElement(c, middle)
                                     ELSE NthElement(c, middle - 1) + NthElement(c, middle)

\* A channel without samples ends the program; the medians before it are out.
MediansPrinted ==
  /\ tool = "calc_pedestal" /\ status = "read"
  /\ \E n \in 0..Cardinality(Channels) :
       /\ \A k \in 1..n : Hit(ChannelOf(k)) # {}
       /\ n < Cardinality(Channels) => Hit(ChannelOf(n + 1)) = {}
       /\ medians' = [k \in 1..n |-> Median(ChannelOf(k))]
       /\ calcExit' = IF n = Cardinality(Channels) THEN "success" ELSE "failure"
  /\ status' = "printed"
  /\ UNCHANGED <<tool, file, pos, frames, skipped, head, events, delIn, delOut>>

\* An exception while the file is read: nothing is printed.
NothingPrinted ==
  /\ tool = "calc_pedestal" /\ status = "failed" /\ calcExit = "running"
  /\ calcExit' = "failure" /\ status' = "printed"
  /\ UNCHANGED <<tool, file, pos, frames, skipped, head, events, medians, delIn, delOut>>

-----------------------------------------------------------------------------
(* set_delreg.py. Its input ends when calc_pedestal does.                    *)

\* Half to even, as Python rounds x / 2.
RoundHalf(x) == IF x % 4 = 3 THEN (x + 1) \div 2 ELSE x \div 2

AtLeastAll(x, S) == x \in S /\ \A y \in S : y <= x

\* Each channel's pedestal without its current setting is brought up to the
\* highest of them, as far as the register reaches.
Untrimmed(del) == [c \in Channels |-> medians[Rank(c, Channels)] - 2 * del[c]]
Highest(del) ==
  CHOOSE p \in {Untrimmed(del)[c] : c \in Channels} :
    AtLeastAll(p, {Untrimmed(del)[c] : c \in Channels})
\* Fault: the correction is not clamped.
ClampedAbove(x) == IF x < 0 THEN 0 ELSE x
Clamped(x) == IF x < 0 THEN 0 ELSE IF x > MaxDel THEN MaxDel ELSE x

\* Fault: the setting the data was taken with is not subtracted.
NewRegisterUncorrected(del) ==
  [c \in Channels |-> Clamped(RoundHalf(Highest(NoRegister) - Untrimmed(NoRegister)[c]))]

NewRegister(del) ==
  [c \in Channels |-> Clamped(RoundHalf(Highest(del) - Untrimmed(del)[c]))]

Ends(outcome) ==
  /\ status' = outcome
  /\ UNCHANGED <<tool, file, pos, frames, skipped, head, events, medians, calcExit>>

\* Fault: channels that are missing are left as they are.
RegisterWrittenPartly ==
  /\ status = "printed" /\ medians # <<>>
  /\ \E del \in Registers :
       /\ delIn' = del
       /\ delOut' = IF Len(medians) = Cardinality(Channels) THEN NewRegister(del) ELSE del
  /\ Ends("calibrated")

RegisterWritten ==
  /\ status = "printed" /\ Len(medians) = Cardinality(Channels)
  /\ \E del \in Registers : delIn' = del /\ delOut' = NewRegister(del)
  /\ Ends("calibrated")

\* Too few values, a VAREG file that cannot be loaded, or an output file that
\* cannot be written.
RegisterRejected ==
  /\ status = "printed" /\ Ends("rejected")
  /\ UNCHANGED <<delIn, delOut>>

-----------------------------------------------------------------------------
Next ==
  \/ RawStep /\ UNCHANGED <<medians, calcExit, delIn, delOut>>
  \/ MediansPrinted \/ NothingPrinted \/ RegisterWritten \/ RegisterRejected

Spec == Init /\ [][Next]_vars

\* The programs run to their end.
FairSpec == Spec /\ WF_vars(Next)

-----------------------------------------------------------------------------
(* Safety.                                                                   *)

\* Every variable has its type.
TypeOK ==
  /\ RawTypeOK
  /\ status \in {"reading", "unpacking", "read", "failed", "written", "printed",
                 "calibrated", "rejected"}
  /\ medians \in Seq(Int) /\ calcExit \in {"running", "success", "failure"}
  /\ delIn \in Registers \union {NoRegister}
  /\ delOut \in [Channels -> 0..MaxDel] \union {NoRegister}

\* Half of the samples at most are on either side of a printed median, and no
\* more than kMaxEvents events were used.
MediansCentral ==
  /\ tool = "calc_pedestal" => Len(events) <= MaxEvents
  /\ \A k \in DOMAIN medians :
       LET c == ChannelOf(k) IN
       /\ 2 * Cardinality({j \in Hit(c) : 2 * Sample(events[j], c) < medians[k]})
            <= Cardinality(Hit(c))
       /\ 2 * Cardinality({j \in Hit(c) : 2 * Sample(events[j], c) > medians[k]})
            <= Cardinality(Hit(c))

\* A register is written only from what a calc_pedestal that succeeded has
\* printed, although the pipeline never looks at its exit status.
RegisterFromWholeOutput ==
  delOut # NoRegister => calcExit = "success" /\ \A c \in Channels : Hit(c) # {}

\* With the new register each channel's pedestal is within half a unit of the
\* highest of those reconstructed from the register the data was taken with,
\* or the register is at its end.
RegisterAligns ==
  delOut # NoRegister =>
    \A c \in Channels :
      LET aligned == Untrimmed(delIn)[c] + 2 * delOut[c] IN
      \/ aligned \in (Highest(delIn) - 1)..(Highest(delIn) + 1)
      \/ delOut[c] = MaxDel /\ aligned < Highest(delIn)

(* Liveness.                                                                 *)

\* The search for the next header or footer comes to an end: every program
\* ends, on every file.
Terminates ==
  <>(status \in {"written", "calibrated", "rejected"} \/ (status = "failed" /\ tool = "raw2root"))

=============================================================================
