------------------------------- MODULE Lines -------------------------------
(***************************************************************************)
(* From lines to commands: how load_script and run_shell join continued    *)
(* lines, and how split_shell_like cuts the result into tokens.  A line is *)
(* a sequence of the characters that these functions tell apart, with "w"  *)
(* for all others.  What becomes of a command is in module Script.         *)
(***************************************************************************)
EXTENDS Naturals, Sequences, SequencesExt, FiniteSets, FiniteSetsExt

CONSTANT Inputs   \* sequences of lines: script files, or what an operator types

Backslash == "\\"
Quote     == "\""
Comment   == "#"
Blank     == "_"
Return    == "CR"
Blanks    == {Blank, Return}
Chars     == Blanks \union {Backslash, Quote, Comment, "w"}

ASSUME LinesAssumption == \A input \in Inputs : input \in Seq(Seq(Chars))

VARIABLES
  source,     \* "script" or "terminal"
  input,      \* its lines
  next,       \* the number of the next one
  pc,
  line,       \* the command being put together
  from,       \* the number of its first line
  executed,   \* history: the commands, with their lines and tokens
  reported    \* history: "unexpected EOF" was printed

vars == <<source, input, next, pc, line, from, executed, reported>>

-----------------------------------------------------------------------------
(* The tokenizer.                                                            *)

\* One character: escaped, an escape, a quote, a separator, or part of a token.
Scan(state, c) ==
  CASE state.escaped -> [state EXCEPT !.cur = Append(@, c), !.escaped = FALSE]
    [] ~state.escaped /\ c = Backslash -> [state EXCEPT !.inToken = TRUE, !.escaped = TRUE]
    [] ~state.escaped /\ c = Quote -> [state EXCEPT !.inQuote = ~@, !.inToken = TRUE]
    [] ~state.escaped /\ c \in Blanks /\ ~state.inQuote ->
         IF state.inToken
           THEN [state EXCEPT !.tokens = Append(@, state.cur), !.cur = <<>>, !.inToken = FALSE]
           ELSE state
    [] OTHER -> [state EXCEPT !.cur = Append(@, c), !.inToken = TRUE]

Start == [tokens |-> <<>>, cur |-> <<>>, inQuote |-> FALSE, inToken |-> FALSE, escaped |-> FALSE]

\* The state after so many characters.
Scanned(text) ==
  LET after[n \in 0..Len(text)] == IF n = 0 THEN Start ELSE Scan(after[n - 1], text[n])
  IN  after

Split(text) ==
  LET end == Scanned(text)[Len(text)]
  IN  IF end.inToken THEN Append(end.tokens, end.cur) ELSE end.tokens

\* What load_script and execute_command do not ignore.
IsCommand(tokens) == tokens # <<>> /\ tokens[1] # <<>> /\ tokens[1][1] # Comment

-----------------------------------------------------------------------------
(* Continued lines.                                                          *)

\* rstrip.
Stripped(text) == SubSeq(text, 1, Max({0} \union {i \in DOMAIN text : text[i] \notin Blanks}))

Continues(text) == Stripped(text) # <<>> /\ Last(Stripped(text)) = Backslash

\* consume_line_continuation: what it leaves of the line.
Consumed(text) ==
  IF Continues(text) THEN Stripped(Front(Stripped(text)))
  ELSE IF Stripped(text) = <<>> THEN <<>> ELSE text

\* Fault: the line is joined without a space.
JoinedTightly(head, text) == head \o text

Joined(head, text) == IF head = <<>> THEN text ELSE Append(head, Blank) \o text

\* A line of a file loses its carriage return.
Chomped(text) ==
  IF source = "script" /\ text # <<>> /\ Last(text) = Return THEN Front(text) ELSE text

-----------------------------------------------------------------------------
Init ==
  /\ source \in {"script", "terminal"} /\ input \in Inputs /\ next = 1
  /\ pc = "read" /\ line = <<>> /\ from = 1 /\ executed = <<>> /\ reported = FALSE

LineRead ==
  /\ pc = "read" /\ next <= Len(input)
  /\ pc' = "join" /\ line' = Chomped(input[next]) /\ from' = next /\ next' = next + 1
  /\ UNCHANGED <<source, input, executed, reported>>

InputEnds ==
  /\ pc = "read" /\ next > Len(input) /\ pc' = "done"
  /\ UNCHANGED <<source, input, next, line, from, executed, reported>>

LineContinued ==
  /\ pc = "join" /\ Continues(line) /\ next <= Len(input)
  /\ line' = Joined(Consumed(line), Chomped(input[next])) /\ next' = next + 1
  /\ UNCHANGED <<source, input, pc, from, executed, reported>>

\* The file ends in a continued line: this is reported, and what there is of
\* the command is executed all the same.
ContinuationMissing ==
  /\ pc = "join" /\ Continues(line) /\ next > Len(input) /\ source = "script"
  /\ pc' = "execute" /\ line' = Consumed(line) /\ reported' = TRUE
  /\ UNCHANGED <<source, input, next, from, executed>>

\* Fault: what was typed so far is executed.
CancelledExecuted ==
  /\ pc = "join" /\ Continues(line) /\ source = "terminal"
  /\ pc' = "execute" /\ line' = Consumed(line)
  /\ UNCHANGED <<source, input, next, from, executed, reported>>

\* Ctrl-C or the end of the input while a continuation is awaited.
ContinuationCancelled ==
  /\ pc = "join" /\ Continues(line) /\ source = "terminal"
  /\ pc' = "read" /\ line' = <<>>
  /\ UNCHANGED <<source, input, next, from, executed, reported>>

LineComplete ==
  /\ pc = "join" /\ ~Continues(line)
  /\ pc' = "execute" /\ line' = Consumed(line)
  /\ UNCHANGED <<source, input, next, from, executed, reported>>

LineExecuted ==
  /\ pc = "execute" /\ IsCommand(Split(line)) /\ pc' = "read"
  /\ executed' = Append(executed, [from |-> from, to |-> next - 1, tokens |-> Split(line)])
  /\ UNCHANGED <<source, input, next, line, from, reported>>

\* Fault: a comment or an empty line ends the input.
SkippedEnds ==
  /\ pc = "execute" /\ ~IsCommand(Split(line)) /\ pc' = "done"
  /\ UNCHANGED <<source, input, next, line, from, executed, reported>>

LineSkipped ==
  /\ pc = "execute" /\ ~IsCommand(Split(line)) /\ pc' = "read"
  /\ UNCHANGED <<source, input, next, line, from, executed, reported>>

Done == pc = "done" /\ UNCHANGED vars

Next ==
  \/ LineRead \/ InputEnds \/ LineContinued \/ ContinuationMissing \/ ContinuationCancelled
  \/ LineComplete \/ LineExecuted \/ LineSkipped \/ Done

Spec == Init /\ [][Next]_vars

-----------------------------------------------------------------------------
(* What the documentation says of a text, position by position.              *)

\* The elements of a set of numbers in their order, and what stands there.
Ascending(set) ==
  [k \in 1..Cardinality(set) |-> Min({x \in set : Cardinality({y \in set : y <= x}) = k})]

Along(g, set) == [k \in 1..Cardinality(set) |-> g[Ascending(set)[k]]]

Escaped(text, i) ==
  Max({k \in 0..(i - 1) : \A j \in (i - k)..(i - 1) : text[j] = Backslash}) % 2 = 1

Markup(text, i) == text[i] \in {Backslash, Quote} /\ ~Escaped(text, i)

Quoted(text, i) ==
  Cardinality({j \in 1..(i - 1) : text[j] = Quote /\ Markup(text, j)}) % 2 = 1

Separates(text, i) ==
  i \notin DOMAIN text \/ (text[i] \in Blanks /\ ~Escaped(text, i) /\ ~Quoted(text, i))

\* The tokens are the stretches between separators, without their markup.
Starts(text) == {i \in DOMAIN text : ~Separates(text, i) /\ Separates(text, i - 1)}

End(text, i) == Min({j \in i..(Len(text) + 1) : Separates(text, j)})

Token(text, i) == Along(text, {j \in i..(End(text, i) - 1) : ~Markup(text, j)})

Tokens(text) == Along([i \in Starts(text) |-> Token(text, i)], Starts(text))

\* A line without the backslash that continues it, and the blanks around this.
Content(i) == IF Continues(Chomped(input[i])) THEN Consumed(Chomped(input[i]))
                                              ELSE Chomped(input[i])

\* Empty lines that are continued add nothing.
Adds(i) == Content(i) # <<>> \/ ~Continues(Chomped(input[i]))

\* The text of the command on some lines: what they hold, with a space between.
TextFrom(first) ==
  LET text[i \in 0..Len(input)] ==
        IF i < first THEN <<>>
        ELSE IF ~Adds(i) THEN text[i - 1]
        ELSE IF \A j \in first..(i - 1) : ~Adds(j) THEN Content(i)
        ELSE Append(text[i - 1], Blank) \o Content(i)
  IN  text

Text(first, last) == TextFrom(first)[last]

\* No line with a second backslash before the one that continues it, which the
\* join leaves as an escape, is followed by a line that holds only blanks: then
\* it would be read as another continuation.
Unambiguous ==
  \A i \in 1..(Len(input) - 1) :
    Continues(Content(i)) => Stripped(Content(i + 1)) # <<>>

\* The lines of a script at which a command begins, and where it ends.
Begins(i) == i = 1 \/ ~Continues(input[i - 1])

LastOf(i) == Min({j \in i..Len(input) : j = Len(input) \/ ~Continues(input[j])})

Whole(first, last) ==
  /\ \A i \in first..(last - 1) : Continues(input[i])
  /\ ~Continues(input[last])

-----------------------------------------------------------------------------
\* A command consists of the tokens that its lines, joined, say: what is quoted
\* or escaped stays together, also across a continuation (split_shell_like and
\* the joining loop against the positions of quotes, escapes and blanks).
TokensAsWritten ==
  Unambiguous => \A k \in DOMAIN executed :
    executed[k].tokens = Tokens(Text(executed[k].from, executed[k].to))

\* No part of a command is executed: a line that awaits its continuation, which
\* is cancelled or never comes, is not, except at the end of a file, where it
\* is reported.
WholeCommands ==
  Unambiguous => \A k \in DOMAIN executed :
    \/ Whole(executed[k].from, executed[k].to)
    \/ source = "script" /\ reported /\ executed[k].to = Len(input)

\* A script executes every command of its file, once and in the order of the
\* file; a comment that is continued comments out what continues it.
EveryCommand ==
  Unambiguous /\ source = "script" /\ pc = "done" =>
    [k \in DOMAIN executed |-> executed[k].from] =
      Ascending({i \in DOMAIN input : Begins(i) /\ IsCommand(Tokens(Text(i, LastOf(i))))})

=============================================================================
