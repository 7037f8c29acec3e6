----------------------------- MODULE AnsiFilter ------------------------------
(***************************************************************************)
(* append() of firmware/PocketLauncher.cpp: what a terminal sends, read by *)
(* read, is stripped of escape sequences and put at the end of the text on *)
(* the screen.  A read may end anywhere: inside a sequence, or between a   *)
(* character and the backspace that takes it away.                         *)
(*                                                                         *)
(* A character here is one byte.  That is exact for ASCII only: of a wider *)
(* character a backspace takes the last byte if it came with the same read *)
(* (line 451), and the whole of it once it is on the screen (line 455), so *)
(* that for those the code does depend on where a read ends.               *)
(***************************************************************************)
EXTENDS Naturals, FiniteSets, SequencesExt

CONSTANTS
    TrimAbove,   \* 7000: a longer text is cut
    TrimTo,      \* 6000: to its last characters
    StreamLen    \* bound: characters a terminal sends

ASSUME FilterAssumption == TrimAbove \in Nat /\ TrimTo \in 1..TrimAbove /\ StreamLen \in Nat

\* A printable character that ends a sequence, one that does not, "[" (which
\* opens a sequence after an escape and also ends one), escape, backspace.
Characters == {"letter", "digit", "bracket", "escape", "backspace"}

EndsSequence(c) == c \in {"letter", "bracket"}

EmptyScreen == [state |-> 0, clean |-> <<>>, text |-> <<>>]

WithoutLast(s) == IF s = <<>> THEN s ELSE Front(s)

\* One turn of the loop of append(): state is ansiState, clean is what this
\* read adds to the text.  With characters of one byte, a backspace takes the
\* same from clean as from the text.
Turned(a, c) ==
    CASE a.state = 1 -> [a EXCEPT !.state = IF c = "bracket" THEN 2 ELSE 0]
      [] a.state = 2 -> [a EXCEPT !.state = IF EndsSequence(c) THEN 0 ELSE 2]
      [] a.state = 0 /\ c = "escape" -> [a EXCEPT !.state = 1]
      [] a.state = 0 /\ c = "backspace" ->
            IF a.clean # <<>>
            THEN [a EXCEPT !.clean = Front(@)]
            ELSE [a EXCEPT !.text = WithoutLast(@)]
      [] OTHER -> [a EXCEPT !.clean = Append(@, c)]

Trimmed(t) == IF Len(t) > TrimAbove THEN SubSeq(t, Len(t) - TrimTo + 1, Len(t)) ELSE t

\* Mutant: a sequence is taken to end with the read.
AppendedAfresh(a, read) ==
    LET b == FoldLeft(Turned, [a EXCEPT !.clean = <<>>, !.state = 0], read)
    IN  [b EXCEPT !.text = Trimmed(@ \o b.clean)]

\* append(): ansiState outlives the call.
Appended(a, read) ==
    LET b == FoldLeft(Turned, [a EXCEPT !.clean = <<>>], read)
    IN  [b EXCEPT !.text = Trimmed(@ \o b.clean)]

-----------------------------------------------------------------------------
\* What the screen should show of a stream, defined without reads.

\* Position i lies inside a sequence that an escape at j opens.
InSequence(s) ==
    LET inside[i \in 1..Len(s)] ==
            \E j \in 1..(i - 1) :
                /\ s[j] = "escape" /\ ~inside[j]
                /\ \/ i = j + 1
                   \/ s[j + 1] = "bracket" /\ \A k \in (j + 2)..(i - 1) : ~EndsSequence(s[k])
    IN  {i \in 1..Len(s) : inside[i] \/ s[i] = "escape"}

\* The stream without its sequences, and of that what backspaces leave.
Screen(s) ==
    LET kept == {i \in 1..Len(s) : i \notin InSequence(s)}
        Typed(t, i) ==
            IF i \notin kept THEN t
            ELSE IF s[i] = "backspace" THEN WithoutLast(t) ELSE Append(t, s[i])
    IN  FoldLeft(Typed, <<>>, [i \in 1..Len(s) |-> i])

\* Where the reads of a stream may end: any number of them, the last with it.
Cuttings ==
    {ends \in UNION {[1..m -> 1..StreamLen] : m \in 1..StreamLen} :
        /\ ends[Len(ends)] = StreamLen
        /\ \A n \in 2..Len(ends) : ends[n - 1] < ends[n]}

Reads(s, ends) ==
    [n \in 1..Len(ends) |-> SubSeq(s, IF n = 1 THEN 1 ELSE ends[n - 1] + 1, ends[n])]

\* However a stream of one-byte characters is cut into reads, the screen shows
\* the same text: the stream without its sequences and what was rubbed out, or,
\* once the text has been cut, the end of it.
FilterIgnoresCuts ==
    \A s \in [1..StreamLen -> Characters] :
        LET full == Screen(s)
            printed == {i \in 1..StreamLen \ InSequence(s) : s[i] # "backspace"}
        IN
        \A ends \in Cuttings :
            LET shown == FoldLeft(Appended, EmptyScreen, Reads(s, ends)).text IN
            /\ IsSuffix(shown, full)
            /\ Cardinality(printed) <= TrimAbove => shown = full
=============================================================================
