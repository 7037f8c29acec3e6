------------------------------ MODULE WireSizes ------------------------------
(***************************************************************************)
(* How many bytes a text has on its way to the handheld's screen.  The     *)
(* output of a command is captured and decoded (commands.py), packed and   *)
(* chunked (protocol.py), sealed (mesh_gateway.py) and put together again  *)
(* (RemoteProtocol.cpp); an AI answer is one response (app.py,             *)
(* PocketLink.cpp).  Each step has a limit of its own.                     *)
(***************************************************************************)
EXTENDS Naturals, SequencesExt

CONSTANT Lengths   \* bound: the characters a program prints, a model answers

ASSUME LengthsAssumption == Lengths \subseteq Nat

CaptureLimit == 3000
ErrorLimit == 500
Notes == {0, 18, ErrorLimit}   \* none, "\ncommand timed out", an OSError
Replacement == 3        \* U+FFFD in UTF-8
ResultHeader == 4
TextLimit == 65535
Seal == 32
ChunkSize == 160
MostChunks == 255
MaxReassembled == 4096
AnswerLimit == 8192     \* characters
ResponseBytes == 8192

AtMost(n, limit) == IF n <= limit THEN n ELSE limit

\* A text: letters of one width in bytes, after a few of one byte.
Text(lead, letters, width) == [lead |-> lead, letters |-> letters, width |-> width]

Bytes(t) == t.lead + t.letters * t.width

-----------------------------------------------------------------------------
\* Mutant: as much is kept as a message may have.
DrainedToMessage(n) == AtMost(n, MaxReassembled)

\* drain(): whatever the command prints, that much is kept of it.
Drained(n) == AtMost(n, CaptureLimit)

\* The bytes of the text a command leaves in the table: its output, of which
\* the last letter may be cut in two, and what is put after it.  The rest of a
\* letter that was cut decodes to one replacement.
Captured(t, note) ==
    LET n == Drained(Bytes(t))
        cut == (n - AtMost(n, t.lead)) % t.width
    IN  n - cut + (IF cut = 0 THEN 0 ELSE Replacement) + note

\* The same for bytes that are no text: each decodes to a replacement.
CapturedBinary(n, note) == Drained(n) * Replacement + note

\* encode_command_result() and seal().
Sealed(n) == ResultHeader + AtMost(n, TextLimit) + Seal

\* chunk_payload(): the sizes of the chunks, none if they are too many.
ChunkSizes(n) ==
    LET count == IF n = 0 THEN 1 ELSE (n + ChunkSize - 1) \div ChunkSize
    IN  IF count > MostChunks THEN <<>>
        ELSE [i \in 1..count |-> IF i < count THEN ChunkSize ELSE n - ChunkSize * (count - 1)]

\* Reassembler::ingest() of every chunk once: what has come so far, and how
\* many; a chunk too many starts afresh.
Joined(sizes) ==
    LET Ingested(rx, size) ==
            IF rx.bytes + size > MaxReassembled
            THEN [bytes |-> 0, count |-> 0]
            ELSE [bytes |-> rx.bytes + size, count |-> rx.count + 1]
    IN  FoldLeft(Ingested, [bytes |-> 0, count |-> 0], sizes)

\* The handheld completes a message of n bytes.
Completes(n) ==
    LET sizes == ChunkSizes(n)
    IN  sizes # <<>> /\ Joined(sizes) = [bytes |-> n, count |-> Len(sizes)]

-----------------------------------------------------------------------------
\* ai_poll(): the answer is cut by characters.
CutAnswer(letters, width) == AtMost(letters, AnswerLimit) * width

\* The worker's buffer takes the whole response or drops it.
Delivers(bytes) == bytes <= ResponseBytes

-----------------------------------------------------------------------------
\* Whatever a command prints, as long as it is text, and whichever note is put
\* after it, its result reaches the screen: what the executor keeps, the
\* gateway can send and the handheld can put together, though the three limits
\* are in three files.  A result of bytes that are no text arrives as a whole or
\* not at all: of 1353 bytes at most, or of fewer with a note.  An AI answer of
\* one-byte letters is delivered, a long one of wider letters is not: app.py
\* counts characters, the handheld bytes.
TextsArrive ==
    /\ \A n \in Lengths, width \in 1..4, lead \in 0..3, note \in Notes :
          Completes(Sealed(Captured(Text(lead, n, width), note)))
    /\ \A n \in Lengths, note \in Notes :
          Completes(Sealed(CapturedBinary(n, note))) <=>
              Sealed(CapturedBinary(n, note)) <= MaxReassembled
    /\ \A n \in Lengths, width \in 1..4 :
          Delivers(CutAnswer(n, width)) <=> width = 1 \/ n * width <= ResponseBytes
=============================================================================
