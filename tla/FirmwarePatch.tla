---------------------------- MODULE FirmwarePatch ----------------------------
(***************************************************************************)
(* tools/apply_firmware.py: the handheld's sources are copied into the     *)
(* upstream tree and three files of it are patched.  The script may die    *)
(* between two writes and is run again, by hand or by the next build.      *)
(***************************************************************************)
EXTENDS Naturals, SequencesExt

CONSTANT Files   \* the files of firmware/, in the order they are copied

ASSUME FilesAssumption == Files \in Seq(Range(Files))

\* A tree: which sources it has, and of each patched file the places the
\* script looks for and how often each of its insertions is there.
Target(anchor, top) == [anchor |-> anchor, top |-> top, call |-> 0, include |-> 0]

Script(owner, imports) == [owner |-> owner, imports |-> imports, repo |-> 0, os |-> 0, epoch |-> 0]

\* Trees of an upstream release, whether or not the script knows its API.
Pristine ==
    [sources : {{}}, tft : {Target(a, i) : a, i \in BOOLEAN},
     modules : {Target(a, i) : a, i \in BOOLEAN},
     build : {Script(o, i) : o, i \in BOOLEAN}]

\* Mutant: the call is inserted whether or not it is there.
InsertedAgain(file) ==
    [file EXCEPT !.call = IF file.anchor THEN @ + 1 ELSE @,
                 !.include = IF file.top /\ @ = 0 THEN 1 ELSE @]

\* tftSetup.cpp and Modules.cpp: a call at the anchor, an include at the top,
\* each unless it is there; replace() does nothing where nothing matches.
Inserted(file) ==
    [file EXCEPT !.call = IF file.anchor /\ @ = 0 THEN 1 ELSE @,
                 !.include = IF file.top /\ @ = 0 THEN 1 ELSE @]

\* The script exits, with nothing written, if it does not find the anchor of a
\* call it has to insert.
Refuses(tree) == \E file \in {tree.tft, tree.modules} : file.call = 0 /\ ~file.anchor

\* platformio-custom.py, unless it has the marker.
Rebuilt(build) ==
    [build EXCEPT !.repo = IF build.owner THEN @ + 1 ELSE @,
                  !.os = IF build.imports /\ @ = 0 THEN 1 ELSE @,
                  !.epoch = 1]

Copy(name) == [file |-> "sources", to |-> name]
Write(file, content) == [file |-> file, to |-> content]

When(condition, step) == IF condition THEN <<step>> ELSE <<>>

\* The writes of one run, in order; both contents were made up before them.
Writes(tree) ==
    LET tft == Inserted(tree.tft)
        modules == Inserted(tree.modules)
    IN  [n \in 1..Len(Files) |-> Copy(Files[n])]
            \o When(tft # tree.tft, Write("tft", tft))
            \o When(modules # tree.modules, Write("modules", modules))
            \o When(tree.build.repo = 0, Write("build", Rebuilt(tree.build)))

Written(tree, step) ==
    CASE step.file = "sources" -> [tree EXCEPT !.sources = @ \cup {step.to}]
      [] step.file = "tft" -> [tree EXCEPT !.tft = step.to]
      [] step.file = "modules" -> [tree EXCEPT !.modules = step.to]
      [] step.file = "build" -> [tree EXCEPT !.build = step.to]

\* A run that dies after its first n writes, or ends before.
Died(tree, n) ==
    LET writes == Writes(tree)
        done == SubSeq(writes, 1, IF n <= Len(writes) THEN n ELSE Len(writes))
    IN  IF Refuses(tree) THEN tree ELSE FoldLeft(Written, tree, done)

MostWrites == Len(Files) + 3

Applied(tree) == Died(tree, MostWrites)

-----------------------------------------------------------------------------
\* Every insertion there is a place for is there once.
WhollyPatched(tree) ==
    /\ tree.sources = Range(Files)
    /\ \A file \in {tree.tft, tree.modules} : file.call = 1 /\ (file.top => file.include = 1)
    /\ tree.build.owner => tree.build.repo = 1
    /\ tree.build.imports => tree.build.os = 1

\* A run that dies, and another that does, leave a tree which the next run
\* patches like a fresh one, no insertion missing and none made twice; and a
\* tree with an API the script does not know stays as it is, whatever is run.
PatchIsRepeatable ==
    \A tree \in Pristine, n, m \in 0..MostWrites :
        LET left == Died(Died(tree, n), m) IN
        IF Refuses(tree)
        THEN left = tree
        ELSE /\ ~Refuses(left)
             /\ Applied(left) = Applied(tree)
             /\ WhollyPatched(Applied(tree))
=============================================================================
