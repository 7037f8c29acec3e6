--------------------------- MODULE CommandExecutor --------------------------
(***************************************************************************)
(* companion/tdeck_companion/commands.py: the durable at-most-once         *)
(* executor.  Several calls of execute() run as tasks of one event loop.   *)
(* A call looks its key up and reserves it in one SQLite transaction with  *)
(* no await inside, so that part is one step.  The awaits after it (spawn, *)
(* drain, kill) let other calls, a cancellation or a crash of the          *)
(* companion come in between.  The table survives a crash, the calls do    *)
(* not.                                                                    *)
(***************************************************************************)
EXTENDS Naturals

CONSTANTS
    Sources,    \* node numbers
    Sessions,   \* 16-bit session numbers
    Msgs,       \* message numbers; 0 is not a valid one
    Contents,   \* (command, args) pairs, told apart by their digest
    Calls,      \* the tasks that may be inside execute() together
    ExitCodes,  \* what a command's process can answer
    Nil

ASSUME MsgsAssumption == Msgs \subseteq Nat

ASSUME OutcomesAssumption ==
    /\ Nil \notin ExitCodes \cup Contents
    /\ Nil \notin {"timeout", "oserror", "nospawn", "badid", "reused", "indeterminate",
                   "notallowed"}
    /\ ExitCodes \cap {"timeout", "oserror", "nospawn", "badid", "reused", "indeterminate",
                       "notallowed"} = {}

Keys == Sources \X Sessions \X Msgs

\* A settled row holds the status and output of a process that ended, of one
\* killed after 30 seconds or because reading from it raised OSError, or the
\* text of the OSError of a failed spawn.
Cut == {"timeout", "oserror"}
Ran == ExitCodes \cup Cut
Outcomes == Ran \cup {"nospawn"}
Refusals == {"badid", "reused", "indeterminate", "notallowed"}

VARIABLES
    db,      \* db[k]: the row of the executions table
    allow,   \* the contents the allow-list (or the raw shell) gives an argv
    call,    \* call[c]: where the task is inside execute(), and for what
    runs     \* runs[k]: processes started for the key; history

vars == <<db, allow, call, runs>>

NoRow == [state |-> "absent", content |-> Nil, outcome |-> Nil]
Pending(x) == [state |-> "pending", content |-> x, outcome |-> Nil]

Idle == [pc |-> "idle", key |-> Nil, content |-> Nil, answer |-> Nil]

Live == {"reserved", "running", "killing"}

Init ==
    /\ db = [k \in Keys |-> NoRow]
    /\ allow \in SUBSET Contents
    /\ call = [c \in Calls |-> Idle]
    /\ runs = [k \in Keys |-> 0]

-----------------------------------------------------------------------------
\* The part of execute() up to the reservation.

\* Mutant: the digest is not compared.
LookupNoDigest(k, x) ==
    IF db[k].state # "done" THEN "indeterminate" ELSE db[k].outcome

\* A second call for a key that has a row: never a second execution.
Lookup(k, x) ==
    CASE db[k].content # x      -> "reused"
      [] db[k].state # "done"   -> "indeterminate"
      [] OTHER                  -> db[k].outcome

\* Mutant: an interrupted reservation is taken for a free key.
ImmediateRetries(k, x) ==
    CASE k[3] = 0             -> "badid"
      [] db[k].state = "done" -> Lookup(k, x)
      [] x \notin allow       -> "notallowed"
      [] OTHER                -> Nil

\* The answer given without running anything; Nil when the key is to be
\* reserved.
Immediate(k, x) ==
    CASE k[3] = 0               -> "badid"
      [] db[k].state # "absent" -> Lookup(k, x)
      [] x \notin allow         -> "notallowed"
      [] OTHER                  -> Nil

Answered(k, x, a) == [pc |-> "answered", key |-> k, content |-> x, answer |-> a]

Refuse(c, k, x) ==
    /\ Immediate(k, x) # Nil
    /\ call' = [call EXCEPT ![c] = Answered(k, x, Immediate(k, x))]
    /\ UNCHANGED <<db, allow, runs>>

\* Mutant: the row is not written before the process starts.
ReserveInMemory(c, k, x) ==
    /\ Immediate(k, x) = Nil
    /\ call' = [call EXCEPT ![c] = [pc |-> "reserved", key |-> k, content |-> x, answer |-> Nil]]
    /\ UNCHANGED <<db, allow, runs>>

Reserve(c, k, x) ==
    /\ Immediate(k, x) = Nil
    /\ db' = [db EXCEPT ![k] = Pending(x)]
    /\ call' = [call EXCEPT ![c] = [pc |-> "reserved", key |-> k, content |-> x, answer |-> Nil]]
    /\ UNCHANGED <<allow, runs>>

\* The table stays locked for 5 seconds, or cannot be read: the transaction
\* raises and nothing was reserved.
LookupFails(c, k, x) ==
    /\ k[3] # 0
    /\ call' = [call EXCEPT ![c] = [pc |-> "failed", key |-> k, content |-> x, answer |-> Nil]]
    /\ UNCHANGED <<db, allow, runs>>

Begin(c, k, x) ==
    /\ call[c].pc = "idle"
    /\ Refuse(c, k, x) \/ Reserve(c, k, x) \/ LookupFails(c, k, x)

-----------------------------------------------------------------------------
\* The process, and the UPDATE that settles the row.

Started(c) == runs' = [runs EXCEPT ![call[c].key] = @ + 1]

\* Mutant: the outcome is returned but not recorded.
SettleForgets(c, o) ==
    /\ db' = db
    /\ call' = [call EXCEPT ![c].pc = "answered", ![c].answer = o]

Settle(c, o) ==
    /\ db' = [db EXCEPT ![call[c].key].state = "done", ![call[c].key].outcome = o]
    /\ call' = [call EXCEPT ![c].pc = "answered", ![c].answer = o]

Spawn(c) ==
    /\ call[c].pc = "reserved"
    /\ Started(c)
    /\ call' = [call EXCEPT ![c].pc = "running"]
    /\ UNCHANGED <<db, allow>>

\* Mutant: a failed spawn is recorded like a command that ran.
SpawnFailsAsRun(c) ==
    /\ call[c].pc = "reserved"
    /\ Settle(c, "timeout")
    /\ UNCHANGED <<allow, runs>>

\* OSError before there is a process: its text is recorded with the default
\* status.
SpawnFails(c) ==
    /\ call[c].pc = "reserved"
    /\ Settle(c, "nospawn")
    /\ UNCHANGED <<allow, runs>>

Finish(c, o) ==
    /\ call[c].pc = "running"
    /\ Settle(c, o)
    /\ UNCHANGED <<allow, runs>>

\* Mutant: the wait for the command has no limit.
NeverKill(c) ==
    /\ FALSE
    /\ UNCHANGED <<db, allow, call, runs>>

\* wait_for gives up after 30 seconds, or reading the output raises OSError.
\* Either way the process group is killed and waited for.
Kill(c) ==
    /\ call[c].pc = "running"
    /\ call' = [call EXCEPT ![c].pc = "killing"]
    /\ UNCHANGED <<db, allow, runs>>

\* Which of the two it was shows in the row only, so it is told here.
Reaped(c) ==
    /\ call[c].pc = "killing"
    /\ \E o \in Cut : Settle(c, o)
    /\ UNCHANGED <<allow, runs>>

\* The UPDATE raises: the outcome is lost and the row stays pending.
SettleFails(c) ==
    /\ call[c].pc \in Live
    /\ call' = [call EXCEPT ![c].pc = "failed"]
    /\ UNCHANGED <<db, allow, runs>>

\* CancelledError goes past the except clauses; finally kills the child.  A
\* cancellation during the spawn may come after the process was started.
Cancel(c) ==
    /\ call[c].pc \in Live
    /\ \/ call[c].pc = "reserved" /\ Started(c)
       \/ UNCHANGED runs
    /\ call' = [call EXCEPT ![c].pc = "failed"]
    /\ UNCHANGED <<db, allow>>

Return(c) ==
    /\ call[c].pc \in {"answered", "failed"}
    /\ call' = [call EXCEPT ![c] = Idle]
    /\ UNCHANGED <<db, allow, runs>>

\* Mutant: a restart cleans up the reservations it finds.
ReopenedClean == [k \in Keys |-> IF db[k].state = "pending" THEN NoRow ELSE db[k]]

\* The companion stops and a new one opens the same file, perhaps with
\* another allow-list: CREATE TABLE IF NOT EXISTS keeps every row.
Reopened == db

CrashRestart ==
    /\ db' = Reopened
    /\ allow' \in SUBSET Contents
    /\ call' = [c \in Calls |-> Idle]
    /\ UNCHANGED runs

Step(c) ==
    \/ Spawn(c)
    \/ SpawnFails(c)
    \/ \E o \in ExitCodes : Finish(c, o)
    \/ Kill(c)
    \/ Reaped(c)
    \/ SettleFails(c)
    \/ Cancel(c)

Next ==
    \/ \E c \in Calls :
        \/ \E k \in Keys, x \in Contents : Begin(c, k, x)
        \/ Step(c)
        \/ Return(c)
    \/ CrashRestart

Spec == Init /\ [][Next]_vars

\* The event loop schedules every ready task, the spawn call returns or
\* raises, the 30-second timer fires and a process group that got SIGKILL
\* is reaped.  Nothing is assumed of a command's own progress.
Fairness ==
    \A c \in Calls :
        /\ WF_vars(Spawn(c) \/ SpawnFails(c))
        /\ WF_vars(Kill(c))
        /\ WF_vars(Reaped(c))

FairSpec == Spec /\ Fairness

-----------------------------------------------------------------------------
Row == [state : {"absent", "pending", "done"}, content : Contents \cup {Nil},
        outcome : Outcomes \cup {Nil}]

Call == [pc : {"idle", "answered", "failed"} \cup Live, key : Keys \cup {Nil},
         content : Contents \cup {Nil}, answer : Outcomes \cup Refusals \cup {Nil}]

\* The types of the table, of the tasks and of the history.
TypeOK ==
    /\ db \in [Keys -> Row]
    /\ allow \subseteq Contents
    /\ call \in [Calls -> Call]
    /\ runs \in [Keys -> Nat]

\* At most once: however calls for a key overlap, are cancelled, time out,
\* fail to record or are cut off by a crash, and whatever is sent again
\* afterwards, at most one process is ever started for the key.
RunsAtMostOnce == \A k \in Keys : runs[k] <= 1

\* The reply of execute() is the recorded truth: a call that answers with an
\* outcome answers with the one the row of its key holds, for the very content
\* the call asked for, and a process ran for it unless the row says it could
\* not be started.
AnswerIsRecorded ==
    \A c \in Calls :
        call[c].pc = "answered" /\ call[c].answer \in Outcomes =>
            LET row == db[call[c].key] IN
            /\ row.state = "done"
            /\ row.content = call[c].content
            /\ row.outcome = call[c].answer
            /\ runs[call[c].key] = IF row.outcome = "nospawn" THEN 0 ELSE 1

\* A reservation no task is working on any more.
Interrupted(k) ==
    /\ db[k].state = "pending"
    /\ \A c \in Calls : call[c].pc \in Live => call[c].key # k

\* A reservation that outlived its call (crash, cancellation, failed UPDATE)
\* stays as it is for ever: no later call runs it, settles it or drops it.
InterruptedStays ==
    [][\A k \in Keys : Interrupted(k) => runs'[k] = runs[k] /\ db'[k] = db[k]]_vars

\* A call that reserved a key ends, even if its command never does.
CallEnds ==
    \A c \in Calls : call[c].pc = "reserved" ~> call[c].pc \notin Live

\* The executor implements the abstract ledger.
Ledger == INSTANCE AtMostOnce WITH
    ledger <- [k \in Keys |-> db[k].state],
    content <- [k \in Keys |-> db[k].content],
    outcome <- [k \in Keys |-> db[k].outcome],
    Exits <- Ran,
    NoRun <- "nospawn"

\* Every behaviour of the executor is one the abstract ledger allows.
ImplementsLedger == Ledger!Spec

-----------------------------------------------------------------------------
\* common/protocol.md names the replay key (source_node, message_id): no
\* process is started twice for it.
OncePerSourceAndMessage ==
    \A s \in Sources, m \in Msgs, e1, e2 \in Sessions :
        e1 # e2 => runs[<<s, e1, m>>] + runs[<<s, e2, m>>] <= 1
=============================================================================
