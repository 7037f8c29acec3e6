----------------------------- MODULE AtMostOnce -----------------------------
(***************************************************************************)
(* What the companion promises about a command key, whatever happens to    *)
(* the processes, the messages and the machine it runs on.  A key is       *)
(* claimed for one content before anything runs under it, runs at most     *)
(* once, and is settled at most once with an outcome that never changes.   *)
(* A claimed key may stay claimed for ever: the promise is at most once,   *)
(* not exactly once.                                                       *)
(***************************************************************************)
EXTENDS Naturals

CONSTANTS
    Keys,       \* what identifies a request
    Contents,   \* what a request asks to run
    Exits,      \* outcomes of a process that ran
    NoRun,      \* the outcome of a process that could not be started
    Nil         \* no content or no outcome

VARIABLES
    ledger,     \* ledger[k]: "absent", "pending" or "done"
    content,    \* content[k]: the content the key was claimed for
    outcome,    \* outcome[k]: the outcome the key was settled with
    runs        \* runs[k]: how many processes were started for the key

vars == <<ledger, content, outcome, runs>>

Init ==
    /\ ledger = [k \in Keys |-> "absent"]
    /\ content = [k \in Keys |-> Nil]
    /\ outcome = [k \in Keys |-> Nil]
    /\ runs = [k \in Keys |-> 0]

Claim(k, x) ==
    /\ ledger[k] = "absent"
    /\ ledger' = [ledger EXCEPT ![k] = "pending"]
    /\ content' = [content EXCEPT ![k] = x]
    /\ UNCHANGED <<outcome, runs>>

Run(k) ==
    /\ ledger[k] = "pending"
    /\ runs[k] = 0
    /\ runs' = [runs EXCEPT ![k] = 1]
    /\ UNCHANGED <<ledger, content, outcome>>

\* An outcome of a process is recorded only if the process ran, and the
\* outcome NoRun only if it did not.
Settle(k, o) ==
    /\ ledger[k] = "pending"
    /\ (runs[k] = 1) = (o # NoRun)
    /\ ledger' = [ledger EXCEPT ![k] = "done"]
    /\ outcome' = [outcome EXCEPT ![k] = o]
    /\ UNCHANGED <<content, runs>>

Next ==
    \E k \in Keys :
        \/ \E x \in Contents : Claim(k, x)
        \/ Run(k)
        \/ \E o \in Exits \cup {NoRun} : Settle(k, o)

Spec == Init /\ [][Next]_vars
=============================================================================
