----------------------- MODULE CommandExecutorProofs ------------------------
(***************************************************************************)
(* At most once, and the implementation of the abstract ledger, for every  *)
(* number of sources, sessions, messages, contents and concurrent calls.   *)
(***************************************************************************)
EXTENDS CommandExecutor, TLAPS

\* A call inside execute() owns the pending row of its key, and whether it
\* started a process already is told by where it is.
Owns ==
    \A c \in Calls : call[c].pc \in Live =>
        /\ call[c].key \in Keys
        /\ call[c].content \in Contents
        /\ db[call[c].key] = Pending(call[c].content)
        /\ runs[call[c].key] = IF call[c].pc = "reserved" THEN 0 ELSE 1

\* No two calls own the same row.
Alone ==
    \A c, d \in Calls :
        /\ call[c].pc \in Live
        /\ call[d].pc \in Live
        /\ c # d
        => call[c].key # call[d].key

\* What each state of a row says of its fields and of the history.
RowsOK ==
    \A k \in Keys :
        /\ db[k].state = "absent" => db[k] = NoRow /\ runs[k] = 0
        /\ db[k].state = "pending" =>
              db[k].content \in Contents /\ db[k].outcome = Nil /\ runs[k] \in {0, 1}
        /\ db[k].state = "done" =>
              /\ db[k].content \in Contents
              /\ db[k].outcome \in Outcomes
              /\ runs[k] = IF db[k].outcome = "nospawn" THEN 0 ELSE 1

\* An answered call names a key.
AnswersHaveKeys == \A c \in Calls : call[c].pc = "answered" => call[c].key \in Keys

IInv ==
    /\ TypeOK
    /\ Owns
    /\ Alone
    /\ RowsOK
    /\ AnswersHaveKeys
    /\ AnswerIsRecorded

\* The outcomes a settled row can hold are neither Nil nor a refusal.
LEMMA OutcomesAreApart ==
    /\ Nil \notin Outcomes \cup Refusals \cup Contents
    /\ Outcomes \cap Refusals = {}
    /\ "nospawn" \in Outcomes /\ Cut \subseteq Outcomes /\ "nospawn" \notin Cut
    /\ ExitCodes \subseteq Outcomes
    /\ "nospawn" \notin Ran
  BY OutcomesAssumption, SMT DEF Outcomes, Ran, Cut, Refusals

\* The invariant holds initially.
LEMMA InitIInv == Init => IInv
  BY DEF Init, IInv, TypeOK, Owns, Alone, RowsOK, AnswersHaveKeys, AnswerIsRecorded,
         NoRow, Idle, Live, Row, Call

\* What execute() answers without running anything: a refusal, or the outcome
\* of the settled row of the same key and content; Nil only for a free key.
LEMMA ImmediateIsSound ==
    ASSUME IInv, NEW k \in Keys, NEW x \in Contents
    PROVE  /\ Immediate(k, x) = Nil => db[k].state = "absent"
           /\ Immediate(k, x) # Nil =>
                \/ Immediate(k, x) \in Refusals
                \/ /\ Immediate(k, x) \in Outcomes
                   /\ db[k].state = "done"
                   /\ db[k].content = x
                   /\ db[k].outcome = Immediate(k, x)
  <1>1. db[k] \in Row
    BY DEF IInv, TypeOK
  <1>2. db[k].state = "done" => db[k].outcome \in Outcomes
    BY DEF IInv, RowsOK
  <1> QED
    BY <1>1, <1>2, OutcomesAreApart DEF Immediate, Lookup, Refusals, Row

\* A call that is refused, or answered from the table.
LEMMA RefuseStep ==
    ASSUME IInv, NEW c \in Calls, NEW k \in Keys, NEW x \in Contents,
           call[c].pc = "idle", Refuse(c, k, x)
    PROVE  IInv'
  <1> DEFINE a == Immediate(k, x)
  <1>1. /\ a \in Refusals \cup Outcomes
        /\ a \in Outcomes => db[k].state = "done" /\ db[k].content = x /\ db[k].outcome = a
    BY ImmediateIsSound, OutcomesAreApart DEF Refuse
  <1>2. /\ call' = [call EXCEPT ![c] = Answered(k, x, a)]
        /\ UNCHANGED <<db, allow, runs>>
    BY DEF Refuse
  <1> HIDE DEF a
  <1>3. TypeOK'
    BY <1>1, <1>2 DEF IInv, TypeOK, Call, Answered
  <1>4. Owns' /\ Alone' /\ RowsOK' /\ AnswersHaveKeys'
    BY <1>2 DEF IInv, TypeOK, Owns, Alone, RowsOK, AnswersHaveKeys, Answered, Live, Call
  <1>5. AnswerIsRecorded'
    BY <1>1, <1>2 DEF IInv, TypeOK, RowsOK, AnswerIsRecorded, Answered, Call
  <1> QED
    BY <1>3, <1>4, <1>5 DEF IInv

\* A call that reserves a free key owns it alone.
LEMMA ReserveStep ==
    ASSUME IInv, NEW c \in Calls, NEW k \in Keys, NEW x \in Contents,
           call[c].pc = "idle", Reserve(c, k, x)
    PROVE  IInv'
  <1>1. db[k].state = "absent"
    BY ImmediateIsSound DEF Reserve
  <1>2. runs[k] = 0
    BY <1>1 DEF IInv, RowsOK
  <1>3. \A d \in Calls : call[d].pc \in Live => call[d].key # k
    <2>1. \A y : Pending(y).state = "pending"
      BY DEF Pending
    <2>2. \A d \in Calls : call[d].pc \in Live => db[call[d].key].state = "pending"
      BY <2>1, Zenon DEF IInv, Owns
    <2> QED
      BY <1>1, <2>2
  <1>4. TypeOK'
    BY DEF IInv, TypeOK, Reserve, Call, Row, Pending, Live
  <1>5. Owns'
    BY <1>2, <1>3 DEF IInv, TypeOK, Owns, Reserve, Pending, Live, Call
  <1>6. Alone'
    BY <1>3 DEF IInv, TypeOK, Alone, Reserve, Live, Call
  <1>7. RowsOK'
    BY <1>2 DEF IInv, TypeOK, RowsOK, Reserve, Pending, Row
  <1>8. AnswersHaveKeys' /\ AnswerIsRecorded'
    BY <1>1 DEF IInv, TypeOK, AnswersHaveKeys, AnswerIsRecorded, Reserve, Pending, Call, Row
  <1> QED
    BY <1>4, <1>5, <1>6, <1>7, <1>8 DEF IInv

\* A live call that settles its row with an outcome that fits the history.
LEMMA SettleStep ==
    ASSUME IInv, NEW c \in Calls, NEW o \in Outcomes, call[c].pc \in Live,
           Settle(c, o), UNCHANGED <<allow, runs>>,
           (call[c].pc = "reserved") <=> (o = "nospawn")
    PROVE  IInv'
  <1> DEFINE k == call[c].key
  <1>1. k \in Keys /\ db[k] = Pending(call[c].content) /\ call[c].content \in Contents
    BY DEF IInv, Owns
  <1>2. runs[k] = IF o = "nospawn" THEN 0 ELSE 1
    BY DEF IInv, Owns
  <1>3. \A d \in Calls : d # c /\ call[d].pc \in Live => call[d].key # k
    BY DEF IInv, Alone
  <1>4. \A d \in Calls : call[d].pc = "answered" /\ call[d].answer \in Outcomes => call[d].key # k
    BY <1>1 DEF IInv, AnswerIsRecorded, Pending
  <1>5. TypeOK'
    <2>1. db' \in [Keys -> Row]
      BY <1>1 DEF IInv, TypeOK, Settle, Row
    <2>2. call' \in [Calls -> Call]
      BY ZenonT(40) DEF IInv, TypeOK, Settle, Call
    <2> QED
      BY <2>1, <2>2 DEF IInv, TypeOK
  <1>6. Owns' /\ Alone' /\ AnswersHaveKeys'
    BY <1>1, <1>3 DEF IInv, TypeOK, Owns, Alone, AnswersHaveKeys, Settle, Live, Call
  <1>7. RowsOK'
    BY <1>1, <1>2 DEF IInv, TypeOK, RowsOK, Settle, Pending, Row
  <1>8. AnswerIsRecorded'
    BY <1>1, <1>2, <1>4 DEF IInv, TypeOK, AnswersHaveKeys, AnswerIsRecorded, Settle, Pending,
                            Call, Row
  <1> QED
    BY <1>5, <1>6, <1>7, <1>8 DEF IInv

\* A live call that starts its process, and stays inside or is cancelled.
LEMMA StartStep ==
    ASSUME IInv, NEW c \in Calls, call[c].pc = "reserved", Started(c),
           NEW p \in {"running", "failed"},
           call' = [call EXCEPT ![c].pc = p], UNCHANGED <<db, allow>>
    PROVE  IInv'
  <1> DEFINE k == call[c].key
  <1>1. k \in Keys /\ db[k] = Pending(call[c].content) /\ runs[k] = 0
    BY DEF IInv, Owns, Live
  <1>2. runs' = [runs EXCEPT ![k] = 1]
    BY <1>1 DEF Started, IInv, TypeOK
  <1>3. \A d \in Calls : d # c /\ call[d].pc \in Live => call[d].key # k
    BY DEF IInv, Alone, Live
  <1>4. \A d \in Calls : call[d].pc = "answered" /\ call[d].answer \in Outcomes => call[d].key # k
    BY <1>1 DEF IInv, AnswerIsRecorded, Pending
  <1>5. TypeOK'
    BY <1>1, <1>2 DEF IInv, TypeOK, Call, Live
  <1>6. Owns' /\ Alone' /\ AnswersHaveKeys'
    BY <1>1, <1>2, <1>3 DEF IInv, TypeOK, Owns, Alone, AnswersHaveKeys, Live, Call
  <1>7. RowsOK'
    BY <1>1, <1>2 DEF IInv, TypeOK, RowsOK, Pending, Row
  <1>8. AnswerIsRecorded'
    BY <1>2, <1>4 DEF IInv, TypeOK, AnswersHaveKeys, AnswerIsRecorded, Call
  <1> QED
    BY <1>5, <1>6, <1>7, <1>8 DEF IInv

\* A call that moves without touching the table or the history: it goes on
\* to wait for the killed process, gives up, or its task ends.
LEMMA MoveStep ==
    ASSUME IInv, NEW c \in Calls, UNCHANGED <<db, allow, runs>>,
           NEW e \in Call, call' = [call EXCEPT ![c] = e],
           \/ e.pc \in {"idle", "failed"}
           \/ call[c].pc = "running" /\ e = [call[c] EXCEPT !.pc = "killing"]
    PROVE  IInv'
  <1>1. TypeOK'
    BY DEF IInv, TypeOK
  <1>2. Owns' /\ Alone'
    BY DEF IInv, TypeOK, Owns, Alone, Live, Call
  <1>3. RowsOK' /\ AnswersHaveKeys' /\ AnswerIsRecorded'
    BY DEF IInv, TypeOK, RowsOK, AnswersHaveKeys, AnswerIsRecorded, Live, Call
  <1> QED
    BY <1>1, <1>2, <1>3 DEF IInv

\* The table is all a crash leaves.
LEMMA CrashStep == ASSUME IInv, CrashRestart PROVE IInv'
  BY DEF CrashRestart, Reopened, IInv, TypeOK, Owns, Alone, RowsOK, AnswersHaveKeys,
         AnswerIsRecorded, Idle, Live, Call

\* Every step of the executor preserves the invariant.
LEMMA NextIInv == IInv /\ [Next]_vars => IInv'
  <1> SUFFICES ASSUME IInv, [Next]_vars PROVE IInv'
    OBVIOUS
  <1>1. ASSUME NEW c \in Calls, NEW k \in Keys, NEW x \in Contents, Begin(c, k, x)
        PROVE  IInv'
    <2>1. CASE Refuse(c, k, x)
      BY <1>1, <2>1, RefuseStep DEF Begin
    <2>2. CASE Reserve(c, k, x)
      BY <1>1, <2>2, ReserveStep DEF Begin
    <2>3. CASE LookupFails(c, k, x)
      <3> DEFINE e == [pc |-> "failed", key |-> k, content |-> x, answer |-> Nil]
      <3>1. e \in Call
        BY DEF Call
      <3> QED
        BY <2>3, <3>1, MoveStep DEF LookupFails
    <2> QED
      BY <1>1, <2>1, <2>2, <2>3 DEF Begin
  <1>2. ASSUME NEW c \in Calls, Step(c)
        PROVE  IInv'
    <2>1. CASE Spawn(c)
      BY <2>1, StartStep DEF Spawn
    <2>2. CASE SpawnFails(c)
      BY <2>2, SettleStep, OutcomesAreApart DEF SpawnFails, Live
    <2>3. ASSUME NEW o \in ExitCodes, Finish(c, o)
          PROVE  IInv'
      <3>1. o # "nospawn" /\ o \in Outcomes
        BY OutcomesAssumption DEF Outcomes, Ran
      <3> QED
        BY <2>3, <3>1, SettleStep DEF Finish, Live
    <2>4. CASE Kill(c)
      <3> DEFINE e == [call[c] EXCEPT !.pc = "killing"]
      <3>1. e \in Call /\ call' = [call EXCEPT ![c] = e]
        BY <2>4 DEF Kill, IInv, TypeOK, Call, Live
      <3> QED
        BY <2>4, <3>1, MoveStep DEF Kill
    <2>5. CASE Reaped(c)
      BY <2>5, SettleStep, OutcomesAreApart DEF Reaped, Live
    <2>6. CASE call[c].pc \in Live /\ call' = [call EXCEPT ![c].pc = "failed"]
               /\ UNCHANGED <<db, allow, runs>>
      <3> DEFINE e == [call[c] EXCEPT !.pc = "failed"]
      <3>1. e \in Call /\ e.pc = "failed" /\ call' = [call EXCEPT ![c] = e]
        BY <2>6 DEF IInv, TypeOK, Call
      <3> QED
        BY <2>6, <3>1, MoveStep
    <2>7. CASE Cancel(c)
      <3>1. CASE call[c].pc = "reserved" /\ Started(c)
        BY <2>7, <3>1, StartStep DEF Cancel
      <3> QED
        BY <2>6, <2>7, <3>1 DEF Cancel
    <2> QED
      BY <1>2, <2>1, <2>2, <2>3, <2>4, <2>5, <2>6, <2>7 DEF Step, SettleFails
  <1>3. ASSUME NEW c \in Calls, Return(c)
        PROVE  IInv'
    <2>1. Idle \in Call /\ Idle.pc = "idle"
      BY DEF Idle, Call
    <2> QED
      BY <1>3, <2>1, MoveStep DEF Return
  <1>4. CASE CrashRestart
    BY <1>4, CrashStep
  <1>5. CASE UNCHANGED vars
    BY <1>5 DEF vars, IInv, TypeOK, Owns, Alone, RowsOK, AnswersHaveKeys, AnswerIsRecorded
  <1> QED
    BY <1>1, <1>2, <1>3, <1>4, <1>5 DEF Next

LEMMA Invariance == Spec => []IInv
  BY InitIInv, NextIInv, PTL DEF Spec

-----------------------------------------------------------------------------
\* The variables of the executor keep their types.
THEOREM TypeCorrect == Spec => []TypeOK
  BY Invariance, PTL DEF IInv

\* At most one process is started for a key, whatever overlaps, fails, is
\* cancelled or crashes.
THEOREM AtMostOneRun == Spec => []RunsAtMostOnce
  <1>1. IInv => RunsAtMostOnce
    <2> SUFFICES ASSUME IInv, NEW k \in Keys PROVE runs[k] <= 1
      BY DEF RunsAtMostOnce
    <2>1. db[k].state \in {"absent", "pending", "done"}
      BY DEF IInv, TypeOK, Row
    <2> QED
      BY <2>1 DEF IInv, RowsOK
  <1> QED
    BY <1>1, Invariance, PTL

\* What execute() replies is what the row of its key records for the content
\* the caller asked for.
THEOREM RepliesAreRecorded == Spec => []AnswerIsRecorded
  BY Invariance, PTL DEF IInv

-----------------------------------------------------------------------------
\* A live call's row is pending, so a row without one is nobody's to touch.
LEMMA LiveCallsPend ==
    ASSUME IInv, NEW c \in Calls, call[c].pc \in Live
    PROVE  /\ call[c].key \in Keys
           /\ db[call[c].key] = Pending(call[c].content)
           /\ db[call[c].key].state = "pending"
  BY DEF IInv, Owns, Pending

\* A reservation no call works on any more keeps its row and starts no process.
THEOREM InterruptedIsFrozen == Spec => InterruptedStays
  <1> DEFINE Frozen == \A k \in Keys : Interrupted(k) => runs'[k] = runs[k] /\ db'[k] = db[k]
  <1>1. IInv /\ [Next]_vars => [Frozen]_vars
    <2> SUFFICES ASSUME IInv, Next, NEW k \in Keys, Interrupted(k)
                 PROVE  runs'[k] = runs[k] /\ db'[k] = db[k]
      OBVIOUS
    <2>0. db \in [Keys -> Row] /\ runs \in [Keys -> Nat]
      BY DEF IInv, TypeOK
    <2>1. ASSUME NEW c \in Calls, NEW q \in Keys, NEW x \in Contents, Begin(c, q, x)
          PROVE  runs'[k] = runs[k] /\ db'[k] = db[k]
      <3>1. CASE Reserve(c, q, x)
        <4>1. db[q].state = "absent"
          BY <3>1, ImmediateIsSound DEF Reserve
        <4>2. q # k
          BY <4>1 DEF Interrupted
        <4> QED
          BY <2>0, <3>1, <4>2 DEF Reserve
      <3> QED
        BY <2>1, <3>1 DEF Begin, Refuse, LookupFails
    <2>2. ASSUME NEW c \in Calls, Step(c)
          PROVE  runs'[k] = runs[k] /\ db'[k] = db[k]
      <3>1. call[c].pc \in Live /\ call[c].key # k
        BY <2>2 DEF Step, Spawn, SpawnFails, Finish, Kill, Reaped, SettleFails, Cancel, Live,
                    Interrupted
      <3> QED
        BY <2>0, <2>2, <3>1 DEF Step, Spawn, SpawnFails, Finish, Kill, Reaped, SettleFails,
                                Cancel, Settle, Started
    <2> QED
      BY <2>1, <2>2 DEF Next, Return, CrashRestart, Reopened
  <1> QED
    BY <1>1, Invariance, PTL DEF Spec, InterruptedStays

-----------------------------------------------------------------------------
\* Every step of the executor is a step of the abstract ledger, or none.
LEMMA NextRefines == IInv /\ [Next]_vars => [Ledger!Next]_(Ledger!vars)
  <1> SUFFICES ASSUME IInv, [Next]_vars PROVE Ledger!Next \/ UNCHANGED Ledger!vars
    OBVIOUS
  <1> USE DEF Ledger!vars
  <1>0. db \in [Keys -> Row] /\ runs \in [Keys -> Nat]
    BY DEF IInv, TypeOK
  <1>1. ASSUME UNCHANGED <<db, runs>>
        PROVE  UNCHANGED Ledger!vars
    BY <1>1
  <1>2. ASSUME NEW c \in Calls, NEW k \in Keys, NEW x \in Contents, Reserve(c, k, x)
        PROVE  Ledger!Next
    <2>1. db[k].state = "absent" /\ db[k] = NoRow
      BY <1>2, ImmediateIsSound DEF Reserve, IInv, RowsOK
    <2>2. /\ \A q \in Keys : db'[q] = IF q = k THEN Pending(x) ELSE db[q]
          /\ runs' = runs
      BY <1>0, <1>2 DEF Reserve
    <2>3. \A q \in Keys :
            /\ db'[q].state = IF q = k THEN "pending" ELSE db[q].state
            /\ db'[q].content = IF q = k THEN x ELSE db[q].content
            /\ db'[q].outcome = db[q].outcome
      BY <2>1, <2>2 DEF Pending, NoRow
    <2>4. Ledger!Claim(k, x)
      BY <2>1, <2>2, <2>3 DEF Ledger!Claim
    <2> QED
      BY <2>4 DEF Ledger!Next
  <1>3. ASSUME NEW c \in Calls, call[c].pc = "reserved", Started(c), UNCHANGED db
        PROVE  Ledger!Next
    <2>1. /\ call[c].key \in Keys
          /\ db[call[c].key].state = "pending"
          /\ runs[call[c].key] = 0
      BY <1>3, LiveCallsPend DEF IInv, Owns, Live
    <2>2. Ledger!Run(call[c].key)
      BY <1>0, <1>3, <2>1 DEF Started, Ledger!Run
    <2> QED
      BY <2>1, <2>2 DEF Ledger!Next
  <1>4. ASSUME NEW c \in Calls, NEW o \in Outcomes, call[c].pc \in Live, Settle(c, o),
               UNCHANGED runs, (call[c].pc = "reserved") <=> (o = "nospawn")
        PROVE  Ledger!Next
    <2> DEFINE k == call[c].key
    <2>1. k \in Keys /\ db[k].state = "pending"
      BY <1>4, LiveCallsPend
    <2>2. (runs[k] = 1) = (o # "nospawn")
      BY <1>4 DEF IInv, Owns
    <2>3. db' = [db EXCEPT ![k].state = "done", ![k].outcome = o]
      BY <1>4 DEF Settle
    <2> HIDE DEF k
    <2>4. Ledger!Settle(k, o)
      BY <1>0, <1>4, <2>1, <2>2, <2>3 DEF Ledger!Settle, Row
    <2> QED
      BY <1>4, <2>1, <2>4 DEF Ledger!Next, Outcomes
  <1>5. ASSUME NEW c \in Calls, NEW k \in Keys, NEW x \in Contents, Begin(c, k, x)
        PROVE  Ledger!Next \/ UNCHANGED Ledger!vars
    BY <1>1, <1>2, <1>5 DEF Begin, Refuse, LookupFails
  <1>6. ASSUME NEW c \in Calls, Step(c)
        PROVE  Ledger!Next \/ UNCHANGED Ledger!vars
    <2>1. CASE Spawn(c)
      BY <1>3, <2>1 DEF Spawn
    <2>2. CASE SpawnFails(c)
      BY <1>4, <2>2, OutcomesAreApart DEF SpawnFails, Live
    <2>3. ASSUME NEW o \in ExitCodes, Finish(c, o)
          PROVE  Ledger!Next
      <3>1. o # "nospawn" /\ o \in Outcomes
        BY OutcomesAssumption DEF Outcomes, Ran
      <3> QED
        BY <1>4, <2>3, <3>1 DEF Finish, Live
    <2>4. CASE Reaped(c)
      BY <1>4, <2>4, OutcomesAreApart DEF Reaped, Live
    <2>5. CASE Kill(c) \/ SettleFails(c)
      BY <1>1, <2>5 DEF Kill, SettleFails
    <2>6. CASE Cancel(c)
      BY <1>1, <1>3, <2>6 DEF Cancel
    <2> QED
      BY <1>6, <2>1, <2>2, <2>3, <2>4, <2>5, <2>6 DEF Step
  <1> QED
    BY <1>1, <1>5, <1>6 DEF Next, Return, CrashRestart, Reopened, vars

\* The executor implements the abstract at-most-once ledger.
THEOREM ExecutorImplementsLedger == Spec => ImplementsLedger
  <1>1. Init => Ledger!Init
    BY DEF Init, Ledger!Init, NoRow
  <1> QED
    BY <1>1, NextRefines, Invariance, PTL DEF Spec, ImplementsLedger, Ledger!Spec
=============================================================================
