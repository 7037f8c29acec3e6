------------------------- MODULE MeshGatewayProofs --------------------------
(***************************************************************************)
(* The gateway keeps what the executor promises: at most one process for a *)
(* key, none for a node it does not listen to, and replies that are true.  *)
(* For any number of nodes, tasks, slots and restarts.                     *)
(*                                                                         *)
(* The invariant is about a set F of request frames, the ones the gateway  *)
(* may hear: whatever it assembles, admits, executes and records, each     *)
(* chunk of it is in F.  The executor is X, with its own invariant.        *)
(***************************************************************************)
EXTENDS MeshGateway, FiniteSetTheorems, FunctionTheorems, TLAPS

X == INSTANCE CommandExecutorProofs WITH Calls <- Tasks

\* A whole request for k with content x was among the frames, from a node that
\* may ask.
Asked(F, k, x) ==
    /\ k \in Keys /\ k[1] \in Allowed \cap Keyed /\ k[3] # 0
    /\ x \in Contents
    /\ Chunks("request", k, x) \subseteq F

\* A reassembly for k: chunks of one message, no two for the same index.
Assembling(F, r, k) ==
    /\ \A g \in r.got : g \in F /\ g.key = k /\ Tag(g) = r.tag
    /\ \A g, h \in r.got : g.index = h.index => g = h

RxOK(F) ==
    /\ late \subseteq F
    /\ \A k \in Keys : rxs[k] # Nil => Assembling(F, rxs[k], k)

Entry ==
    [phase : {"none", "ack", "admit", "execute"}, key : Keys \cup {Nil}, content : Contents \cup {Nil}]

TasksOK(F) ==
    /\ task \in [Tasks -> Entry]
    /\ \A t \in Busy : Asked(F, task[t].key, task[t].content)

\* No two tasks work on the same key.
Apart == \A t, u \in Busy : task[t].key = task[u].key => t = u

\* A task in execute() is the executor's call for its request.
Linked ==
    \A t \in Tasks :
        IF task[t].phase = "execute"
        THEN call[t].pc # "idle" /\ call[t].key = task[t].key /\ call[t].content = task[t].content
        ELSE call[t].pc = "idle"

RowsAsked(F) == \A k \in Keys : db[k].state # "absent" => Asked(F, k, db[k].content)

\* No key was used for two contents.
Fresh(F) == \A k \in Keys : \A x, y \in Contents : Asked(F, k, x) /\ Asked(F, k, y) => x = y

\* The reply a says the truth about k.
Truth(F, k, a) ==
    /\ a \in X!Outcomes => db[k].state = "done" /\ db[k].outcome = a
    /\ a = "indeterminate" => X!Interrupted(k)
    /\ a # "badid"
    /\ Fresh(F) => a # "reused"

AnswersTrue(F) == \A t \in Tasks : call[t].pc = "answered" => Truth(F, call[t].key, call[t].answer)

DownTrue(F) == \A f \in down : f.kind = "result" => f.key \in Keys /\ Truth(F, f.key, f.body)

GInv(F) ==
    /\ X!IInv
    /\ RxOK(F)
    /\ TasksOK(F) /\ Apart /\ Linked
    /\ RowsAsked(F) /\ AnswersTrue(F) /\ DownTrue(F)

-----------------------------------------------------------------------------
\* The executor's own results, under the gateway's assumptions.

\* The executor may assume what it does of the constants.
LEMMA SharedHolds == X!OutcomesAssumption /\ X!MsgsAssumption
BY SharedAssumption DEF X!OutcomesAssumption, X!MsgsAssumption

LEMMA SameKeys == Keys = X!Keys /\ Exec!Keys = X!Keys
BY DEF Keys, Exec!Keys, X!Keys

\* The executor starts in its invariant.
LEMMA ExecInit == Exec!Init => X!IInv
<1>1. Exec!Init => X!Init
  BY DEF Exec!Init, X!Init, Exec!Keys, X!Keys, Exec!NoRow, X!NoRow, Exec!Idle, X!Idle
<1> QED BY <1>1, X!InitIInv, SharedHolds

\* A call of execute() is one of the executor's.
LEMMA ExecBegin ==
    ASSUME X!IInv, NEW t \in Tasks, NEW k \in Keys, NEW x \in Contents, Exec!Begin(t, k, x)
    PROVE  X!IInv' /\ X!Begin(t, k, x)
<1>1. X!Begin(t, k, x)
  BY DEF Exec!Begin, X!Begin, Exec!Refuse, X!Refuse, Exec!Reserve, X!Reserve,
         Exec!LookupFails, X!LookupFails, Exec!Immediate, X!Immediate, Exec!Lookup, X!Lookup,
         Exec!Answered, X!Answered, X!Pending, Exec!Pending
<1>2. X!Next
  BY <1>1, SameKeys DEF X!Next
<1> QED BY <1>1, <1>2, X!NextIInv, SharedHolds

\* A step inside execute() is one of the executor's.
LEMMA ExecStep ==
    ASSUME X!IInv, NEW t \in Tasks, Exec!Step(t)
    PROVE  X!IInv' /\ X!Step(t)
<1>1. X!Step(t)
  BY DEF Exec!Step, X!Step, Exec!Spawn, X!Spawn, Exec!SpawnFails, X!SpawnFails, Exec!Finish,
         X!Finish, Exec!Kill, X!Kill, Exec!Reaped, X!Reaped, Exec!Cut, X!Cut, Exec!SettleFails,
         X!SettleFails, Exec!Cancel, X!Cancel, Exec!Started, X!Started, Exec!Settle, X!Settle,
         Exec!Live, X!Live
<1>2. X!Next
  BY <1>1 DEF X!Next
<1> QED BY <1>1, <1>2, X!NextIInv, SharedHolds

\* A call that ends, or was not there.
LEMMA ExecLeave ==
    ASSUME X!IInv, NEW t \in Tasks, call' = [call EXCEPT ![t] = Exec!Idle], UNCHANGED <<db, allow, runs>>
    PROVE  X!IInv'
<1>1. X!Idle \in X!Call /\ X!Idle.pc = "idle" /\ call' = [call EXCEPT ![t] = X!Idle]
  BY DEF X!Idle, X!Call, Exec!Idle
<1> QED BY <1>1, X!MoveStep, SharedHolds

\* A restart of the companion is a crash of the executor.
LEMMA ExecCrash ==
    ASSUME X!IInv, Exec!CrashRestart
    PROVE  X!IInv'
<1>1. X!CrashRestart
  BY DEF Exec!CrashRestart, X!CrashRestart, Exec!Reopened, X!Reopened, Exec!Idle, X!Idle
<1> QED BY <1>1, X!CrashStep, SharedHolds

-----------------------------------------------------------------------------
\* What the steps of the executor do to the calls, and keep of the table.

\* Settled rows stay, interrupted ones stay interrupted, and no row loses its
\* content.
Kept ==
    \A k \in Keys :
        /\ db[k].state = "done" => db'[k] = db[k]
        /\ X!Interrupted(k) => X!Interrupted(k)'
        /\ db[k].state # "absent" => db'[k].state # "absent" /\ db'[k].content = db[k].content

\* The call of task t is e from now on.
Becomes(t, e) == call' = [call EXCEPT ![t] = e]

LEMMA ExecTypes ==
    ASSUME X!IInv
    PROVE  db \in [Keys -> X!Row] /\ call \in [Tasks -> X!Call]
BY SameKeys DEF X!IInv, X!TypeOK

\* Nothing but one call moves, and not to work on anything new.
LEMMA KeptAside ==
    ASSUME X!IInv, NEW t \in Tasks, NEW e, Becomes(t, e), UNCHANGED db,
           e.pc \in X!Live => call[t].pc \in X!Live /\ e.key = call[t].key
    PROVE  Kept
BY ExecTypes DEF Kept, X!Interrupted, Becomes

\* What a call of execute() does up to its first await.
LEMMA BeginEffect ==
    ASSUME X!IInv, NEW t \in Tasks, NEW k \in Keys, NEW x \in Contents, X!Begin(t, k, x)
    PROVE  /\ Kept
           /\ call[t].pc = "idle"
           /\ \E e : /\ Becomes(t, e) /\ e.key = k /\ e.content = x
                     /\ e.pc \in {"answered", "failed", "reserved"}
                     /\ e.pc = "reserved" => db' = [db EXCEPT ![k] = X!Pending(x)]
                     /\ e.pc # "reserved" => UNCHANGED db
                     /\ e.pc = "answered" => e.answer = X!Immediate(k, x) /\ e.answer # Nil
<1>1. call[t].pc = "idle"
  BY DEF X!Begin
<1>2. ASSUME NEW e, Becomes(t, e), e.pc \in {"answered", "failed"}, UNCHANGED db
      PROVE  Kept
  BY <1>2, KeptAside DEF X!Live
<1>3. CASE X!Refuse(t, k, x)
  <2>1. PICK e : e = X!Answered(k, x, X!Immediate(k, x))
    OBVIOUS
  <2>2. /\ Becomes(t, e) /\ UNCHANGED db /\ e.key = k /\ e.content = x
        /\ e.pc = "answered" /\ e.answer = X!Immediate(k, x) /\ e.answer # Nil
    BY <1>3, <2>1 DEF X!Refuse, X!Answered, Becomes
  <2> QED BY <1>1, <1>2, <2>2
<1>4. CASE X!LookupFails(t, k, x)
  <2>1. PICK e : e = [pc |-> "failed", key |-> k, content |-> x, answer |-> Nil]
    OBVIOUS
  <2>2. Becomes(t, e) /\ UNCHANGED db /\ e.key = k /\ e.content = x /\ e.pc = "failed"
    BY <1>4, <2>1 DEF X!LookupFails, Becomes
  <2> QED BY <1>1, <1>2, <2>2
<1>5. CASE X!Reserve(t, k, x)
  <2>1. PICK e : e = [pc |-> "reserved", key |-> k, content |-> x, answer |-> Nil]
    OBVIOUS
  <2>2. Becomes(t, e) /\ db' = [db EXCEPT ![k] = X!Pending(x)] /\ e.key = k /\ e.content = x
        /\ e.pc = "reserved"
    BY <1>5, <2>1 DEF X!Reserve, Becomes
  <2>3. db[k].state = "absent"
    BY <1>5, SameKeys, SharedHolds, X!ImmediateIsSound DEF X!Reserve
  <2>4. Kept
    BY <2>2, <2>3, ExecTypes DEF Kept, X!Interrupted, Becomes
  <2> QED BY <1>1, <2>2, <2>4
<1> QED BY <1>3, <1>4, <1>5 DEF X!Begin

\* What a step inside execute() does.
LEMMA StepEffect ==
    ASSUME X!IInv, NEW t \in Tasks, X!Step(t)
    PROVE  /\ Kept
           /\ call[t].pc \in X!Live
           /\ \E e : /\ Becomes(t, e) /\ e.key = call[t].key /\ e.content = call[t].content
                     /\ e.pc \in X!Live \cup {"answered", "failed"}
                     /\ e.pc = "answered" => e.answer \in X!Outcomes
<1>1. call[t].pc \in X!Live /\ call[t] \in X!Call
  BY ExecTypes DEF X!Step, X!Spawn, X!SpawnFails, X!Finish, X!Kill, X!Reaped, X!SettleFails,
                   X!Cancel, X!Live
<1>2. ASSUME NEW p \in X!Live \cup {"failed"}, call' = [call EXCEPT ![t].pc = p], UNCHANGED db
      PROVE  /\ Kept
             /\ \E e : /\ Becomes(t, e) /\ e.key = call[t].key /\ e.content = call[t].content
                       /\ e.pc \in X!Live \cup {"answered", "failed"}
                       /\ e.pc = "answered" => e.answer \in X!Outcomes
  <2>1. PICK e : e = [call[t] EXCEPT !.pc = p]
    OBVIOUS
  <2>2. Becomes(t, e)
    BY <1>2, <2>1 DEF Becomes
  <2>3. e.key = call[t].key /\ e.content = call[t].content /\ e.pc = p /\ e.pc # "answered"
    BY <1>1, <1>2, <2>1 DEF X!Call, X!Live
  <2> QED BY <1>1, <1>2, <2>2, <2>3, KeptAside
<1>3. ASSUME NEW o \in X!Outcomes, X!Settle(t, o)
      PROVE  /\ Kept
             /\ \E e : /\ Becomes(t, e) /\ e.key = call[t].key /\ e.content = call[t].content
                       /\ e.pc \in X!Live \cup {"answered", "failed"}
                       /\ e.pc = "answered" => e.answer \in X!Outcomes
  <2>1. PICK e : e = [call[t] EXCEPT !.pc = "answered", !.answer = o]
    OBVIOUS
  <2>2. Becomes(t, e)
    BY <1>3, <2>1 DEF Becomes, X!Settle
  <2>3. e.key = call[t].key /\ e.content = call[t].content /\ e.pc = "answered" /\ e.answer = o
    BY <1>1, <2>1 DEF X!Call
  <2>4. PICK q : q = call[t].key
    OBVIOUS
  <2>5. q \in Keys /\ db[q].state = "pending" /\ ~X!Interrupted(q)
    BY <1>1, <2>4, SameKeys, SharedHolds, X!LiveCallsPend DEF X!Interrupted
  <2>6. db' = [db EXCEPT ![q].state = "done", ![q].outcome = o]
    BY <1>3, <2>4 DEF X!Settle
  <2>7. db'[q].state = "done" /\ db'[q].content = db[q].content
    BY <2>5, <2>6, ExecTypes DEF X!Row
  <2>8. \A k \in Keys : k # q => db'[k] = db[k]
    BY <2>6, ExecTypes
  <2>9. \A c \in Tasks : call'[c].pc \in X!Live => call[c].pc \in X!Live /\ call'[c].key = call[c].key
    BY <2>2, <2>3, ExecTypes DEF Becomes, X!Live
  <2>10. Kept
    BY <2>5, <2>7, <2>8, <2>9 DEF Kept, X!Interrupted
  <2> QED BY <2>2, <2>3, <2>10, <1>3
<1>4. "nospawn" \in X!Outcomes /\ X!Cut \subseteq X!Outcomes /\ ExitCodes \subseteq X!Outcomes
      /\ {"running", "killing"} \subseteq X!Live
  BY DEF X!Outcomes, X!Ran, X!Live
<1>5. CASE X!Spawn(t) \/ X!Kill(t) \/ X!SettleFails(t) \/ X!Cancel(t)
  BY <1>1, <1>2, <1>4, <1>5 DEF X!Spawn, X!Kill, X!SettleFails, X!Cancel
<1>6. CASE X!SpawnFails(t) \/ X!Reaped(t) \/ (\E o \in ExitCodes : X!Finish(t, o))
  BY <1>1, <1>3, <1>4, <1>6 DEF X!SpawnFails, X!Reaped, X!Finish
<1> QED BY <1>5, <1>6 DEF X!Step

-----------------------------------------------------------------------------
\* Reassembly.

\* A message has as many chunks as its size says.
LEMMA ChunksCount ==
    ASSUME NEW kind, NEW k, NEW b \in Bodies
    PROVE  IsFiniteSet(Chunks(kind, k, b)) /\ Cardinality(Chunks(kind, k, b)) = Size[b]
<1>1. PICK n \in Nat : n = Size[b]
  BY SizeAssumption
<1>2. PICK S : S = Chunks(kind, k, b)
  OBVIOUS
<1>3. PICK f : f = [i \in 1..n |-> Chunk(kind, k, b, i)]
  OBVIOUS
<1>4. \A i \in 1..n : f[i].index = i /\ f[i] \in S
  BY <1>1, <1>2, <1>3 DEF Chunk, Chunks
<1>5. \A s \in S : \E i \in 1..n : f[i] = s
  BY <1>1, <1>2, <1>3 DEF Chunks
<1>6. f \in Bijection(1..n, S)
  <2>1. f \in [1..n -> S]
    BY <1>3, <1>4
  <2>2. \A i, j \in 1..n : f[i] = f[j] => i = j
    BY <1>4
  <2> QED BY <2>1, <2>2, <1>5, Fun_IsBij
<1>7. ExistsBijection(1..n, S)
  BY <1>6, Fun_ExistsBij
<1> QED BY <1>1, <1>2, <1>7, FS_NatBijection, FS_CountingElements

\* What a chunk finds in the reassembler goes with it.
LEMMA MergeSound ==
    ASSUME NEW F, NEW f \in F, NEW r, Assembling(F, r, f.key), NEW old
    PROVE  /\ Merge(r, f, old) # {}
           /\ \A g \in Merge(r, f, old) : g \in F /\ g.key = f.key /\ Tag(g) = Tag(f)
           /\ \A g, h \in Merge(r, f, old) : g.index = h.index => g = h
<1>1. PICK kept : kept = IF old \/ r.tag # Tag(f) THEN {} ELSE r.got
  OBVIOUS
<1>2. Merge(r, f, old) = IF \E g \in kept : g.index = f.index THEN kept ELSE kept \cup {f}
  BY <1>1 DEF Merge
<1>3. \A g \in kept : g \in F /\ g.key = f.key /\ Tag(g) = Tag(f)
  BY <1>1 DEF Assembling
<1>4. \A g, h \in kept : g.index = h.index => g = h
  BY <1>1 DEF Assembling
<1> QED BY <1>2, <1>3, <1>4

\* The reassembler stays sound; an empty one is.
LEMMA AfterSound ==
    ASSUME NEW F, NEW f \in F, NEW r, Assembling(F, r, f.key), NEW old
    PROVE  Assembling(F, After(r, f, old), f.key)
<1>1. PICK got : got = Merge(r, f, old)
  OBVIOUS
<1>2. After(r, f, old) = Empty \/ After(r, f, old) = [tag |-> Tag(f), got |-> got]
  BY <1>1 DEF After
<1>3. /\ \A g \in got : g \in F /\ g.key = f.key /\ Tag(g) = Tag(f)
      /\ \A g, h \in got : g.index = h.index => g = h
  BY <1>1, MergeSound
<1>4. CASE After(r, f, old) = Empty
  BY <1>4 DEF Assembling, Empty
<1>5. CASE After(r, f, old) = [tag |-> Tag(f), got |-> got]
  <2>1. PICK a : a = After(r, f, old)
    OBVIOUS
  <2>2. a.tag = Tag(f) /\ a.got = got
    BY <1>5, <2>1
  <2>3. Assembling(F, a, f.key)
    BY <1>3, <2>2 DEF Assembling
  <2> QED BY <2>1, <2>3
<1> QED BY <1>2, <1>4, <1>5

\* A set of chunks that passes the HMAC check is of one body.
LEMMA OneBody ==
    ASSUME NEW got, got # {}, Unsealed(got) # Mixed
    PROVE  Unsealed(got) \in Bodies /\ \A g \in got : g.body = Unsealed(got)
<1>1. PICK b \in Bodies : \A g \in got : g.body = b
  BY DEF Unsealed
<1>2. Unsealed(got) = (CHOOSE g \in got : TRUE).body
  BY <1>1 DEF Unsealed
<1>3. (CHOOSE g \in got : TRUE) \in got
  OBVIOUS
<1> QED BY <1>1, <1>2, <1>3

\* A frame of a request is one of its chunks.
LEMMA RequestFrame ==
    ASSUME NEW f \in Requests
    PROVE  /\ f.kind = "request" /\ f.key \in Keys /\ f.key[3] # 0 /\ f.body \in Contents
           /\ f.count = Size[f.body]
           /\ f \in Chunks("request", f.key, f.body)
<1>1. PICK k \in Keys, x \in Contents : k[3] # 0 /\ f \in Chunks("request", k, x)
  BY DEF Requests
<1>2. f.kind = "request" /\ f.key = k /\ f.body = x /\ f.count = Size[x]
  BY <1>1 DEF Chunks, Chunk
<1> QED BY <1>1, <1>2

\* A complete and authentic request is whole: each of its chunks was heard.
LEMMA WholeRequest ==
    ASSUME NEW F, F \subseteq Requests, NEW f \in F, NEW got,
           got # {}, \A g \in got : g \in F /\ g.key = f.key /\ Tag(g) = Tag(f),
           Complete(got, f), f.key[1] \in Allowed, Authentic(f.key, got)
    PROVE  Asked(F, f.key, Unsealed(got))
<1>1. PICK b \in Bodies : b = Unsealed(got) /\ \A g \in got : g.body = b
  BY OneBody DEF Authentic
<1>2. PICK C : C = Chunks("request", f.key, b)
  OBVIOUS
<1>3. got \subseteq C
  BY <1>1, <1>2, RequestFrame
<1>4. f.count = Size[b] /\ b \in Contents
  <2>1. PICK g \in got : TRUE
    OBVIOUS
  <2>2. g.count = f.count /\ g.body = b /\ g \in Requests
    BY <1>1, <2>1 DEF Tag
  <2> QED BY <2>2, RequestFrame
<1>5. IsFiniteSet(C) /\ Cardinality(C) = f.count
  BY <1>2, <1>4, ChunksCount
<1>6. got = C
  BY <1>3, <1>5, FS_Subset DEF Complete
<1> QED BY <1>1, <1>2, <1>4, <1>6, RequestFrame DEF Asked, Authentic

-----------------------------------------------------------------------------
\* The steps of the gateway keep the invariant.

\* A step of the gateway when F is what it may hear.
GStep(F) ==
    \/ \E f \in F : \E old : Ingest(f, old)
    \/ \E t \in Tasks : TaskStep(t)
    \/ \E posted : posted \subseteq F /\ Close(posted)
    \/ Closed \/ Restart \/ UNCHANGED gvars

\* What is true of a key stays true.
LEMMA TruthKept ==
    ASSUME Kept, NEW F, NEW k \in Keys, NEW a, Truth(F, k, a)
    PROVE  Truth(F, k, a)'
BY DEF Kept, Truth

LEMMA KeptSame == ASSUME UNCHANGED <<db, call>> PROVE Kept
BY DEF Kept, X!Interrupted

\* A new row is for the request it was made for.
LEMMA RowsKept ==
    ASSUME Kept, X!IInv, NEW F, RowsAsked(F), NEW k \in Keys, NEW x, Asked(F, k, x),
           UNCHANGED db \/ db' = [db EXCEPT ![k] = X!Pending(x)]
    PROVE  RowsAsked(F)'
BY ExecTypes DEF RowsAsked, Asked, X!Pending

\* One task moves on, or ends, and its call with it.
LEMMA TaskMoves ==
    ASSUME NEW F, GInv(F), X!IInv', Kept, RowsAsked(F)', UNCHANGED <<rxs, late>>,
           NEW t \in Tasks, NEW n \in Entry, task' = [task EXCEPT ![t] = n],
           n.phase = "none" \/ (task[t].phase # "none" /\ n.key = task[t].key /\ n.content = task[t].content),
           NEW e, Becomes(t, e),
           n.phase = "execute" => e.pc # "idle" /\ e.key = n.key /\ e.content = n.content,
           n.phase # "execute" => e.pc = "idle",
           e.pc = "answered" => Truth(F, e.key, e.answer)',
           \A f \in down' : f \in down \/ (f.kind = "result" => f.key \in Keys /\ Truth(F, f.key, f.body))
    PROVE  GInv(F)'
<1> USE DEF GInv
<1>1. /\ task \in [Tasks -> Entry] /\ task' \in [Tasks -> Entry] /\ task'[t] = n
      /\ \A u \in Tasks : u # t => task'[u] = task[u]
  BY DEF TasksOK
<1>2. call'[t] = e /\ \A u \in Tasks : u # t => call'[u] = call[u]
  BY ExecTypes DEF Becomes
<1>3. TasksOK(F)'
  BY <1>1 DEF TasksOK, Busy, Asked
<1>4. Apart'
  BY <1>1 DEF Apart, Busy
<1>5. Linked'
  BY <1>1, <1>2 DEF Linked
<1>6. AnswersTrue(F)'
  <2> SUFFICES ASSUME NEW u \in Tasks, call'[u].pc = "answered"
               PROVE  Truth(F, call[u].key, call[u].answer)'
    BY DEF AnswersTrue
  <2>1. CASE u = t
    <3>1. Truth(F, e.key, e.answer)'
      BY <1>2, <2>1
    <3>2. call'[u].key = e.key /\ call'[u].answer = e.answer
      BY <1>2, <2>1
    <3> QED BY <3>1, <3>2 DEF Truth
  <2>2. CASE u # t
    <3>1. call'[u] = call[u] /\ call[u].pc = "answered"
      BY <1>2, <2>2
    <3>2. PICK k, a : k = call[u].key /\ a = call[u].answer
      OBVIOUS
    <3>3. k \in Keys
      BY <3>1, <3>2, SameKeys DEF X!IInv, X!AnswersHaveKeys
    <3>4. Truth(F, k, a)'
      BY <3>1, <3>2, <3>3, TruthKept DEF AnswersTrue
    <3>5. call'[u].key = k /\ call'[u].answer = a
      BY <3>1, <3>2
    <3> QED BY <3>4, <3>5 DEF Truth
  <2> QED BY <2>1, <2>2
<1>7. DownTrue(F)'
  <2> SUFFICES ASSUME NEW f \in down', f.kind = "result"
               PROVE  f.key \in Keys /\ Truth(F, f.key, f.body)'
    BY DEF DownTrue
  <2>1. f.key \in Keys /\ Truth(F, f.key, f.body)
    BY DEF DownTrue
  <2> QED BY <2>1, TruthKept
<1>8. RxOK(F)'
  BY DEF RxOK
<1> QED BY <1>3, <1>4, <1>5, <1>6, <1>7, <1>8

\* What a task hands to the radio is an acknowledgement or true.
LEMMA ReplyTrue ==
    ASSUME NEW F, GInv(F), NEW t \in Tasks, task[t].phase = "ack" \/ call[t].pc = "answered"
    PROVE  \A f \in Reply(t) : f.kind = "result" => f.key \in Keys /\ Truth(F, f.key, f.body)
<1> USE DEF GInv
<1>1. CASE task[t].phase = "ack"
  <2>1. \A f \in Reply(t) : f.kind = "ack"
    BY <1>1 DEF Reply, Chunks, Chunk
  <2> QED BY <2>1
<1>2. CASE task[t].phase # "ack" /\ call[t].pc = "answered"
  <2>1. call[t].key = task[t].key
    BY <1>2 DEF Linked
  <2>2. PICK k, a : k = call[t].key /\ a = call[t].answer
    OBVIOUS
  <2>3. k \in Keys /\ Truth(F, k, a)
    BY <1>2, <2>2, SameKeys DEF X!IInv, X!AnswersHaveKeys, AnswersTrue
  <2>4. \A f \in Reply(t) : f.key = k /\ f.body = a
    BY <1>2, <2>1, <2>2 DEF Reply, Chunks, Chunk
  <2> QED BY <2>3, <2>4
<1> QED BY <1>1, <1>2

\* What execute() answers at once is true.
LEMMA ImmediateTrue ==
    ASSUME NEW F, GInv(F), NEW t \in Tasks, task[t].phase = "admit",
           NEW k, NEW x, k = task[t].key, x = task[t].content, NEW a, a = X!Immediate(k, x), a # Nil
    PROVE  Truth(F, k, a)
<1> USE DEF GInv
<1>1. k \in X!Keys /\ x \in Contents /\ k[3] # 0 /\ Asked(F, k, x) /\ k \in Keys
  BY SameKeys DEF TasksOK, Busy, Asked
<1>2. db[k] \in X!Row /\ call[t].pc = "idle"
  BY <1>1, SameKeys, ExecTypes DEF Linked
<1>3. /\ a \in X!Refusals \/ (a \in X!Outcomes /\ db[k].state = "done" /\ db[k].outcome = a)
      /\ X!Outcomes \cap X!Refusals = {}
      /\ \A w \in {"badid", "reused", "indeterminate", "notallowed"} : w \in X!Refusals
  BY <1>1, SharedHolds, X!ImmediateIsSound, X!OutcomesAreApart DEF X!Refusals
<1>4. a = "indeterminate" => X!Interrupted(k)
  <2> SUFFICES ASSUME a = "indeterminate" PROVE X!Interrupted(k)
    OBVIOUS
  <2>1. a \notin X!Outcomes
    BY <1>3
  <2>2. db[k].state = "done" => db[k].outcome \in X!Outcomes
    BY <1>1 DEF X!IInv, X!RowsOK
  <2>3. db[k].state = "pending"
    BY <1>1, <1>2, <2>1, <2>2 DEF X!Immediate, X!Lookup, X!Row
  <2>4. ASSUME NEW c \in Tasks, call[c].pc \in X!Live, call[c].key = k PROVE FALSE
    <3>1. task[c].phase = "execute" /\ task[c].key = k
      BY <2>4 DEF Linked, X!Live
    <3>2. c = t
      BY <3>1 DEF Apart, Busy
    <3> QED BY <3>1, <3>2
  <2> QED BY <2>3, <2>4 DEF X!Interrupted
<1>5. a # "badid"
  <2>1. "badid" \notin X!Outcomes
    BY <1>3
  <2>2. db[k].state = "done" => db[k].outcome \in X!Outcomes
    BY <1>1 DEF X!IInv, X!RowsOK
  <2>3. Nil # "badid"
    BY SharedAssumption
  <2> QED BY <1>1, <2>1, <2>2, <2>3 DEF X!Immediate, X!Lookup
<1>6. Fresh(F) => a # "reused"
  <2> SUFFICES ASSUME Fresh(F) PROVE a # "reused"
    OBVIOUS
  <2>1. "reused" \notin X!Outcomes /\ Nil # "reused"
    BY <1>3, SharedAssumption
  <2>2. db[k].state = "done" => db[k].outcome \in X!Outcomes
    BY <1>1 DEF X!IInv, X!RowsOK
  <2>3. db[k].state # "absent" => db[k].content = x
    BY <1>1 DEF RowsAsked, Asked, Fresh
  <2> QED BY <1>1, <2>1, <2>2, <2>3 DEF X!Immediate, X!Lookup
<1> QED BY <1>3, <1>4, <1>5, <1>6 DEF Truth

\* A chunk is heard: at most one task more, for a whole request.
LEMMA IngestKeeps ==
    ASSUME NEW F, F \subseteq Requests, GInv(F), NEW f \in F, NEW old, Ingest(f, old)
    PROVE  GInv(F)'
<1> USE DEF GInv
<1>1. /\ late' = late \ {f}
      /\ UNCHANGED <<down, db, allow, call, runs>>
  BY DEF Ingest, xvars
<1>2. Kept /\ X!IInv'
  <2>1. [X!Next]_(X!vars)
    BY <1>1 DEF X!vars
  <2> QED BY <1>1, <2>1, KeptSame, X!NextIInv, SharedHolds
<1>3. f \in Requests /\ f.key \in Keys
  BY RequestFrame
<1>4. PICK r : r = Purged(old)
  OBVIOUS
<1>5. PICK asm : asm = IF r[f.key] = Nil THEN Empty ELSE r[f.key]
  OBVIOUS
<1>6. PICK got : got = Merge(asm, f, FALSE)
  OBVIOUS
<1>7. \/ UNCHANGED <<rxs, task>>
      \/ rxs' = r /\ UNCHANGED task
      \/ /\ rxs' = [r EXCEPT ![f.key] = Nil]
         /\ \/ UNCHANGED task
            \/ /\ Heard(f) /\ Complete(got, f) /\ Authentic(f.key, got)
               /\ Accept(f.key, Unsealed(got))
      \/ rxs' = [r EXCEPT ![f.key] = After(asm, f, FALSE)] /\ UNCHANGED task
  BY <1>4, <1>5, <1>6 DEF Ingest
<1>8. /\ DOMAIN r = Keys /\ r = [k \in Keys |-> r[k]]
      /\ \A k \in Keys : r[k] # Nil => Assembling(F, r[k], k)
  BY <1>4 DEF Purged, RxOK
<1>9. Assembling(F, asm, f.key)
  <2>1. Assembling(F, Empty, f.key)
    BY DEF Assembling, Empty
  <2> QED BY <1>3, <1>5, <1>8, <2>1
<1>10. RxOK(F)'
  <2>1. Assembling(F, After(asm, f, FALSE), f.key)
    BY <1>9, AfterSound
  <2>2. PICK a : a = After(asm, f, FALSE)
    OBVIOUS
  <2>3. \A k \in Keys : rxs'[k] # Nil => Assembling(F, rxs'[k], k)
    <3>1. CASE UNCHANGED rxs
      BY <3>1 DEF RxOK
    <3>2. CASE rxs' = r
      BY <1>8, <3>2
    <3>3. CASE rxs' = [r EXCEPT ![f.key] = Nil]
      BY <1>8, <3>3
    <3>4. CASE rxs' = [r EXCEPT ![f.key] = a]
      BY <1>3, <1>8, <2>1, <2>2, <3>4
    <3> QED BY <1>7, <2>2, <3>1, <3>2, <3>3, <3>4
  <2> QED BY <1>1, <2>3 DEF RxOK
<1>11. RowsAsked(F)' /\ DownTrue(F)' /\ AnswersTrue(F)'
  <2>1. \A k, a : Truth(F, k, a)' <=> Truth(F, k, a)
    BY <1>1 DEF Truth, X!Interrupted
  <2> QED BY <1>1, <2>1 DEF RowsAsked, DownTrue, AnswersTrue
<1>12. CASE UNCHANGED task
  BY <1>1, <1>2, <1>10, <1>11, <1>12 DEF TasksOK, Apart, Linked, Busy
<1>13. CASE Heard(f) /\ Complete(got, f) /\ Authentic(f.key, got) /\ Accept(f.key, Unsealed(got))
  <2>1. Asked(F, f.key, Unsealed(got))
    <3>0. PICK o : o = FALSE
      OBVIOUS
    <3>1. /\ got # {}
          /\ \A g \in got : g \in F /\ g.key = f.key /\ Tag(g) = Tag(f)
      <4>1. got = Merge(asm, f, o)
        BY <1>6, <3>0
      <4>2. /\ Merge(asm, f, o) # {}
            /\ \A g \in Merge(asm, f, o) : g \in F /\ g.key = f.key /\ Tag(g) = Tag(f)
        BY <1>9, MergeSound
      <4> QED BY <4>1, <4>2
    <3>2. f.key[1] \in Allowed /\ Complete(got, f) /\ Authentic(f.key, got)
      BY <1>13 DEF Heard
    <3> QED BY <3>1, <3>2, WholeRequest
  <2>2. CASE ~Admits(f.key)
    BY <1>12, <1>13, <2>2 DEF Accept
  <2>3. CASE Admits(f.key)
    <3>1. PICK t \in Tasks \ Busy :
             task' = [task EXCEPT ![t] = [phase |-> "ack", key |-> f.key, content |-> Unsealed(got)]]
      BY <1>13, <2>3 DEF Accept
    <3>2. PICK n : n = [phase |-> "ack", key |-> f.key, content |-> Unsealed(got)]
      OBVIOUS
    <3>3. n \in Entry /\ n.phase = "ack" /\ Asked(F, n.key, n.content) /\ n.key = f.key
      BY <2>1, <3>2 DEF Entry, Asked
    <3>4. task \in [Tasks -> Entry] /\ task' = [task EXCEPT ![t] = n]
      BY <3>1, <3>2 DEF TasksOK
    <3>5. TasksOK(F)'
      BY <3>3, <3>4 DEF TasksOK, Busy, Asked
    <3>6. Apart'
      <4>1. \A u \in Busy : task[u].key # f.key
        BY <2>3 DEF Admits, inflight
      <4> QED BY <3>3, <3>4, <4>1 DEF Apart, Busy
    <3>7. Linked'
      BY <1>1, <3>1, <3>3, <3>4 DEF Linked, Busy
    <3> QED BY <1>2, <1>10, <1>11, <3>5, <3>6, <3>7
  <2> QED BY <2>2, <2>3
<1> QED BY <1>7, <1>12, <1>13

\* What a task replied is heard of no more than that.
LEMMA DownGrows ==
    ASSUME NEW F, GInv(F), NEW t \in Tasks,
           \/ UNCHANGED down
           \/ down' = down \cup Reply(t) /\ (task[t].phase = "ack" \/ call[t].pc = "answered")
    PROVE  \A f \in down' : f \in down \/ (f.kind = "result" => f.key \in Keys /\ Truth(F, f.key, f.body))
BY ReplyTrue

\* A task before execute() moves on, or a task ends: the executor stands still,
\* or the call returns.
LEMMA TaskOutside ==
    ASSUME NEW F, GInv(F), NEW t \in Tasks, NEW n \in Entry, task' = [task EXCEPT ![t] = n],
           n.phase = "none" \/ (n.phase # "execute" /\ task[t].phase \in {"ack", "admit"}
                                  /\ n.key = task[t].key /\ n.content = task[t].content),
           UNCHANGED <<rxs, late, db, allow, runs>>,
           \/ UNCHANGED call /\ call[t].pc = "idle"
           \/ call' = [call EXCEPT ![t] = Exec!Idle] /\ n.phase = "none",
           \A f \in down' : f \in down \/ (f.kind = "result" => f.key \in Keys /\ Truth(F, f.key, f.body))
    PROVE  GInv(F)'
<1> USE DEF GInv
<1>1. call \in [Tasks -> X!Call] /\ db \in [Keys -> X!Row]
  BY ExecTypes
<1>2. PICK e : Becomes(t, e) /\ e.pc = "idle" /\ X!IInv'
  <2>1. CASE UNCHANGED call /\ call[t].pc = "idle"
    <3>1. PICK e : e = call[t]
      OBVIOUS
    <3>2. Becomes(t, e)
      BY <1>1, <2>1, <3>1 DEF Becomes
    <3>3. [X!Next]_(X!vars)
      BY <2>1 DEF X!vars
    <3> QED BY <2>1, <3>1, <3>2, <3>3, X!NextIInv, SharedHolds
  <2>2. CASE call' = [call EXCEPT ![t] = Exec!Idle]
    <3>1. Exec!Idle.pc = "idle" /\ Becomes(t, Exec!Idle)
      BY <2>2 DEF Exec!Idle, Becomes
    <3>2. X!IInv'
      BY <2>2, ExecLeave
    <3> QED BY <3>1, <3>2
  <2> QED BY <2>1, <2>2
<1>3. Kept
  BY <1>2, KeptAside DEF X!Live
<1>4. RowsAsked(F)'
  BY DEF RowsAsked, Asked
<1>5. n.phase = "none" \/ (task[t].phase # "none" /\ n.key = task[t].key /\ n.content = task[t].content)
  OBVIOUS
<1>6. n.phase # "execute"
  OBVIOUS
<1> QED BY <1>2, <1>3, <1>4, <1>5, <1>6, TaskMoves

\* A task inside execute() takes a step of the executor.
LEMMA TaskInside ==
    ASSUME NEW F, GInv(F), NEW t \in Tasks, Exec!Step(t), UNCHANGED <<task, rxs, late>>,
           \A f \in down' : f \in down \/ (f.kind = "result" => f.key \in Keys /\ Truth(F, f.key, f.body))
    PROVE  GInv(F)'
<1> USE DEF GInv
<1>1. X!IInv' /\ X!Step(t)
  BY ExecStep
<1>2. PICK e :
        /\ Kept /\ call[t].pc \in X!Live
        /\ Becomes(t, e) /\ e.key = call[t].key /\ e.content = call[t].content
        /\ e.pc \in X!Live \cup {"answered", "failed"}
        /\ e.pc = "answered" => e.answer \in X!Outcomes
  BY <1>1, StepEffect
<1>3. task[t].phase = "execute" /\ e.key = task[t].key /\ e.content = task[t].content /\ e.pc # "idle"
  BY <1>2 DEF Linked, X!Live
<1>4. PICK n \in Entry : n = task[t] /\ task' = [task EXCEPT ![t] = n]
  BY DEF TasksOK
<1>5. RowsAsked(F)'
  <2>1. ASSUME NEW k \in Keys, db'[k].state # "absent" PROVE db[k].state # "absent"
    <3>1. CASE k = call[t].key
      BY <1>2, <3>1, SharedHolds, X!LiveCallsPend
    <3>2. CASE k # call[t].key
      <4>1. db'[k] = db[k]
        BY <1>1, <3>2, ExecTypes DEF X!Step, X!Spawn, X!SpawnFails, X!Finish, X!Kill, X!Reaped,
                                     X!SettleFails, X!Cancel, X!Settle
      <4> QED BY <2>1, <4>1
    <3> QED BY <3>1, <3>2
  <2> QED BY <1>2, <2>1 DEF RowsAsked, Kept, Asked
<1>6. ASSUME e.pc = "answered" PROVE Truth(F, e.key, e.answer)'
  <2>1. call'[t] = e
    BY <1>2, ExecTypes DEF Becomes
  <2>2. db'[e.key].state = "done" /\ db'[e.key].outcome = e.answer
    BY <1>1, <1>2, <1>6, <2>1 DEF X!IInv, X!AnswerIsRecorded
  <2>3. e.answer \notin {"badid", "reused", "indeterminate"}
    BY <1>2, <1>6, SharedHolds, X!OutcomesAreApart DEF X!Refusals
  <2> QED BY <2>2, <2>3 DEF Truth
<1> QED BY <1>1, <1>2, <1>3, <1>4, <1>5, <1>6, TaskMoves

\* A task calls execute().
LEMMA ExecuteKeeps ==
    ASSUME NEW F, GInv(F), NEW t \in Tasks, Execute(t)
    PROVE  GInv(F)'
<1> USE DEF GInv
<1>1. PICK k, x : k = task[t].key /\ x = task[t].content
  OBVIOUS
<1>2. task[t].phase = "admit" /\ task[t] \in Entry /\ Asked(F, k, x) /\ k \in Keys /\ x \in Contents
  BY <1>1 DEF Execute, TasksOK, Busy, Asked
<1>3. X!IInv' /\ X!Begin(t, k, x)
  BY <1>1, <1>2, ExecBegin DEF Execute
<1>4. PICK e :
        /\ Kept
        /\ Becomes(t, e) /\ e.key = k /\ e.content = x
        /\ e.pc \in {"answered", "failed", "reserved"}
        /\ e.pc = "reserved" => db' = [db EXCEPT ![k] = X!Pending(x)]
        /\ e.pc # "reserved" => UNCHANGED db
        /\ e.pc = "answered" => e.answer = X!Immediate(k, x) /\ e.answer # Nil
  BY <1>2, <1>3, BeginEffect
<1>5. PICK n : n = [task[t] EXCEPT !.phase = "execute"]
  OBVIOUS
<1>6. /\ n \in Entry /\ n.phase = "execute" /\ n.key = k /\ n.content = x
      /\ task' = [task EXCEPT ![t] = n]
  BY <1>1, <1>2, <1>5 DEF Execute, Goes, Entry
<1>7. RowsAsked(F)'
  BY <1>2, <1>4, RowsKept
<1>8. ASSUME e.pc = "answered" PROVE Truth(F, e.key, e.answer)'
  <2>1. PICK a : a = e.answer
    OBVIOUS
  <2>2. Truth(F, k, a)
    BY <1>1, <1>2, <1>4, <1>8, <2>1, ImmediateTrue
  <2>3. Truth(F, k, a)'
    BY <1>2, <1>4, <2>2, TruthKept
  <2> QED BY <1>4, <2>1, <2>3
<1>9. UNCHANGED <<rxs, late, down>> /\ e.pc # "idle"
  BY <1>4 DEF Execute
<1> QED BY <1>1, <1>2, <1>3, <1>4, <1>6, <1>7, <1>8, <1>9, TaskMoves

\* A step of a task.
LEMMA TaskKeeps ==
    ASSUME NEW F, GInv(F), NEW t \in Tasks, TaskStep(t)
    PROVE  GInv(F)'
<1> USE DEF GInv
<1>1. task[t] \in Entry /\ NoTask \in Entry /\ NoTask.phase = "none"
  BY DEF TasksOK, NoTask, Entry
<1>2. CASE SendAck(t)
  <2>1. PICK n : n = [task[t] EXCEPT !.phase = "admit"]
    OBVIOUS
  <2>2. /\ n \in Entry /\ n.phase = "admit" /\ n.key = task[t].key /\ n.content = task[t].content
        /\ task[t].phase = "ack" /\ task' = [task EXCEPT ![t] = n]
    BY <1>1, <1>2, <2>1 DEF SendAck, Goes, Entry
  <2>3. UNCHANGED <<rxs, late, db, allow, runs, call>> /\ call[t].pc = "idle"
    BY <1>2, <2>2 DEF SendAck, xvars, Linked
  <2>4. \A f \in down' : f \in down \/ (f.kind = "result" => f.key \in Keys /\ Truth(F, f.key, f.body))
    BY <1>2, DownGrows DEF SendAck
  <2> QED BY <2>2, <2>3, <2>4, TaskOutside
<1>3. CASE Execute(t)
  BY <1>3, ExecuteKeeps
<1>4. CASE Starts(t) \/ GivesUp(t) \/ Settles(t)
  <2>1. Exec!Step(t) /\ UNCHANGED <<task, rxs, late, down>>
    BY <1>4 DEF Starts, GivesUp, Settles, Inside, Exec!Step
  <2> QED BY <2>1, TaskInside
<1>5. CASE SendResult(t)
  <2>1. /\ task' = [task EXCEPT ![t] = NoTask] /\ call' = [call EXCEPT ![t] = Exec!Idle]
        /\ UNCHANGED <<rxs, late, db, allow, runs>>
    BY <1>5 DEF SendResult, Ends, Exec!Return
  <2>2. \A f \in down' : f \in down \/ (f.kind = "result" => f.key \in Keys /\ Truth(F, f.key, f.body))
    BY <1>5, DownGrows DEF SendResult
  <2> QED BY <1>1, <2>1, <2>2, TaskOutside
<1>6. CASE TaskFails(t)
  <2>1. /\ task' = [task EXCEPT ![t] = NoTask] /\ UNCHANGED <<rxs, late, db, allow, runs, down>>
        /\ \/ UNCHANGED call /\ call[t].pc = "idle"
           \/ call' = [call EXCEPT ![t] = Exec!Idle]
    BY <1>6 DEF TaskFails, Ends, Exec!Return, Linked
  <2> QED BY <1>1, <2>1, TaskOutside
<1>7. CASE Cancelled(t)
  <2>1. \A f \in down' : f \in down \/ (f.kind = "result" => f.key \in Keys /\ Truth(F, f.key, f.body))
    BY <1>7, DownGrows DEF Cancelled
  <2>2. CASE call[t].pc \in Exec!Live
    <3>1. Exec!Step(t) /\ UNCHANGED <<task, rxs, late>>
      BY <1>7, <2>2 DEF Cancelled, Exec!Step
    <3> QED BY <2>1, <3>1, TaskInside
  <2>3. CASE call[t].pc \notin Exec!Live
    <3>1. /\ task' = [task EXCEPT ![t] = NoTask] /\ call' = [call EXCEPT ![t] = Exec!Idle]
          /\ UNCHANGED <<rxs, late, db, allow, runs>>
      BY <1>7, <2>3 DEF Cancelled, Ends
    <3> QED BY <1>1, <2>1, <3>1, TaskOutside
  <2> QED BY <2>2, <2>3
<1> QED BY <1>2, <1>3, <1>4, <1>5, <1>6, <1>7 DEF TaskStep

\* close() cancels tasks and takes no request with it.
LEMMA StandsStill ==
    ASSUME NEW F, GInv(F), UNCHANGED <<task, rxs, down, db, allow, call, runs>>, late' \subseteq F
    PROVE  GInv(F)'
<1> USE DEF GInv
<1>1. X!IInv'
  <2>1. [X!Next]_(X!vars)
    BY DEF X!vars
  <2> QED BY <2>1, X!NextIInv, SharedHolds
<1>2. RxOK(F)'
  BY DEF RxOK, Assembling
<1>3. TasksOK(F)' /\ Apart' /\ Linked'
  BY DEF TasksOK, Apart, Linked, Busy
<1>4. RowsAsked(F)' /\ DownTrue(F)' /\ AnswersTrue(F)'
  <2>1. \A k, a : Truth(F, k, a)' <=> Truth(F, k, a)
    BY DEF Truth, X!Interrupted
  <2> QED BY <2>1 DEF RowsAsked, DownTrue, AnswersTrue
<1> QED BY <1>1, <1>2, <1>3, <1>4

\* A restart forgets everything but the table, so what was replied stays true.
LEMMA RestartKeeps ==
    ASSUME NEW F, GInv(F), Restart
    PROVE  GInv(F)'
<1> USE DEF GInv
<1>1. X!IInv'
  BY ExecCrash DEF Restart
<1>2. /\ UNCHANGED <<db, down>>
      /\ call' = [c \in Tasks |-> Exec!Idle]
      /\ task' = [t \in Tasks |-> NoTask]
      /\ rxs' = [k \in Keys |-> Nil] /\ late' = {}
  BY DEF Restart, Exec!CrashRestart, Exec!Reopened
<1>3. \A c \in Tasks : call'[c].pc = "idle" /\ task'[c].phase = "none"
  BY <1>2 DEF Exec!Idle, NoTask
<1>4. Kept
  BY <1>2, <1>3 DEF Kept, X!Interrupted, X!Live
<1>5. RxOK(F)'
  BY <1>2 DEF RxOK
<1>6. TasksOK(F)' /\ Apart' /\ Linked'
  <2>1. NoTask \in Entry
    BY DEF NoTask, Entry
  <2> QED BY <1>2, <1>3, <2>1 DEF TasksOK, Apart, Linked, Busy
<1>7. RowsAsked(F)' /\ AnswersTrue(F)'
  BY <1>2, <1>3 DEF RowsAsked, AnswersTrue
<1>8. DownTrue(F)'
  <2> SUFFICES ASSUME NEW f \in down, f.kind = "result"
               PROVE  f.key \in Keys /\ Truth(F, f.key, f.body)'
    BY <1>2 DEF DownTrue
  <2>1. f.key \in Keys /\ Truth(F, f.key, f.body)
    BY DEF DownTrue
  <2> QED BY <1>4, <2>1, TruthKept
<1> QED BY <1>1, <1>5, <1>6, <1>7, <1>8

\* Every step of the gateway preserves the invariant, whatever it may hear.
LEMMA StepGInv ==
    ASSUME NEW F, F \subseteq Requests, GInv(F), GStep(F)
    PROVE  GInv(F)'
<1>1. ASSUME NEW f \in F, NEW old, Ingest(f, old) PROVE GInv(F)'
  BY <1>1, IngestKeeps
<1>2. ASSUME NEW t \in Tasks, TaskStep(t) PROVE GInv(F)'
  BY <1>2, TaskKeeps
<1>3. ASSUME NEW posted, posted \subseteq F, Close(posted) PROVE GInv(F)'
  BY <1>3, StandsStill DEF Close, xvars
<1>4. CASE Closed \/ UNCHANGED gvars
  <2>1. late \subseteq F
    BY DEF GInv, RxOK
  <2> QED BY <1>4, <2>1, StandsStill DEF Closed, gvars, xvars
<1>5. CASE Restart
  BY <1>5, RestartKeeps
<1> QED BY <1>1, <1>2, <1>3, <1>4, <1>5 DEF GStep

\* The invariant holds at the start, with nothing to hear yet.
LEMMA InitGInv == ASSUME NEW F, GInit PROVE GInv(F)
<1>1. X!IInv
  BY ExecInit DEF GInit
<1>2. /\ \A c \in Tasks : call[c].pc = "idle"
      /\ \A k \in Keys : db[k].state = "absent"
  BY SameKeys DEF GInit, Exec!Init, Exec!Idle, Exec!NoRow
<1>3. TasksOK(F) /\ \A t \in Tasks : task[t].phase = "none"
  <2>1. NoTask \in Entry
    BY DEF NoTask, Entry
  <2> QED BY <2>1 DEF GInit, TasksOK, Busy, NoTask
<1>4. RxOK(F) /\ down = {}
  BY DEF GInit, RxOK
<1> QED BY <1>1, <1>2, <1>3, <1>4 DEF GInv, Apart, Linked, Busy, RowsAsked, AnswersTrue, DownTrue

\* More frames to hear take nothing back.
LEMMA HearsMore ==
    ASSUME NEW F, NEW F2, F \subseteq F2, GInv(F)
    PROVE  GInv(F2)
<1> USE DEF GInv
<1>1. \A k, x : Asked(F, k, x) => Asked(F2, k, x)
  BY DEF Asked
<1>2. \A k, a : Truth(F, k, a) => Truth(F2, k, a)
  BY <1>1 DEF Truth, Fresh
<1>3. RxOK(F2)
  BY DEF RxOK, Assembling
<1>4. TasksOK(F2) /\ RowsAsked(F2)
  BY <1>1 DEF TasksOK, RowsAsked
<1>5. AnswersTrue(F2) /\ DownTrue(F2)
  BY <1>2 DEF AnswersTrue, DownTrue
<1> QED BY <1>3, <1>4, <1>5

LEMMA NextIsGStep == ASSUME NEW F, [GNext(F)]_gvars PROVE GStep(F)
BY DEF GNext, GStep

-----------------------------------------------------------------------------
\* The invariant, for any chunk of any request.
LEMMA GInvariance == GSpec => []GInv(Requests)
<1>1. GInit => GInv(Requests)
  BY InitGInv
<1>2. GInv(Requests) /\ [GNext(Requests)]_gvars => GInv(Requests)'
  BY StepGInv, NextIsGStep
<1> QED BY <1>1, <1>2, PTL DEF GSpec

\* A key has at most one process, and one that was not asked for has none.
LEMMA RunsOnce ==
    ASSUME NEW F, GInv(F), NEW k \in Keys
    PROVE  /\ runs[k] <= 1
           /\ runs[k] # 0 => Asked(F, k, db[k].content)
<1>1. db[k].state \in {"absent", "pending", "done"}
  BY ExecTypes DEF GInv, X!Row
<1>2. /\ db[k].state = "absent" => runs[k] = 0
      /\ db[k].state # "absent" => runs[k] \in {0, 1}
  BY <1>1, SameKeys DEF GInv, X!IInv, X!RowsOK
<1>3. db[k].state # "absent" => Asked(F, k, db[k].content)
  BY DEF GInv, RowsAsked
<1> QED BY <1>2, <1>3

\* At most once through the gateway: duplicated, reordered and late packets, full
\* tables, a close in the middle and restarts never start a second process for a
\* key, and none for a node that is not allowed or does not have the key.
THEOREM NothingRunsTwice == GSpec => []GatewayRunsOnce
<1>1. GInv(Requests) => GatewayRunsOnce
  BY RunsOnce DEF GatewayRunsOnce, Asked
<1> QED BY <1>1, GInvariance, PTL

\* A node is told "pending or interrupted" only of a reservation that no task
\* works on and none ever will again.
THEOREM NoticesAreTrue == GSpec => []IndeterminateIsTrue
<1>1. GInv(Requests) => IndeterminateIsTrue
  BY DEF GInv, DownTrue, Truth, IndeterminateIsTrue, X!Interrupted, Exec!Interrupted, X!Live, Exec!Live
<1> QED BY <1>1, GInvariance, PTL

-----------------------------------------------------------------------------
\* The gateway implements the abstract ledger, as the executor does.

\* A step of the gateway is one of the executor, or leaves the table and the
\* history alone.
LEMMA StepOfExec ==
    ASSUME NEW F, GInv(F), GStep(F)
    PROVE  X!Next \/ UNCHANGED <<db, runs>>
<1> USE DEF GInv
<1>1. ASSUME NEW t \in Tasks, Exec!Step(t) PROVE X!Next
  BY <1>1, ExecStep DEF X!Next
<1>2. ASSUME NEW t \in Tasks, TaskStep(t) PROVE X!Next \/ UNCHANGED <<db, runs>>
  <2>1. CASE Execute(t)
    <3>1. PICK k, x : k = task[t].key /\ x = task[t].content
      OBVIOUS
    <3>2. k \in Keys /\ x \in Contents
      BY <2>1, <3>1 DEF Execute, TasksOK, Busy, Asked
    <3>3. X!Begin(t, k, x)
      BY <2>1, <3>1, <3>2, ExecBegin DEF Execute
    <3> QED BY <3>2, <3>3, SameKeys DEF X!Next
  <2>2. CASE Starts(t) \/ GivesUp(t) \/ Settles(t)
    BY <1>1, <2>2 DEF Starts, GivesUp, Settles, Exec!Step
  <2>3. CASE SendAck(t) \/ SendResult(t) \/ TaskFails(t)
    BY <2>3 DEF SendAck, SendResult, TaskFails, Exec!Return, xvars
  <2>4. CASE Cancelled(t)
    BY <1>1, <2>4 DEF Cancelled, Exec!Step
  <2> QED BY <1>2, <2>1, <2>2, <2>3, <2>4 DEF TaskStep
<1>3. ASSUME NEW f, NEW old, Ingest(f, old) PROVE UNCHANGED <<db, runs>>
  BY <1>3 DEF Ingest, xvars
<1>4. ASSUME NEW posted, Close(posted) PROVE UNCHANGED <<db, runs>>
  BY <1>4 DEF Close, xvars
<1>5. CASE Closed \/ Restart \/ UNCHANGED gvars
  BY <1>5 DEF Closed, Restart, gvars, xvars, Exec!CrashRestart, Exec!Reopened
<1> QED BY <1>2, <1>3, <1>4, <1>5 DEF GStep

\* So it is a step of the ledger, or none.
LEMMA StepOfLedger ==
    ASSUME NEW F, GInv(F), GStep(F)
    PROVE  [X!Ledger!Next]_(X!Ledger!vars)
<1>1. CASE X!Next
  BY <1>1, X!NextRefines, SharedHolds DEF GInv
<1>2. CASE UNCHANGED <<db, runs>>
  BY <1>2 DEF X!Ledger!vars
<1> QED BY <1>1, <1>2, StepOfExec

LEMMA InitOfLedger == GInit => X!Ledger!Init
BY DEF GInit, Exec!Init, X!Ledger!Init, Exec!Keys, X!Keys, Exec!NoRow

LEMMA SameLedger ==
    /\ X!Ledger!Init <=> Exec!Ledger!Init
    /\ [X!Ledger!Next]_(X!Ledger!vars) <=> [Exec!Ledger!Next]_(Exec!Ledger!vars)
BY DEF X!Ledger!Init, Exec!Ledger!Init, X!Ledger!vars, Exec!Ledger!vars, X!Ledger!Next,
       Exec!Ledger!Next, X!Ledger!Claim, Exec!Ledger!Claim, X!Ledger!Run, Exec!Ledger!Run,
       X!Ledger!Settle, Exec!Ledger!Settle, X!Keys, Exec!Keys, X!Ran, Exec!Ran,
       X!Cut, Exec!Cut

\* Whatever the mesh does to its packets, and close() and restarts to its tasks,
\* the gateway's table is a ledger: a key is claimed for one content, run at most
\* once, and settled once, with what came of the run.
THEOREM GatewayImplementsLedger == GSpec => Exec!ImplementsLedger
<1>1. GInit => Exec!Ledger!Init
  BY InitOfLedger, SameLedger
<1>2. GInv(Requests) /\ [GNext(Requests)]_gvars => [Exec!Ledger!Next]_(Exec!Ledger!vars)
  BY NextIsGStep, StepOfLedger, SameLedger
<1> QED BY <1>1, <1>2, GInvariance, PTL DEF GSpec, Exec!ImplementsLedger, Exec!Ledger!Spec

\* What the radio was handed stays so, and is acknowledgements and results.
LEMMA DownOnlyGrows ==
    ASSUME NEW F, GStep(F)
    PROVE  down \subseteq down' /\ \A f \in down' : f \in down \/ f.kind \in {"ack", "result"}
<1>1. ASSUME NEW t \in Tasks PROVE \A f \in Reply(t) : f.kind \in {"ack", "result"}
  BY DEF Reply, Chunks, Chunk
<1>2. ASSUME NEW t \in Tasks, TaskStep(t) PROVE UNCHANGED down \/ down' = down \cup Reply(t)
  BY <1>2 DEF TaskStep, SendAck, Execute, Starts, GivesUp, Settles, Inside, SendResult,
              TaskFails, Cancelled
<1>3. ASSUME NEW f, NEW old, Ingest(f, old) PROVE UNCHANGED down
  BY <1>3 DEF Ingest
<1>4. ASSUME NEW posted, Close(posted) PROVE UNCHANGED down
  BY <1>4 DEF Close
<1>5. CASE Closed \/ Restart \/ UNCHANGED gvars
  BY <1>5 DEF Closed, Restart, gvars
<1> QED BY <1>1, <1>2, <1>3, <1>4, <1>5 DEF GStep
=============================================================================
