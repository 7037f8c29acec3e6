----------------------- MODULE TerminalSessionsProofs ------------------------
(***************************************************************************)
(* Proofs about the terminals, for any number of requests, sessions and    *)
(* descriptors.                                                            *)
(*                                                                         *)
(* IInv says that the guard and the locks are queues of the tasks that say *)
(* they are there, each once, and that who has passed one is its head;     *)
(* that what a task has listed to close stays registered, for it holds the *)
(* guard and nobody else takes sessions out; and that a terminal which is  *)
(* not registered has one task that minds it, a registered one none.       *)
(***************************************************************************)
EXTENDS TerminalSessions, FiniteSetTheorems, TLAPS

Elements(q) == {q[n] : n \in 1..Len(q)}

\* The tasks W wait at a lock, or hold it, in the order of q.
IsQueue(q, W) ==
    /\ q \in Seq(Tasks)
    /\ Elements(q) = W
    /\ \A m, n \in 1..Len(q) : q[m] = q[n] => m = n

\* A task joins a queue at its end.
LEMMA QueueJoined ==
    ASSUME NEW q, NEW W, IsQueue(q, W), NEW t \in Tasks \ W
    PROVE  /\ IsQueue(Append(q, t), W \cup {t})
           /\ W # {} => Head(Append(q, t)) = Head(q)
<1> DEFINE p == Append(q, t)
<1>1. p \in Seq(Tasks) /\ Len(p) = Len(q) + 1 /\ p[Len(q) + 1] = t /\ \A n \in 1..Len(q) : p[n] = q[n]
  BY DEF IsQueue
<1>2. Elements(p) = W \cup {t}
  BY <1>1 DEF IsQueue, Elements
<1>3. ASSUME NEW m \in 1..Len(p), NEW n \in 1..Len(p), p[m] = p[n] PROVE m = n
  BY <1>1, <1>3 DEF IsQueue, Elements
<1>4. W # {} => Head(p) = Head(q)
  BY <1>1 DEF IsQueue, Elements
<1> QED BY <1>1, <1>2, <1>3, <1>4 DEF IsQueue

\* The head leaves a queue.
LEMMA QueueLeft ==
    ASSUME NEW q, NEW W, IsQueue(q, W), NEW t \in W, Head(q) = t
    PROVE  IsQueue(Tail(q), W \ {t})
<1> DEFINE p == Tail(q)
<1>1. /\ q \in Seq(Tasks) /\ Len(q) \in Nat \ {0} /\ q[1] = t
      /\ p \in Seq(Tasks) /\ Len(p) = Len(q) - 1 /\ \A n \in 1..Len(p) : p[n] = q[n + 1]
  BY DEF IsQueue, Elements
<1>2. Elements(p) = W \ {t}
  <2>1. ASSUME NEW u \in W, u # t PROVE u \in Elements(p)
    <3>1. PICK n \in 1..Len(q) : q[n] = u
      BY DEF IsQueue, Elements
    <3>2. n - 1 \in 1..Len(p) /\ p[n - 1] = u
      BY <1>1, <2>1, <3>1
    <3> QED BY <3>2 DEF Elements
  <2>2. ASSUME NEW n \in 1..Len(p) PROVE p[n] \in W \ {t}
    BY <1>1, 1 \in 1..Len(q), n + 1 \in 1..Len(q) DEF IsQueue, Elements
  <2> QED BY <2>1, <2>2 DEF Elements
<1>3. ASSUME NEW m \in 1..Len(p), NEW n \in 1..Len(p), p[m] = p[n] PROVE m = n
  <2>1. m + 1 \in 1..Len(q) /\ n + 1 \in 1..Len(q)
    BY <1>1
  <2> QED BY <1>1, <1>3, <2>1 DEF IsQueue
<1> QED BY <1>1, <1>2, <1>3 DEF IsQueue

-----------------------------------------------------------------------------
TaskType ==
    [op : {Nil, "read", "write", "close", "create", "reap", "closeall"},
     pc : {"rest", "guard", "reap", "kill", "start", "lock", "io", "desktops", "dead"},
     id : Ids \cup {Nil}, todo : SUBSET Ids, fd : Fds \cup {Nil}]

Types ==
    /\ up \in BOOLEAN
    /\ registry \in SUBSET Ids /\ idle \in SUBSET Ids
    /\ lock \in [Ids -> Seq(Tasks)]
    /\ master \in [Ids -> Fds \cup {Nil}]
    /\ count \in 0..MaxIds
    /\ task \in [Tasks -> TaskType]

\* t is closing what it has listed.
Listing(t) == At(t, "reap") \/ (At(t, "kill") /\ task[t].op # "close")

\* What a task may be doing at its place, and what it has listed.
Role(t) ==
    /\ At(t, "guard") => task[t].op \in {"close", "create", "reap"}
    /\ At(t, "reap") => task[t].op \in {"create", "reap", "closeall"}
    /\ At(t, "start") => task[t].op = "create"
    /\ At(t, "lock") => task[t].op \in {"read", "write", "close"}
    /\ At(t, "desktops") => task[t].op = "reap"
    /\ At(t, "dead") => task[t].op = Nil
    /\ At(t, "io") => task[t].op \in {"read", "write"}
    /\ At(t, "kill") => task[t].op \in {"close", "create", "reap", "closeall"}
    /\ task[t].pc \in {"start", "lock", "io", "kill"} => task[t].id \in Ids
    /\ task[t].todo # {} => Listing(t)
    /\ Listing(t) /\ task[t].op # "closeall" => task[t].todo \subseteq registry
    /\ Listing(t) /\ task[t].op = "closeall" => ~up
    /\ At(t, "kill") /\ task[t].op # "close" => task[t].id \in reaped

\* The reaper closes what is idle, and at the end everything, with nobody else,
\* unless it is dead.
ReaperRole ==
    /\ task[Reaper].pc \in {"rest", "guard", "reap", "kill", "desktops", "dead"}
    /\ ~At(Reaper, "rest") /\ ~At(Reaper, "dead") => task[Reaper].op \in {"reap", "closeall"}
    /\ up => abandoned = {}
    /\ ~up =>
          /\ \A t \in Handlers : At(t, "rest")
          /\ ~At(Reaper, "dead") =>
                task[Reaper].op = "closeall" /\ task[Reaper].pc \in {"reap", "kill"} /\ registry = {}

Roles == ReaperRole /\ \A t \in Tasks : Role(t)

Holding(t) == task[t].pc \in {"reap", "start", "kill"} /\ task[t].op \in {"create", "reap"}

AtGuard == {t \in Tasks : At(t, "guard") \/ Holding(t)}

Inside(t) == At(t, "io") \/ Doing(t, "close", "kill")

AtLock(i) == {t \in Tasks : task[t].id = i /\ (At(t, "lock") \/ Inside(t))}

\* The queues hold the tasks that say so, and who has passed one is its head.
GuardQueue ==
    /\ IsQueue(guard, AtGuard)
    /\ \A t \in Tasks : Holding(t) => Head(guard) = t

LockQueues ==
    /\ \A i \in Ids : IsQueue(lock[i], AtLock(i))
    /\ \A t \in Tasks : Inside(t) => Head(lock[task[t].id]) = t

\* A terminal that is open is registered, or minded by one task.
Terminal(i) ==
    /\ i > count => master[i] = Nil /\ i \notin registry /\ Minders(i) = {} /\ AtLock(i) = {}
    /\ i \in registry => master[i] # Nil /\ Minders(i) = {}
    /\ master[i] # Nil /\ i \notin registry /\ i \notin abandoned => Minders(i) # {}
    /\ \A t, u \in Minders(i) : t = u
    /\ \A t \in Tasks : At(t, "start") /\ task[t].id = i => master[i] # Nil /\ AtLock(i) = {}

Terminals == \A i \in Ids : Terminal(i)

\* Who reads or writes has the descriptor of the terminal.
Reading ==
    \A t \in Tasks : At(t, "io") => task[t].fd = master[task[t].id] \/ task[t].id \in reaped

IInv == Types /\ Roles /\ GuardQueue /\ LockQueues /\ Terminals /\ Reading

\* Task t does something, the others nothing.
Moves(t) == task' \in [Tasks -> TaskType] /\ \A u \in Tasks \ {t} : task'[u] = task[u]

\* t will see to it that terminal i is registered or closed.
Minds(t, i) ==
    \/ task[t].id = i /\ (task[t].pc \in {"start", "kill"} \/ Doing(t, "close", "lock"))
    \/ task[t].op = "closeall" /\ i \in task[t].todo

\* Where t will be.
GuardNext(t) ==
    \/ task'[t].pc = "guard"
    \/ task'[t].pc \in {"reap", "start", "kill"} /\ task'[t].op \in {"create", "reap"}

LockNext(t) == task'[t].pc \in {"lock", "io"} \/ (task'[t].pc = "kill" /\ task'[t].op = "close")

\* What a move of t does to those who wait for the guard,
LEMMA GuardEffect ==
    ASSUME Types, NEW t \in Tasks, Moves(t)
    PROVE  /\ AtGuard' = IF GuardNext(t) THEN AtGuard \cup {t} ELSE AtGuard \ {t}
           /\ (t \in AtGuard <=> GuardNext(t)) => AtGuard' = AtGuard
<1>1. AtGuard' = {u \in Tasks : GuardNext(u)}
  BY DEF AtGuard, GuardNext, At, Holding
<1> QED BY <1>1 DEF AtGuard, GuardNext, At, Holding, Moves

\* to those who wait at a lock,
LEMMA LockEffect ==
    ASSUME Types, NEW t \in Tasks, Moves(t), NEW i
    PROVE  /\ AtLock(i)' = IF task'[t].id = i /\ LockNext(t) THEN AtLock(i) \cup {t} ELSE AtLock(i) \ {t}
           /\ (t \in AtLock(i) <=> task'[t].id = i /\ LockNext(t)) => AtLock(i)' = AtLock(i)
<1>1. AtLock(i)' = {u \in Tasks : task'[u].id = i /\ LockNext(u)}
  BY DEF AtLock, LockNext, At, Inside, Doing
<1> QED BY <1>1 DEF AtLock, LockNext, At, Inside, Doing, Moves

\* and to those who mind a terminal.
LEMMA MindersEffect ==
    ASSUME Types, NEW t \in Tasks, Moves(t), NEW i
    PROVE  /\ Minders(i) = {u \in Tasks : Minds(u, i)}
           /\ Minders(i)' = IF Minds(t, i)' THEN Minders(i) \cup {t} ELSE Minders(i) \ {t}
           /\ (Minds(t, i) <=> Minds(t, i)') => Minders(i)' = Minders(i)
<1>1. Minders(i) = {u \in Tasks : Minds(u, i)}
  BY DEF Minders, Minds
<1>2. Minders(i)' = {u \in Tasks : Minds(u, i)'}
  BY DEF Minders, Minds
<1>3. \A u \in Tasks \ {t} : Minds(u, i)' <=> Minds(u, i)
  BY DEF Moves, Minds, Doing
<1> QED BY <1>1, <1>2, <1>3

-----------------------------------------------------------------------------
\* What moves of t leave of the roles of all.
LEMMA RolesKept ==
    ASSUME IInv, NEW t \in Tasks, Moves(t), UNCHANGED <<up, abandoned>>, reaped \subseteq reaped',
           \A u \in Tasks \ {t} : task[u].todo \subseteq registry => task[u].todo \subseteq registry',
           ~up => registry' = {},
           t \in Handlers => up,
           Role(t)',
           t = Reaper =>
              /\ task'[t].pc \in {"rest", "guard", "reap", "kill", "desktops", "dead"}
              /\ task'[t].pc \notin {"rest", "dead"} => task'[t].op \in {"reap", "closeall"}
              /\ ~up => task'[t].op = "closeall" /\ task'[t].pc \in {"reap", "kill"}
    PROVE  Roles'
<1>1. ASSUME NEW u \in Tasks \ {t} PROVE Role(u)'
  <2>1. Role(u) /\ task'[u] = task[u]
    BY DEF IInv, Roles, Moves
  <2> QED BY <2>1 DEF Role, At, Listing
<1>2. ReaperRole'
  <2>1. CASE t = Reaper
    <3>1. \A u \in Handlers : task'[u] = task[u]
      BY <2>1, TerminalAssumption DEF Moves, Tasks
    <3> QED BY <2>1, <3>1 DEF IInv, Roles, ReaperRole, At
  <2>2. CASE t # Reaper
    <3>1. task'[Reaper] = task[Reaper] /\ t \in Handlers
      BY <2>2 DEF Moves, Tasks
    <3> QED BY <3>1 DEF IInv, Roles, ReaperRole, At
  <2> QED BY <2>1, <2>2
<1> QED BY <1>1, <1>2 DEF Roles

\* A terminal that a move of t does not concern.
LEMMA TerminalKept ==
    ASSUME IInv, NEW t \in Tasks, Moves(t), NEW i \in Ids,
           UNCHANGED <<count, abandoned>>, master'[i] = master[i], (i \in registry') <=> (i \in registry),
           Minders(i)' = Minders(i), AtLock(i)' \subseteq AtLock(i) \/ i \in registry,
           At(t, "start")' => task'[t].id # i
    PROVE  Terminal(i)'
<1>1. Terminal(i)
  BY DEF IInv, Terminals
<1>2. ASSUME NEW u \in Tasks, At(u, "start")', task'[u].id = i
      PROVE  At(u, "start") /\ task[u].id = i /\ i \notin registry
  <2>1. At(u, "start") /\ task[u].id = i
    BY <1>2 DEF Moves, At
  <2>2. u \in Minders(i)
    BY <2>1 DEF Minders, At
  <2> QED BY <1>1, <2>1, <2>2 DEF Terminal
<1>3. count \in Nat /\ i \in Nat
  BY TerminalAssumption DEF IInv, Types, Ids
<1>4. i \in registry => ~(i > count)
  BY <1>1 DEF Terminal
<1> QED BY <1>1, <1>2, <1>3, <1>4 DEF Terminal

\* Reading goes on where no terminal is closed without a note of it.
LEMMA ReadingKept ==
    ASSUME IInv, NEW t \in Tasks, Moves(t), reaped \subseteq reaped',
           \A i \in Ids : master'[i] = master[i],
           At(t, "io")' => At(t, "io") /\ task'[t] = task[t]
    PROVE  Reading'
<1> SUFFICES ASSUME NEW u \in Tasks, At(u, "io")'
             PROVE  task'[u].fd = master'[task'[u].id] \/ task'[u].id \in reaped'
  BY DEF Reading
<1>1. At(u, "io") /\ task'[u] = task[u]
  BY DEF Moves, At
<1>2. task[u].id \in Ids
  BY <1>1 DEF IInv, Roles, Role, At
<1> QED BY <1>1, <1>2 DEF IInv, Reading

\* A task at rest or at the guard minds no terminal and has listed none.
LEMMA MindsNothing ==
    ASSUME IInv, NEW t \in Tasks, task[t].pc \in {"rest", "guard", "io", "desktops", "dead"}
    PROVE  task[t].todo = {} /\ \A i : ~Minds(t, i)
  BY DEF IInv, Roles, Role, Listing, Minds, Doing, At

LEMMA MindsNothingNext ==
    ASSUME NEW t \in Tasks, task'[t].pc \in {"rest", "guard", "io", "desktops", "dead"}, task'[t].todo = {}
    PROVE  \A i : ~Minds(t, i)'
  BY DEF Minds, Doing, At

-----------------------------------------------------------------------------
\* The guard: a move that is not about it, one that joins, one that leaves.

LEMMA GuardStays ==
    ASSUME IInv, NEW t \in Tasks, Moves(t), guard' = guard,
           t \in AtGuard <=> GuardNext(t),
           task'[t].pc # "guard" /\ GuardNext(t) => Head(guard) = t
    PROVE  GuardQueue'
<1>1. AtGuard' = AtGuard
  BY GuardEffect DEF IInv
<1>2. ASSUME NEW u \in Tasks, Holding(u)' PROVE Head(guard) = u
  BY <1>2 DEF Holding, GuardNext, Moves, IInv, GuardQueue
<1> QED BY <1>1, <1>2 DEF IInv, GuardQueue

LEMMA GuardJoins ==
    ASSUME IInv, NEW t \in Tasks, Moves(t), guard' = Append(guard, t),
           t \notin AtGuard, task'[t].pc = "guard"
    PROVE  GuardQueue'
<1>1. AtGuard' = AtGuard \cup {t}
  BY GuardEffect DEF IInv, GuardNext
<1>2. IsQueue(guard', AtGuard') /\ (AtGuard # {} => Head(guard') = Head(guard))
  BY <1>1, QueueJoined DEF IInv, GuardQueue
<1>3. ASSUME NEW u \in Tasks, Holding(u)' PROVE Head(guard') = u
  <2>1. Holding(u) /\ u \in AtGuard
    BY <1>3 DEF Holding, Moves, AtGuard
  <2> QED BY <1>2, <2>1 DEF IInv, GuardQueue
<1> QED BY <1>2, <1>3 DEF GuardQueue

LEMMA GuardLeaves ==
    ASSUME IInv, NEW t \in AtGuard, Moves(t), guard' = Tail(guard), Head(guard) = t,
           ~GuardNext(t)
    PROVE  GuardQueue' /\ \A u \in Tasks \ {t} : ~Holding(u)
<1>1. t \in Tasks /\ AtGuard' = AtGuard \ {t}
  BY GuardEffect DEF IInv, AtGuard
<1>2. IsQueue(guard', AtGuard')
  BY <1>1, QueueLeft DEF IInv, GuardQueue
<1>3. \A u \in Tasks \ {t} : ~Holding(u)
  BY DEF IInv, GuardQueue
<1>4. \A u \in Tasks : ~Holding(u)'
  BY <1>3 DEF Holding, Moves, GuardNext
<1> QED BY <1>2, <1>3, <1>4 DEF GuardQueue

\* The same for the locks.

LEMMA LocksStay ==
    ASSUME IInv, NEW t \in Tasks, Moves(t), lock' = lock,
           \A i : t \in AtLock(i) <=> task'[t].id = i /\ LockNext(t),
           task'[t].pc # "lock" /\ LockNext(t) => Head(lock[task'[t].id]) = t
    PROVE  LockQueues' /\ \A i : AtLock(i)' = AtLock(i)
<1>1. ASSUME NEW i PROVE AtLock(i)' = AtLock(i)
  BY LockEffect DEF IInv
<1>2. ASSUME NEW u \in Tasks, Inside(u)' PROVE Head(lock[task'[u].id]) = u
  BY <1>2 DEF Inside, LockNext, Moves, At, Doing, IInv, LockQueues
<1> QED BY <1>1, <1>2 DEF IInv, LockQueues

LEMMA LockJoins ==
    ASSUME IInv, NEW t \in Tasks, Moves(t), NEW i \in Ids, lock' = [lock EXCEPT ![i] = Append(@, t)],
           \A j : t \notin AtLock(j), task'[t].id = i, task'[t].pc = "lock"
    PROVE  /\ LockQueues'
           /\ \A j : AtLock(j)' = IF j = i THEN AtLock(j) \cup {t} ELSE AtLock(j)
<1>1. ASSUME NEW j PROVE AtLock(j)' = IF j = i THEN AtLock(j) \cup {t} ELSE AtLock(j)
  BY LockEffect DEF IInv, LockNext
<1>2. lock'[i] = Append(lock[i], t) /\ \A j \in Ids \ {i} : lock'[j] = lock[j]
  BY DEF IInv, Types
<1>3. IsQueue(lock'[i], AtLock(i)') /\ (AtLock(i) # {} => Head(lock'[i]) = Head(lock[i]))
  BY <1>1, <1>2, QueueJoined DEF IInv, LockQueues
<1>4. ASSUME NEW u \in Tasks, Inside(u)' PROVE Head(lock'[task'[u].id]) = u
  <2>1. Inside(u) /\ task'[u] = task[u]
    BY <1>4 DEF Inside, Moves, At, Doing
  <2>2. u \in AtLock(task[u].id) /\ task[u].id \in Ids
    BY <2>1 DEF AtLock, Inside, IInv, Roles, Role, At, Doing
  <2> QED BY <1>2, <1>3, <2>1, <2>2 DEF IInv, LockQueues
<1> QED BY <1>1, <1>2, <1>3, <1>4 DEF IInv, LockQueues

LEMMA LockLeaves ==
    ASSUME IInv, NEW i \in Ids, NEW t \in AtLock(i), Moves(t),
           lock' = [lock EXCEPT ![i] = Tail(@)], Head(lock[i]) = t, ~LockNext(t)
    PROVE  /\ LockQueues'
           /\ \A j : AtLock(j)' = AtLock(j) \ {t}
           /\ \A u \in AtLock(i) \ {t} : ~Inside(u)
<1>1. t \in Tasks /\ \A j : AtLock(j)' = AtLock(j) \ {t}
  <2>1. t \in Tasks
    BY DEF AtLock
  <2>2. ASSUME NEW j PROVE AtLock(j)' = AtLock(j) \ {t}
    BY <2>1, LockEffect DEF IInv
  <2> QED BY <2>1, <2>2
<1>2. lock'[i] = Tail(lock[i]) /\ \A j \in Ids \ {i} : lock'[j] = lock[j]
  BY DEF IInv, Types
<1>3. IsQueue(lock'[i], AtLock(i)')
  BY <1>1, <1>2, QueueLeft DEF IInv, LockQueues
<1>4. \A u \in AtLock(i) \ {t} : ~Inside(u)
  BY DEF IInv, LockQueues, AtLock
<1>5. ASSUME NEW u \in Tasks, Inside(u)'
      PROVE  Head(lock'[task'[u].id]) = u /\ task[u].id # i
  <2>1. u # t /\ Inside(u) /\ task'[u] = task[u]
    BY <1>5 DEF Inside, Moves, At, Doing, LockNext
  <2>2. task[u].id \in Ids \ {i}
    BY <1>4, <2>1 DEF AtLock, Inside, IInv, Roles, Role, At, Doing
  <2> QED BY <1>2, <2>1, <2>2 DEF IInv, LockQueues
<1>6. \A j \in Ids \ {i} : AtLock(j)' = AtLock(j)
  BY <1>1 DEF AtLock
<1>7. ASSUME NEW j \in Ids PROVE IsQueue(lock'[j], AtLock(j)')
  BY <1>2, <1>3, <1>6 DEF IInv, LockQueues
<1> QED BY <1>1, <1>4, <1>5, <1>7 DEF LockQueues

-----------------------------------------------------------------------------
\* The requests.

LEMMA UseKeeps ==
    ASSUME IInv, NEW t \in Handlers, NEW op \in {"read", "write"}, NEW i \in Ids, Use(t, op, i)
    PROVE  IInv'
<1> USE DEF IInv
<1>1. /\ Moves(t) /\ t \in Tasks /\ t # Reaper /\ up
      /\ task'[t] = [Rest EXCEPT !.op = op, !.pc = "lock", !.id = i]
  BY TerminalAssumption DEF Use, Becomes, Rest, Types, TaskType, Moves, Tasks
<1>2. task'[t].pc = "lock" /\ task'[t].op = op /\ task'[t].id = i /\ task'[t].todo = {}
  BY <1>1 DEF Rest
<1>3. \A j : t \notin AtLock(j) /\ Minders(j)' = Minders(j)
  <2>1. \A j : ~Minds(t, j) /\ ~Minds(t, j)'
    BY <1>1, <1>2, MindsNothing DEF Use, At, Minds, Doing
  <2>2. \A j : Minders(j)' = Minders(j)
    BY <1>1, <2>1, MindersEffect
  <2> QED BY <2>2 DEF AtLock, Use, At, Inside, Doing
<1>4. Types'
  BY <1>1 DEF Use, Types, Moves
<1>5. Roles'
  <2>1. Role(t)'
    BY <1>2 DEF Role, At, Listing
  <2> QED BY <1>1, <2>1, RolesKept DEF Use, Roles, ReaperRole
<1>6. GuardQueue'
  BY <1>1, <1>2, GuardStays DEF Use, GuardNext, AtGuard, At, Holding
<1>7. LockQueues' /\ \A j : AtLock(j)' = IF j = i THEN AtLock(j) \cup {t} ELSE AtLock(j)
  BY <1>1, <1>2, <1>3, LockJoins, ZenonT(40) DEF Use
<1>8. Terminals'
  BY <1>1, <1>2, <1>3, <1>7, TerminalKept DEF Use, Terminals, At
<1>9. Reading'
  BY <1>1, <1>2, ReadingKept DEF Use, At
<1> QED BY <1>4, <1>5, <1>6, <1>7, <1>8, <1>9

LEMMA AskKeeps ==
    ASSUME IInv, NEW t \in Tasks, NEW op, NEW i \in Ids \cup {Nil}, Ask(t, op, i),
           \/ t \in Handlers /\ op \in {"close", "create"}
           \/ t = Reaper /\ op = "reap"
    PROVE  IInv'
<1> USE DEF IInv
<1>1. Moves(t) /\ up /\ task'[t] = [Rest EXCEPT !.op = op, !.pc = "guard", !.id = i]
  BY DEF Ask, Becomes, Rest, Types, TaskType, Moves
<1>2. task'[t].pc = "guard" /\ task'[t].op = op /\ task'[t].id = i /\ task'[t].todo = {}
  BY <1>1 DEF Rest
<1>3. \A j : t \notin AtLock(j) /\ Minders(j)' = Minders(j)
  <2>1. \A j : ~Minds(t, j) /\ ~Minds(t, j)'
    BY <1>2, MindsNothing, MindsNothingNext DEF Ask, At
  <2>2. \A j : Minders(j)' = Minders(j)
    BY <1>1, <2>1, MindersEffect
  <2> QED BY <2>2 DEF AtLock, Ask, At, Inside, Doing
<1>4. Types'
  BY <1>1 DEF Ask, Types, Moves
<1>5. Roles'
  <2>1. Role(t)'
    BY <1>2 DEF Role, At, Listing
  <2> QED BY <1>1, <1>2, <2>1, TerminalAssumption, RolesKept DEF Ask, Roles, ReaperRole
<1>6. GuardQueue'
  BY <1>1, <1>2, GuardJoins DEF Ask, AtGuard, At, Holding
<1>7. LockQueues' /\ \A j : AtLock(j)' = AtLock(j)
  BY <1>1, <1>2, <1>3, LocksStay DEF Ask, LockNext
<1>8. Terminals'
  BY <1>1, <1>2, <1>3, <1>7, TerminalKept DEF Ask, Terminals, At
<1>9. Reading'
  BY <1>1, <1>2, ReadingKept DEF Ask, At
<1> QED BY <1>4, <1>5, <1>6, <1>7, <1>8, <1>9

\* While t holds the guard, or ends everything, nobody else has a list.
LEMMA OneLists ==
    ASSUME IInv, NEW t \in Tasks,
           \/ Holding(t)
           \/ t \in AtGuard /\ Head(guard) = t
           \/ task[t].op = "closeall" /\ ~At(t, "rest")
    PROVE  \A u \in Tasks \ {t} : task[u].todo = {}
<1> SUFFICES ASSUME NEW u \in Tasks \ {t}, task[u].todo # {} PROVE FALSE
  OBVIOUS
<1> USE DEF IInv, Roles
<1>1. Listing(u) /\ ~At(u, "rest") /\ ~At(t, "rest")
  BY DEF Role, Listing, At, Holding, AtGuard
<1>2. up
  <2>1. CASE u \in Handlers \/ t \in Handlers
    BY <1>1, <2>1 DEF ReaperRole
  <2> QED BY <2>1 DEF Tasks
<1>3. Holding(u)
  BY <1>1, <1>2 DEF Role, Listing, Holding, At
<1>4. task[t].op # "closeall"
  BY <1>1, <1>2, TerminalAssumption DEF Types, TaskType, Role, Listing, At
<1> QED BY <1>3, <1>4 DEF GuardQueue, AtGuard, Holding

LEMMA TakeOutKeeps ==
    ASSUME IInv, NEW t \in Tasks, TakeOut(t)
    PROVE  IInv'
<1> USE DEF IInv
<1>1. /\ t \in Handlers /\ up /\ t # Reaper
      /\ At(t, "guard") /\ task[t].op = "close" /\ t \in AtGuard /\ Head(guard) = t
      /\ task[t].todo = {} /\ \A j : ~Minds(t, j) /\ t \notin AtLock(j)
  <2>1. At(t, "guard") /\ task[t].op = "close" /\ t \in AtGuard /\ Head(guard) = t
    BY DEF TakeOut, Doing, At, AtGuard
  <2>2. t # Reaper
    BY <2>1 DEF Roles, ReaperRole, At
  <2>3. t \in Handlers /\ up
    BY <2>1, <2>2 DEF Roles, ReaperRole, At, Tasks
  <2>4. task[t].todo = {} /\ \A j : ~Minds(t, j) /\ t \notin AtLock(j)
    BY <2>1, MindsNothing DEF AtLock, At, Inside, Doing
  <2> QED BY <2>1, <2>2, <2>3, <2>4
<1>2. \A u \in Tasks \ {t} : task[u].todo = {}
  BY <1>1, OneLists
<1>3. CASE task[t].id \notin registry
  <2>1. Moves(t) /\ task'[t] = Rest
    <3>1. task' = [task EXCEPT ![t] = Rest]
      BY <1>3 DEF TakeOut, Becomes
    <3> QED BY <3>1 DEF Rest, Types, TaskType, Moves
  <2>2. task'[t].pc = "rest" /\ task'[t].todo = {} /\ registry' = registry
    BY <1>3, <2>1 DEF Rest, TakeOut
  <2>3. \A j : Minders(j)' = Minders(j)
    <3>1. \A j : ~Minds(t, j)'
      BY <2>2, MindsNothingNext
    <3> QED BY <1>1, <2>1, <3>1, MindersEffect
  <2>4. Types'
    BY <2>1, <2>2 DEF TakeOut, Types, Moves
  <2>5. Roles'
    <3>1. Role(t)'
      BY <2>2 DEF Role, At, Listing
    <3> QED BY <1>1, <2>1, <2>2, <3>1, RolesKept DEF TakeOut
  <2>6. GuardQueue'
    BY <1>1, <2>1, <2>2, GuardLeaves DEF TakeOut, GuardNext
  <2>7. LockQueues' /\ \A j : AtLock(j)' = AtLock(j)
    BY <1>1, <1>3, <2>1, <2>2, LocksStay DEF TakeOut, LockNext
  <2>8. Terminals'
    BY <2>1, <2>2, <2>3, <2>7, TerminalKept DEF TakeOut, Terminals, At
  <2>9. Reading'
    BY <2>1, <2>2, ReadingKept DEF TakeOut, At
  <2> QED BY <2>4, <2>5, <2>6, <2>7, <2>8, <2>9
<1>4. ASSUME NEW i \in registry, task[t].id = i PROVE IInv'
  <2>1. Moves(t) /\ task'[t] = [task[t] EXCEPT !.pc = "lock"] /\ i \in Ids
    <3>1. task' = [task EXCEPT ![t].pc = "lock"]
      BY <1>4 DEF TakeOut, Goes
    <3>2. [task[t] EXCEPT !.pc = "lock"] \in TaskType
      BY DEF Types, TaskType
    <3> QED BY <3>1, <3>2 DEF Types, Moves
  <2>2. task'[t].pc = "lock" /\ task'[t].op = "close" /\ task'[t].id = i /\ task'[t].todo = {}
    BY <1>1, <1>4, <2>1 DEF Types, TaskType
  <2>3. \A j : Minds(t, j)' <=> j = i
    BY <2>2 DEF Minds, Doing
  <2>4. \A j : Minders(j)' = IF j = i THEN {t} ELSE Minders(j)
    <3>1. Minders(i) = {}
      BY <1>4, <2>1 DEF Terminals, Terminal
    <3>2. ASSUME NEW j PROVE Minders(j)' = IF j = i THEN {t} ELSE Minders(j)
      BY <1>1, <2>1, <2>3, <3>1, MindersEffect
    <3> QED BY <3>2
  <2>5. registry' = registry \ {i} /\ UNCHANGED <<up, idle, master, count, reaped, abandoned>>
    BY <1>4 DEF TakeOut
  <2>6. Types'
    <3>1. lock' = [lock EXCEPT ![i] = Append(@, t)]
      BY <1>4 DEF TakeOut
    <3> QED BY <2>1, <2>5, <3>1 DEF Types, Moves
  <2>7. Roles'
    <3>1. Role(t)'
      BY <2>1, <2>2 DEF Role, At, Listing
    <3> QED BY <1>1, <1>2, <2>1, <2>5, <3>1, RolesKept
  <2>8. GuardQueue'
    BY <1>1, <2>1, <2>2, GuardLeaves DEF TakeOut, GuardNext
  <2>9. LockQueues' /\ \A j : AtLock(j)' = IF j = i THEN AtLock(j) \cup {t} ELSE AtLock(j)
    BY <1>1, <1>4, <2>1, <2>2, LockJoins, ZenonT(40) DEF TakeOut
  <2>10. Terminal(i)'
    <3>1. Terminal(i) /\ master[i] # Nil /\ i \notin registry' /\ Minders(i) = {}
      BY <1>4, <2>1, <2>5 DEF Terminals, Terminal
    <3>2. \A u \in Tasks : ~(At(u, "start")' /\ task'[u].id = i)
      BY <2>1, <2>2, <3>1 DEF Moves, Minders, At
    <3> QED BY <2>4, <2>5, <3>1, <3>2 DEF Terminal
  <2>11. \A j \in Ids \ {i} : Terminal(j)'
    BY <2>1, <2>2, <2>4, <2>5, <2>9, TerminalKept DEF At
  <2>12. Reading'
    BY <2>1, <2>2, <2>5, ReadingKept DEF At
  <2> QED BY <2>6, <2>7, <2>8, <2>9, <2>10, <2>11, <2>12 DEF Terminals
<1> QED BY <1>3, <1>4

-----------------------------------------------------------------------------
\* What goes on under the guard.

\* The application has not begun to stop while a task holds the guard.
LEMMA HoldersAreUp ==
    ASSUME IInv, NEW t \in AtGuard
    PROVE  up /\ t \in Tasks /\ \A i : t \notin AtLock(i)
<1>1. t \in Tasks /\ task[t].op \in {"close", "create", "reap"} /\ ~At(t, "rest") /\ ~At(t, "dead")
  BY DEF AtGuard, Holding, IInv, Roles, Role, At
<1>2. up
  BY <1>1 DEF IInv, Roles, ReaperRole, Tasks, At
<1> QED BY <1>1, <1>2 DEF AtGuard, Holding, AtLock, Inside, Doing, At

LEMMA ListIdleKeeps ==
    ASSUME IInv, NEW t \in Tasks, ListIdle(t)
    PROVE  IInv'
<1> USE DEF IInv
<1>1. At(t, "guard") /\ task[t].op \in {"create", "reap"} /\ t \in AtGuard /\ Head(guard) = t
  BY DEF ListIdle, At, AtGuard
<1>2. up /\ \A j : t \notin AtLock(j) /\ ~Minds(t, j)
  BY <1>1, HoldersAreUp, MindsNothing DEF At
<1>3. Moves(t) /\ task'[t] = [task[t] EXCEPT !.pc = "reap", !.todo = registry \cap idle]
  <2>1. task' = [task EXCEPT ![t] = [task[t] EXCEPT !.pc = "reap", !.todo = registry \cap idle]]
    BY DEF ListIdle, Types
  <2>2. [task[t] EXCEPT !.pc = "reap", !.todo = registry \cap idle] \in TaskType
    BY DEF Types, TaskType
  <2> QED BY <2>1, <2>2 DEF Types, Moves
<1>4. task'[t].pc = "reap" /\ task'[t].op = task[t].op /\ task'[t].todo = registry \cap idle
  BY <1>3 DEF Types, TaskType
<1>5. Types'
  BY <1>3 DEF ListIdle, Types, Moves
<1>6. Roles'
  <2>1. Role(t)'
    BY <1>1, <1>4 DEF Role, At, Listing, ListIdle
  <2>2. t = Reaper => task'[t].op \in {"reap", "closeall"}
    BY <1>1, <1>4 DEF Roles, ReaperRole, At
  <2> QED BY <1>2, <1>3, <1>4, <2>1, <2>2, RolesKept DEF ListIdle
<1>7. GuardQueue'
  BY <1>1, <1>3, <1>4, GuardStays DEF ListIdle, GuardNext
<1>8. LockQueues' /\ \A j : AtLock(j)' = AtLock(j)
  BY <1>2, <1>3, <1>4, LocksStay DEF ListIdle, LockNext
<1>9. \A j : Minders(j)' = Minders(j)
  <2>1. \A j : ~Minds(t, j)'
    BY <1>1, <1>4 DEF Minds, Doing
  <2> QED BY <1>2, <1>3, <2>1, MindersEffect
<1>10. Terminals'
  BY <1>3, <1>4, <1>8, <1>9, TerminalKept DEF ListIdle, Terminals, At
<1>11. Reading'
  BY <1>3, <1>4, ReadingKept DEF ListIdle, At
<1> QED BY <1>5, <1>6, <1>7, <1>8, <1>10, <1>11

LEMMA CloseNextKeeps ==
    ASSUME IInv, NEW t \in Tasks, CloseNext(t)
    PROVE  IInv'
<1> USE DEF IInv
<1>1. PICK i \in task[t].todo :
         /\ registry' = registry \ {i}
         /\ reaped' = reaped \cup {i}
         /\ task' = [task EXCEPT ![t].pc = "kill", ![t].id = i, ![t].todo = @ \ {i}]
  BY DEF CloseNext
<1>2. At(t, "reap") /\ UNCHANGED <<up, guard, lock, idle, master, count, abandoned>>
  BY DEF CloseNext
<1>3. /\ task[t].op \in {"create", "reap", "closeall"} /\ task[t].todo \subseteq Ids /\ i \in Ids
      /\ \A j : t \notin AtLock(j)
  BY <1>1, <1>2 DEF Types, TaskType, Roles, Role, AtLock, Inside, Doing, At
<1>4. Moves(t) /\ task'[t] = [task[t] EXCEPT !.pc = "kill", !.id = i, !.todo = @ \ {i}]
  <2>1. task' = [task EXCEPT ![t] = [task[t] EXCEPT !.pc = "kill", !.id = i, !.todo = @ \ {i}]]
    BY <1>1 DEF Types
  <2>2. [task[t] EXCEPT !.pc = "kill", !.id = i, !.todo = @ \ {i}] \in TaskType
    BY <1>3, ZenonT(40) DEF Types, TaskType
  <2> QED BY <2>1, <2>2 DEF Types, Moves
<1>5. /\ task'[t].pc = "kill" /\ task'[t].op = task[t].op /\ task'[t].id = i
      /\ task'[t].todo = task[t].todo \ {i}
  BY <1>4 DEF Types, TaskType
<1>6. \A u \in Tasks \ {t} : task[u].todo = {}
  BY <1>2, <1>3, OneLists DEF Holding, At
<1>7. task[t].op # "closeall" => up /\ t \in AtGuard /\ Head(guard) = t /\ task[t].todo \subseteq registry
  <2>1. task[t].op # "closeall" => Holding(t) /\ t \in AtGuard /\ task[t].todo \subseteq registry
    BY <1>2, <1>3 DEF Holding, AtGuard, At, Roles, Role, Listing
  <2> QED BY <2>1, HoldersAreUp DEF GuardQueue
<1>8. task[t].op = "closeall" => ~up /\ registry = {} /\ t = Reaper
  <2>1. task[t].op = "closeall" => ~up
    BY <1>2 DEF Roles, Role, Listing
  <2>2. ~up => t = Reaper
    BY <1>2 DEF Roles, ReaperRole, At, Tasks
  <2> QED BY <1>2, <2>1, <2>2 DEF Roles, ReaperRole, At
<1>9. Types'
  BY <1>1, <1>2, <1>3, <1>4 DEF Types, Moves
<1>10. Roles'
  <2>1. Role(t)'
    <3>1. task[t].op # "closeall" => task'[t].todo \subseteq registry'
      BY <1>1, <1>5, <1>7
    <3>2. task[t].op = "closeall" => ~up'
      BY <1>2, <1>8
    <3>3. i \in reaped'
      BY <1>1
    <3> QED BY <1>3, <1>5, <3>1, <3>2, <3>3 DEF Role, At, Listing
  <2>2. t = Reaper => task'[t].op \in {"reap", "closeall"}
    BY <1>2, <1>5 DEF Roles, ReaperRole, At
  <2>3. t \in Handlers => up
    BY <1>2 DEF Roles, ReaperRole, At
  <2>4. ~up => registry' = {} /\ task'[t].op = "closeall"
    BY <1>1, <1>3, <1>5, <1>7, <1>8
  <2> QED BY <1>1, <1>2, <1>4, <1>5, <1>6, <2>1, <2>2, <2>3, <2>4, RolesKept
<1>11. GuardQueue'
  BY <1>2, <1>3, <1>4, <1>5, <1>7, GuardStays DEF GuardNext, AtGuard, Holding, At
<1>12. LockQueues' /\ \A j : AtLock(j)' = AtLock(j)
  <2>1. ~LockNext(t)
    BY <1>3, <1>5 DEF LockNext
  <2> QED BY <1>2, <1>3, <1>4, <2>1, LocksStay
<1>13. CASE task[t].op = "closeall"
  <2>1. \A j : Minds(t, j)' <=> Minds(t, j)
    BY <1>1, <1>2, <1>5, <1>13 DEF Minds, Doing, At
  <2>2. \A j : Minders(j)' = Minders(j)
    BY <1>4, <2>1, MindersEffect
  <2> QED BY <1>1, <1>2, <1>4, <1>5, <1>8, <1>12, <1>13, <2>2, TerminalKept, ReadingKept,
             <1>9, <1>10, <1>11 DEF Terminals, At
<1>14. CASE task[t].op # "closeall"
  <2>1. \A j : (Minds(t, j)' <=> j = i) /\ ~Minds(t, j)
    BY <1>1, <1>2, <1>5, <1>14 DEF Minds, Doing, At
  <2>2. Minders(i) = {} /\ i \in registry /\ master[i] # Nil /\ Terminal(i)
    BY <1>1, <1>3, <1>7, <1>14 DEF Terminals, Terminal
  <2>3. \A j : Minders(j)' = IF j = i THEN {t} ELSE Minders(j)
    <3>1. ASSUME NEW j PROVE Minders(j)' = IF j = i THEN {t} ELSE Minders(j)
      BY <1>4, <2>1, <2>2, MindersEffect
    <3> QED BY <3>1
  <2>4. Terminal(i)'
    <3>1. ASSUME NEW u \in Tasks, task'[u].pc = "start", task'[u].id = i PROVE FALSE
      <4>1. task[u].pc = "start" /\ task[u].id = i
        BY <1>4, <1>5, <3>1 DEF Moves
      <4> QED BY <2>2, <4>1 DEF Minders
    <3> QED BY <1>1, <1>2, <2>2, <2>3, <3>1 DEF Terminal, At
  <2>5. \A j \in Ids \ {i} : Terminal(j)'
    BY <1>1, <1>2, <1>4, <1>5, <1>12, <2>3, TerminalKept DEF At
  <2>6. Reading'
    BY <1>1, <1>2, <1>4, <1>5, ReadingKept DEF At
  <2> QED BY <1>9, <1>10, <1>11, <1>12, <2>4, <2>5, <2>6 DEF Terminals
<1> QED BY <1>13, <1>14

\* Who holds the guard gives it up and rests, or goes on to the desktops.
LEMMA GuardGivenUp ==
    ASSUME IInv, NEW t \in Tasks, Holding(t), guard' = Tail(guard),
           NEW r \in {Rest, [Rest EXCEPT !.op = "reap", !.pc = "desktops"]}, Becomes(t, r),
           registry \subseteq registry', UNCHANGED <<up, lock, reaped, abandoned>>
    PROVE  /\ Moves(t) /\ Roles' /\ GuardQueue' /\ LockQueues'
           /\ \A j : AtLock(j)' = AtLock(j)
           /\ \A j : Minders(j)' = Minders(j) \ {t}
           /\ task'[t] = r /\ r.pc \in {"rest", "desktops"} /\ (r = Rest => r.pc = "rest")
<1> USE DEF IInv
<1>0. \/ r = Rest
      \/ r = [op |-> "reap", pc |-> "desktops", id |-> Nil, todo |-> {}, fd |-> Nil]
  BY DEF Rest
<1>1. Moves(t) /\ task'[t] = r
  <2>1. r \in TaskType
    BY <1>0 DEF Rest, TaskType
  <2> QED BY <2>1 DEF Becomes, Types, Moves
<1>2. /\ r.pc \in {"rest", "desktops"} /\ r.todo = {} /\ (r.pc = "desktops" => r.op = "reap")
      /\ (r = Rest => r.pc = "rest")
  BY <1>0 DEF Rest
<1>3. t \in AtGuard /\ Head(guard) = t /\ up /\ \A j : t \notin AtLock(j)
  <2>1. t \in AtGuard /\ Head(guard) = t
    BY DEF AtGuard, GuardQueue
  <2> QED BY <2>1, HoldersAreUp
<1>4. GuardQueue'
  BY <1>1, <1>2, <1>3, GuardLeaves DEF GuardNext
<1>5. LockQueues' /\ \A j : AtLock(j)' = AtLock(j)
  BY <1>1, <1>2, <1>3, LocksStay DEF LockNext
<1>6. Roles'
  <2>1. Role(t)'
    BY <1>1, <1>2 DEF Role, At, Listing
  <2> QED BY <1>1, <1>2, <1>3, <2>1, RolesKept
<1>7. \A j : Minders(j)' = Minders(j) \ {t}
  <2>1. \A j : ~Minds(t, j)'
    BY <1>1, <1>2, MindsNothingNext
  <2>2. ASSUME NEW j PROVE Minders(j)' = Minders(j) \ {t}
    BY <1>1, <2>1, MindersEffect
  <2> QED BY <2>2
<1> QED BY <1>1, <1>2, <1>4, <1>5, <1>6, <1>7

LEMMA ReapedAllRefuseKeeps ==
    ASSUME IInv, NEW t \in Tasks, ReapedAll(t) \/ Refuse(t)
    PROVE  IInv'
<1> USE DEF IInv
<1>0. PICK r \in {Rest, [Rest EXCEPT !.op = "reap", !.pc = "desktops"]} : Becomes(t, r)
  BY DEF ReapedAll, Refuse
<1>1. /\ Holding(t) /\ At(t, "reap") /\ guard' = Tail(guard)
      /\ UNCHANGED <<up, registry, lock, idle, master, count, reaped, abandoned>>
  BY DEF ReapedAll, Refuse, Holding, Doing, At
<1>2. /\ Moves(t) /\ Roles' /\ GuardQueue' /\ LockQueues'
      /\ \A j : AtLock(j)' = AtLock(j)
      /\ \A j : Minders(j)' = Minders(j) \ {t}
      /\ task'[t].pc \in {"rest", "desktops"}
  BY <1>0, <1>1, GuardGivenUp
<1>3. \A j : Minders(j)' = Minders(j)
  <2>1. \A j : ~Minds(t, j)
    BY <1>1 DEF Minds, Doing, At, Holding
  <2>2. ASSUME NEW j PROVE Minders(j)' = Minders(j)
    BY <1>2, <2>1, MindersEffect
  <2> QED BY <2>2
<1>4. Types'
  BY <1>1, <1>2 DEF Types, Moves
<1>5. Terminals'
  BY <1>1, <1>2, <1>3, TerminalKept DEF Terminals, At
<1>6. Reading'
  BY <1>1, <1>2, ReadingKept DEF At
<1> QED BY <1>2, <1>4, <1>5, <1>6

\* The reaper between the terminals and its sleep holds and waits for nothing.
LEMMA DesktopsReapedKeeps ==
    ASSUME IInv, NEW t \in Tasks, DesktopsReaped(t)
    PROVE  IInv'
<1> USE DEF IInv
<1>1. /\ At(t, "desktops") /\ up
      /\ UNCHANGED <<up, registry, guard, lock, idle, master, count, reaped, abandoned>>
  <2>1. At(t, "desktops") /\ task[t].op = "reap"
    BY DEF DesktopsReaped, Doing, At
  <2>2. up
    BY <2>1 DEF Roles, ReaperRole, At, Tasks
  <2> QED BY <2>1, <2>2 DEF DesktopsReaped
<1>2. PICK r \in {Rest, [Rest EXCEPT !.pc = "dead"]} : Becomes(t, r)
  BY DEF DesktopsReaped
<1>3. r \in TaskType /\ r.pc \in {"rest", "dead"} /\ r.op = Nil /\ r.todo = {}
  BY <1>2 DEF Rest, TaskType
<1>4. Moves(t) /\ task'[t] = r
  BY <1>2, <1>3 DEF Becomes, Types, Moves
<1>5. Types'
  BY <1>1, <1>4 DEF Types, Moves
<1>6. Roles'
  <2>1. Role(t)'
    BY <1>3, <1>4 DEF Role, At, Listing
  <2> QED BY <1>1, <1>3, <1>4, <2>1, RolesKept
<1>7. GuardQueue'
  BY <1>1, <1>3, <1>4, GuardStays DEF GuardNext, AtGuard, Holding, At
<1>8. LockQueues' /\ \A j : AtLock(j)' = AtLock(j)
  BY <1>1, <1>3, <1>4, LocksStay DEF LockNext, AtLock, Inside, Doing, At
<1>9. \A j : Minders(j)' = Minders(j)
  <2>1. \A j : ~Minds(t, j) /\ ~Minds(t, j)'
    BY <1>1, <1>3, <1>4, MindsNothing, MindsNothingNext DEF At
  <2>2. ASSUME NEW j PROVE Minders(j)' = Minders(j)
    BY <1>4, <2>1, MindersEffect
  <2> QED BY <2>2
<1>10. Terminals'
  BY <1>1, <1>3, <1>4, <1>8, <1>9, TerminalKept DEF Terminals, At
<1>11. Reading'
  BY <1>1, <1>3, <1>4, ReadingKept DEF At
<1> QED BY <1>5, <1>6, <1>7, <1>8, <1>10, <1>11

\* A terminal about to start is minded by the task that starts it.
LEMMA Starting ==
    ASSUME IInv, NEW t \in Tasks, At(t, "start")
    PROVE  /\ Holding(t) /\ task[t].id \in Ids /\ task[t].op = "create"
           /\ Minders(task[t].id) = {t} /\ AtLock(task[t].id) = {}
           /\ task[t].id \notin registry /\ master[task[t].id] # Nil
           /\ ~(task[t].id > count) /\ \A j : Minds(t, j) <=> j = task[t].id
<1> USE DEF IInv
<1>1. Holding(t) /\ task[t].id \in Ids /\ task[t].op = "create"
  BY DEF Roles, Role, Holding, At
<1>2. t \in Minders(task[t].id) /\ \A j : Minds(t, j) <=> j = task[t].id
  BY <1>1 DEF Minders, Minds, Doing, At
<1>3. Terminal(task[t].id)
  BY <1>1 DEF Terminals
<1> QED BY <1>1, <1>2, <1>3 DEF Terminal

LEMMA StartKeeps ==
    ASSUME IInv, NEW t \in Tasks, Start(t)
    PROVE  IInv'
<1> USE DEF IInv
<1>0. PICK n \in Ids : n = count + 1
  BY TerminalAssumption DEF Start, Types, Ids
<1>1. /\ At(t, "reap") /\ task[t].op = "create" /\ task[t].todo = {} /\ Holding(t)
      /\ count' = n /\ count \in Nat /\ n > count
      /\ UNCHANGED <<up, registry, guard, lock, idle, reaped, abandoned>>
  BY <1>0, TerminalAssumption DEF Start, Doing, At, Holding, Types, Ids
<1>2. PICK f \in Fds : master' = [master EXCEPT ![n] = f]
  BY <1>1 DEF Start
<1>3. Moves(t) /\ task'[t] = [task[t] EXCEPT !.pc = "start", !.id = n]
  <2>1. task' = [task EXCEPT ![t] = [task[t] EXCEPT !.pc = "start", !.id = n]]
    BY <1>1 DEF Start, Types
  <2>2. [task[t] EXCEPT !.pc = "start", !.id = n] \in TaskType
    BY <1>1 DEF Types, TaskType
  <2> QED BY <2>1, <2>2 DEF Types, Moves
<1>4. task'[t].pc = "start" /\ task'[t].op = "create" /\ task'[t].id = n /\ task'[t].todo = {}
  BY <1>1, <1>3 DEF Types, TaskType
<1>5. t \in AtGuard /\ Head(guard) = t /\ up /\ t # Reaper /\ \A j : t \notin AtLock(j)
  <2>1. t \in AtGuard /\ Head(guard) = t /\ t # Reaper
    BY <1>1 DEF AtGuard, GuardQueue, Roles, ReaperRole, At
  <2> QED BY <2>1, HoldersAreUp
<1>6. master'[n] = f /\ f # Nil /\ \A j \in Ids \ {n} : master'[j] = master[j]
  BY <1>1, <1>2, TerminalAssumption DEF Types
<1>7. Types'
  BY <1>1, <1>2, <1>3, TerminalAssumption DEF Types, Moves, Ids
<1>8. Roles'
  <2>1. Role(t)'
    BY <1>1, <1>4 DEF Role, At, Listing
  <2> QED BY <1>1, <1>3, <1>5, <2>1, RolesKept
<1>9. GuardQueue'
  BY <1>1, <1>3, <1>4, <1>5, GuardStays DEF GuardNext
<1>10. LockQueues' /\ \A j : AtLock(j)' = AtLock(j)
  BY <1>1, <1>3, <1>4, <1>5, LocksStay DEF LockNext
<1>11. /\ Minders(n) = {} /\ AtLock(n) = {} /\ n \notin registry
       /\ \A j : Minders(j)' = IF j = n THEN {t} ELSE Minders(j)
  <2>1. Minders(n) = {} /\ AtLock(n) = {} /\ n \notin registry
    BY <1>1 DEF Terminals, Terminal
  <2>2. \A j : ~Minds(t, j) /\ (Minds(t, j)' <=> j = n)
    BY <1>1, <1>4 DEF Minds, Doing, At
  <2>3. ASSUME NEW j PROVE Minders(j)' = IF j = n THEN {t} ELSE Minders(j)
    BY <1>3, <2>1, <2>2, MindersEffect
  <2> QED BY <2>1, <2>3
<1>12. Terminal(n)'
  <2>1. ~(n > n)
    BY <1>0, <1>1
  <2> QED BY <1>1, <1>6, <1>10, <1>11, <2>1 DEF Terminal
<1>13. ASSUME NEW j \in Ids \ {n} PROVE Terminal(j)'
  <2>1. Terminal(j) /\ (j > n => j > count)
    BY <1>0 DEF Terminals, Ids, Types
  <2>2. \A u \in Tasks : At(u, "start")' /\ task'[u].id = j => At(u, "start") /\ task[u].id = j
    BY <1>3, <1>4 DEF Moves, At
  <2> QED BY <1>1, <1>6, <1>10, <1>11, <2>1, <2>2 DEF Terminal
<1>14. Reading'
  <2> SUFFICES ASSUME NEW u \in Tasks, At(u, "io")'
               PROVE  task'[u].fd = master'[task'[u].id] \/ task'[u].id \in reaped'
    BY DEF Reading
  <2>1. At(u, "io") /\ task'[u] = task[u]
    BY <1>3, <1>4 DEF Moves, At
  <2>2. task[u].id \in Ids \ {n}
    BY <1>11, <2>1 DEF Roles, Role, At, AtLock, Inside
  <2> QED BY <1>1, <1>6, <2>1, <2>2 DEF Reading
<1> QED BY <1>7, <1>8, <1>9, <1>10, <1>12, <1>13, <1>14 DEF Terminals

LEMMA StartedKeeps ==
    ASSUME IInv, NEW t \in Tasks, Started(t)
    PROVE  IInv'
<1> USE DEF IInv
<1>1. /\ At(t, "start") /\ Becomes(t, Rest) /\ guard' = Tail(guard)
      /\ registry' = registry \cup {task[t].id}
      /\ UNCHANGED <<up, lock, idle, master, count, reaped, abandoned>>
  BY DEF Started
<1>2. PICK i \in Ids :
         /\ i = task[t].id /\ Holding(t) /\ Minders(i) = {t} /\ AtLock(i) = {} /\ i \notin registry
         /\ master[i] # Nil /\ ~(i > count) /\ \A j : Minds(t, j) <=> j = i
  BY <1>1, Starting
<1>3. /\ Moves(t) /\ Roles' /\ GuardQueue' /\ LockQueues'
      /\ \A j : AtLock(j)' = AtLock(j)
      /\ \A j : Minders(j)' = Minders(j) \ {t}
      /\ task'[t].pc = "rest"
  BY <1>1, <1>2, GuardGivenUp, Rest \in {Rest, [Rest EXCEPT !.op = "reap", !.pc = "desktops"]}
<1>4. Types'
  BY <1>1, <1>2, <1>3 DEF Types, Moves
<1>6. Terminal(i)'
  <2>1. ASSUME NEW u \in Tasks, task'[u].pc = "start", task'[u].id = i PROVE FALSE
    <3>1. task[u].pc = "start" /\ task[u].id = i /\ u # t
      BY <1>3, <2>1 DEF Moves
    <3> QED BY <1>2, <3>1 DEF Minders
  <2> QED BY <1>1, <1>2, <1>3, <2>1 DEF Terminal, At
<1>7. ASSUME NEW j \in Ids \ {i} PROVE Terminal(j)'
  <2>1. Minders(j)' = Minders(j)
    <3>1. ~Minds(t, j) /\ ~Minds(t, j)'
      BY <1>2, <1>3 DEF Minds, Doing, Roles, Role, Listing, At
    <3> QED BY <1>3, <3>1, MindersEffect
  <2>2. j \in registry' <=> j \in registry
    BY <1>1, <1>2
  <2> QED BY <1>1, <1>3, <2>1, <2>2, TerminalKept DEF At
<1>8. Reading'
  BY <1>1, <1>3, ReadingKept DEF At
<1> QED BY <1>3, <1>4, <1>6, <1>7, <1>8 DEF Terminals

LEMMA StartFailsKeeps ==
    ASSUME IInv, NEW t \in Tasks, StartFails(t)
    PROVE  IInv'
<1> USE DEF IInv
<1>1. /\ At(t, "start") /\ Becomes(t, Rest) /\ guard' = Tail(guard)
      /\ master' = [master EXCEPT ![task[t].id] = Nil]
      /\ UNCHANGED <<up, registry, lock, idle, count, reaped, abandoned>>
  BY DEF StartFails
<1>2. PICK i \in Ids :
         /\ i = task[t].id /\ Holding(t) /\ Minders(i) = {t} /\ AtLock(i) = {} /\ i \notin registry
         /\ ~(i > count) /\ \A j : Minds(t, j) <=> j = i
  BY <1>1, Starting
<1>3. /\ Moves(t) /\ Roles' /\ GuardQueue' /\ LockQueues'
      /\ \A j : AtLock(j)' = AtLock(j)
      /\ \A j : Minders(j)' = Minders(j) \ {t}
      /\ task'[t].pc = "rest"
  BY <1>1, <1>2, GuardGivenUp, Rest \in {Rest, [Rest EXCEPT !.op = "reap", !.pc = "desktops"]}
<1>4. master'[i] = Nil /\ \A j \in Ids \ {i} : master'[j] = master[j]
  BY <1>1, <1>2 DEF Types
<1>5. Types'
  BY <1>1, <1>2, <1>3 DEF Types, Moves
<1>6. Terminal(i)'
  <2>1. ASSUME NEW u \in Tasks, task'[u].pc = "start", task'[u].id = i PROVE FALSE
    <3>1. task[u].pc = "start" /\ task[u].id = i /\ u # t
      BY <1>3, <2>1 DEF Moves
    <3> QED BY <1>2, <3>1 DEF Minders
  <2> QED BY <1>1, <1>2, <1>3, <1>4, <2>1 DEF Terminal, At
<1>7. ASSUME NEW j \in Ids \ {i} PROVE Terminal(j)'
  <2>1. Minders(j)' = Minders(j)
    <3>1. ~Minds(t, j) /\ ~Minds(t, j)'
      BY <1>2, <1>3 DEF Minds, Doing, Roles, Role, Listing, At
    <3> QED BY <1>3, <3>1, MindersEffect
  <2> QED BY <1>1, <1>3, <1>4, <2>1, TerminalKept DEF At
<1>8. Reading'
  <2> SUFFICES ASSUME NEW u \in Tasks, At(u, "io")'
               PROVE  task'[u].fd = master'[task'[u].id] \/ task'[u].id \in reaped'
    BY DEF Reading
  <2>1. At(u, "io") /\ task'[u] = task[u]
    BY <1>3 DEF Moves, At
  <2>2. task[u].id \in Ids \ {i}
    BY <1>2, <2>1 DEF Roles, Role, At, AtLock, Inside
  <2> QED BY <1>1, <1>4, <2>1, <2>2 DEF Reading
<1> QED BY <1>3, <1>5, <1>4, <1>6, <1>7, <1>8 DEF Terminals

-----------------------------------------------------------------------------
\* What goes on at the locks.

\* The reaper waits for no lock, and nobody waits for two, or for the guard too.
LEMMA LockersAreUp ==
    ASSUME IInv, NEW i \in Ids, NEW t \in AtLock(i)
    PROVE  /\ up /\ t \in Handlers /\ t \in Tasks /\ t # Reaper /\ t \notin AtGuard
           /\ \A j : t \in AtLock(j) <=> j = i
           /\ task[t].todo = {} /\ task[t].id = i
           /\ task[t].op \in {"read", "write", "close"}
<1> USE DEF IInv
<1>1. t \in Tasks /\ task[t].id = i /\ task[t].op \in {"read", "write", "close"}
      /\ task[t].pc \in {"lock", "io", "kill"}
  BY DEF AtLock, Roles, Role, Inside, Doing, At
<1>2. task[t].todo = {} /\ t \notin AtGuard /\ \A j : t \in AtLock(j) <=> j = i
  BY <1>1 DEF AtLock, Roles, Role, Inside, Doing, At, AtGuard, Holding, Listing
<1>3. t # Reaper
  BY <1>1 DEF Roles, ReaperRole, At
<1>4. t \in Handlers /\ up
  BY <1>1, <1>3 DEF Roles, ReaperRole, At, Tasks
<1> QED BY <1>1, <1>2, <1>3, <1>4

\* Who holds a lock gives it up and rests.
LEMMA LockGivenUp ==
    ASSUME IInv, NEW i \in Ids, NEW t \in AtLock(i), Head(lock[i]) = t,
           Becomes(t, Rest), lock' = [lock EXCEPT ![i] = Tail(@)],
           UNCHANGED <<up, registry, guard, reaped, abandoned>>
    PROVE  /\ Moves(t) /\ Roles' /\ GuardQueue' /\ LockQueues'
           /\ \A j : AtLock(j)' \subseteq AtLock(j)
           /\ \A j : Minders(j)' = Minders(j) \ {t}
           /\ task'[t].pc = "rest" /\ lock' \in [Ids -> Seq(Tasks)]
<1> USE DEF IInv
<1>1. /\ up /\ t \in Handlers /\ t \in Tasks /\ t # Reaper /\ t \notin AtGuard
      /\ \A j : t \in AtLock(j) <=> j = i
  BY LockersAreUp
<1>2. Moves(t) /\ task'[t] = Rest
  BY <1>1 DEF Becomes, Rest, Types, TaskType, Moves
<1>3. task'[t].pc = "rest" /\ task'[t].todo = {}
  BY <1>2 DEF Rest
<1>4. GuardQueue'
  BY <1>1, <1>2, <1>3, GuardStays DEF GuardNext
<1>5. LockQueues' /\ \A j : AtLock(j)' \subseteq AtLock(j)
  <2>1. LockQueues' /\ \A j : AtLock(j)' = AtLock(j) \ {t}
    BY <1>2, <1>3, LockLeaves DEF LockNext
  <2> QED BY <2>1
<1>6. Roles'
  <2>1. Role(t)'
    BY <1>3 DEF Role, At, Listing
  <2> QED BY <1>1, <1>2, <1>3, <2>1, RolesKept
<1>7. \A j : Minders(j)' = Minders(j) \ {t}
  <2>1. \A j : ~Minds(t, j)'
    BY <1>1, <1>3, MindsNothingNext
  <2>2. ASSUME NEW j PROVE Minders(j)' = Minders(j) \ {t}
    BY <1>1, <1>2, <2>1, MindersEffect
  <2> QED BY <2>2
<1>8. lock' \in [Ids -> Seq(Tasks)]
  <2>1. lock[i] \in Seq(Tasks) /\ lock[i] # <<>>
    BY <1>1 DEF LockQueues, IsQueue, Elements
  <2>2. Tail(lock[i]) \in Seq(Tasks)
    BY <2>1
  <2> QED BY <2>2 DEF Types
<1> QED BY <1>2, <1>3, <1>4, <1>5, <1>6, <1>7, <1>8

\* The terminal of the task that minds it is closed.
LEMMA TerminalClosed ==
    ASSUME IInv, NEW i \in Ids, NEW t \in Minders(i), Moves(t), master'[i] = Nil,
           UNCHANGED <<registry, count>>, task'[t].pc # "start",
           Minders(i)' \subseteq Minders(i), AtLock(i)' \subseteq AtLock(i)
    PROVE  Terminal(i)'
<1>1. Terminal(i) /\ t \in Tasks /\ i \notin registry /\ ~(i > count)
  BY DEF IInv, Terminals, Terminal, Minders
<1>2. ASSUME NEW u \in Tasks, task'[u].pc = "start", task'[u].id = i PROVE FALSE
  <2>1. u # t /\ task[u].pc = "start" /\ task[u].id = i
    BY <1>2 DEF Moves
  <2>2. u \in Minders(i)
    BY <2>1 DEF Minders
  <2> QED BY <1>1, <2>1, <2>2 DEF Terminal
<1> QED BY <1>1, <1>2 DEF Terminal, At

LEMMA EnterKeeps ==
    ASSUME IInv, NEW t \in Tasks, Enter(t)
    PROVE  IInv'
<1> USE DEF IInv
<1>1. PICK i \in Ids : i = task[t].id /\ t \in AtLock(i) /\ Head(lock[i]) = t
  BY DEF Enter, Turn, Roles, Role, At, AtLock
<1>2. /\ At(t, "lock") /\ task[t].op \in {"read", "write"} /\ idle' = idle \ {i}
      /\ UNCHANGED <<up, registry, guard, master, count, reaped, abandoned>>
  BY <1>1 DEF Enter, Turn
<1>3. /\ up /\ t \in Handlers /\ t # Reaper /\ t \notin AtGuard /\ task[t].todo = {}
      /\ \A j : t \in AtLock(j) <=> j = i
  BY <1>1, LockersAreUp
<1>4. \A j : ~Minds(t, j)
  BY <1>2, <1>3 DEF Minds, Doing, At
<1>5. CASE master[i] = Nil
  <2>1. Becomes(t, Rest) /\ lock' = [lock EXCEPT ![i] = Tail(@)]
    BY <1>1, <1>5 DEF Enter, Released
  <2>2. /\ Moves(t) /\ Roles' /\ GuardQueue' /\ LockQueues'
        /\ \A j : AtLock(j)' \subseteq AtLock(j)
        /\ task'[t].pc = "rest" /\ lock' \in [Ids -> Seq(Tasks)]
        /\ \A j : Minders(j)' = Minders(j) \ {t}
    BY <1>1, <1>2, <2>1, LockGivenUp
  <2>3. ASSUME NEW j PROVE Minders(j)' = Minders(j)
    BY <1>4, <2>2, MindersEffect
  <2>4. Types'
    BY <1>1, <1>2, <2>1, <2>2 DEF Types, Moves
  <2>5. Terminals'
    BY <1>2, <2>2, <2>3, TerminalKept DEF Terminals, At
  <2>6. Reading'
    BY <1>2, <2>2, ReadingKept DEF At
  <2> QED BY <2>2, <2>4, <2>5, <2>6
<1>6. CASE master[i] # Nil
  <2>1. Moves(t) /\ task'[t] = [task[t] EXCEPT !.pc = "io", !.fd = master[i]] /\ lock' = lock
    <3>1. task' = [task EXCEPT ![t] = [task[t] EXCEPT !.pc = "io", !.fd = master[i]]] /\ lock' = lock
      BY <1>1, <1>6 DEF Enter, Types
    <3>2. [task[t] EXCEPT !.pc = "io", !.fd = master[i]] \in TaskType
      BY DEF Types, TaskType
    <3> QED BY <3>1, <3>2 DEF Types, Moves
  <2>2. task'[t].pc = "io" /\ task'[t].op = task[t].op /\ task'[t].id = i /\ task'[t].todo = {} /\ task'[t].fd = master[i]
    BY <1>1, <1>3, <2>1 DEF Types, TaskType
  <2>3. Types'
    BY <1>2, <2>1 DEF Types, Moves
  <2>4. Roles'
    <3>1. Role(t)'
      BY <1>2, <2>2 DEF Role, At, Listing
    <3> QED BY <1>2, <1>3, <2>1, <3>1, RolesKept
  <2>5. GuardQueue'
    BY <1>2, <1>3, <2>1, <2>2, GuardStays DEF GuardNext
  <2>6. LockQueues' /\ \A j : AtLock(j)' = AtLock(j)
    BY <1>1, <1>3, <2>1, <2>2, LocksStay DEF LockNext
  <2>7. ASSUME NEW j PROVE Minders(j)' = Minders(j)
    <3>1. ~Minds(t, j)'
      BY <2>2, MindsNothingNext
    <3> QED BY <1>4, <2>1, <3>1, MindersEffect
  <2>8. Terminals'
    BY <1>2, <2>1, <2>2, <2>6, <2>7, TerminalKept DEF Terminals, At
  <2>9. Reading'
    <3> SUFFICES ASSUME NEW u \in Tasks, At(u, "io")'
                 PROVE  task'[u].fd = master'[task'[u].id] \/ task'[u].id \in reaped'
      BY DEF Reading
    <3>1. CASE u = t
      BY <1>2, <2>2, <3>1
    <3>2. CASE u # t
      BY <1>2, <2>1, <3>2 DEF Moves, At, Reading
    <3> QED BY <3>1, <3>2
  <2> QED BY <2>3, <2>4, <2>5, <2>6, <2>8, <2>9
<1> QED BY <1>5, <1>6

LEMMA LeaveKeeps ==
    ASSUME IInv, NEW t \in Tasks, At(t, "io"), Leave(t)
    PROVE  IInv'
<1> USE DEF IInv
<1>1. PICK i \in Ids : i = task[t].id /\ t \in AtLock(i) /\ Head(lock[i]) = t
  BY DEF Roles, Role, At, AtLock, Inside, LockQueues
<1>2. /\ Becomes(t, Rest) /\ lock' = [lock EXCEPT ![i] = Tail(@)]
      /\ UNCHANGED <<up, registry, guard, idle, master, count, reaped, abandoned>>
  BY <1>1 DEF Leave, Released
<1>3. /\ Moves(t) /\ Roles' /\ GuardQueue' /\ LockQueues'
      /\ \A j : AtLock(j)' \subseteq AtLock(j)
      /\ \A j : Minders(j)' = Minders(j) \ {t}
      /\ task'[t].pc = "rest" /\ lock' \in [Ids -> Seq(Tasks)]
  BY <1>1, <1>2, LockGivenUp
<1>4. ASSUME NEW j PROVE Minders(j)' = Minders(j)
  BY <1>3, MindsNothing, MindersEffect DEF At
<1>5. Types'
  BY <1>1, <1>2, <1>3 DEF Types, Moves
<1>6. Terminals'
  BY <1>2, <1>3, <1>4, TerminalKept DEF Terminals, At
<1>7. Reading'
  BY <1>2, <1>3, ReadingKept DEF At
<1> QED BY <1>3, <1>5, <1>6, <1>7

LEMMA EnterCloseKeeps ==
    ASSUME IInv, NEW t \in Tasks, EnterClose(t)
    PROVE  IInv'
<1> USE DEF IInv
<1>1. PICK i \in Ids : i = task[t].id /\ t \in AtLock(i) /\ Head(lock[i]) = t
  BY DEF EnterClose, Turn, Roles, Role, At, AtLock
<1>2. /\ At(t, "lock") /\ task[t].op = "close"
      /\ UNCHANGED <<up, registry, guard, lock, idle, master, count, reaped, abandoned>>
  BY DEF EnterClose, Turn
<1>3. /\ up /\ t \in Handlers /\ t # Reaper /\ t \notin AtGuard /\ task[t].todo = {}
      /\ \A j : t \in AtLock(j) <=> j = i
  BY <1>1, LockersAreUp
<1>4. Moves(t) /\ task'[t] = [task[t] EXCEPT !.pc = "kill"]
  <2>1. task' = [task EXCEPT ![t] = [task[t] EXCEPT !.pc = "kill"]]
    BY DEF EnterClose, Goes, Types
  <2>2. [task[t] EXCEPT !.pc = "kill"] \in TaskType
    BY DEF Types, TaskType
  <2> QED BY <2>1, <2>2 DEF Types, Moves
<1>5. task'[t].pc = "kill" /\ task'[t].op = "close" /\ task'[t].id = i /\ task'[t].todo = {}
  BY <1>1, <1>2, <1>3, <1>4 DEF Types, TaskType
<1>6. Types'
  BY <1>2, <1>4 DEF Types, Moves
<1>7. Roles'
  <2>1. Role(t)'
    BY <1>5 DEF Role, At, Listing
  <2> QED BY <1>2, <1>3, <1>4, <2>1, RolesKept
<1>8. GuardQueue'
  BY <1>2, <1>3, <1>4, <1>5, GuardStays DEF GuardNext
<1>9. LockQueues' /\ \A j : AtLock(j)' = AtLock(j)
  BY <1>1, <1>2, <1>3, <1>4, <1>5, LocksStay DEF LockNext
<1>10. ASSUME NEW j PROVE Minders(j)' = Minders(j)
  <2>1. Minds(t, j) <=> Minds(t, j)'
    BY <1>1, <1>2, <1>5 DEF Minds, Doing, At
  <2> QED BY <1>4, <2>1, MindersEffect
<1>11. Terminals'
  BY <1>2, <1>4, <1>5, <1>9, <1>10, TerminalKept DEF Terminals, At
<1>12. Reading'
  BY <1>2, <1>4, <1>5, ReadingKept DEF At
<1> QED BY <1>6, <1>7, <1>8, <1>9, <1>11, <1>12

-----------------------------------------------------------------------------
\* The end of a close, and of the application.

LEMMA KilledKeeps ==
    ASSUME IInv, NEW t \in Tasks, Killed(t)
    PROVE  IInv'
<1> USE DEF IInv
<1>1. PICK i \in Ids : i = task[t].id /\ t \in Minders(i)
  BY DEF Killed, Roles, Role, At, Minders
<1>2. /\ At(t, "kill") /\ master' = [master EXCEPT ![i] = Nil]
      /\ UNCHANGED <<up, registry, guard, idle, count, reaped, abandoned>>
  BY <1>1 DEF Killed
<1>3. master'[i] = Nil /\ \A j \in Ids \ {i} : master'[j] = master[j]
  BY <1>2 DEF Types
<1>4. CASE task[t].op = "close"
  <2>1. t \in AtLock(i) /\ Inside(t) /\ Head(lock[i]) = t
    BY <1>1, <1>2, <1>4 DEF AtLock, Inside, Doing, At, LockQueues
  <2>2. Becomes(t, Rest) /\ lock' = [lock EXCEPT ![i] = Tail(@)]
    BY <1>1, <1>4 DEF Killed, Released
  <2>3. /\ Moves(t) /\ Roles' /\ GuardQueue' /\ LockQueues'
        /\ \A j : AtLock(j)' \subseteq AtLock(j)
        /\ \A j : Minders(j)' = Minders(j) \ {t}
        /\ task'[t].pc = "rest" /\ lock' \in [Ids -> Seq(Tasks)]
    BY <1>2, <2>1, <2>2, LockGivenUp
  <2>4. Types'
    BY <1>2, <2>3 DEF Types, Moves
  <2>5. ASSUME NEW j \in Ids \ {i} PROVE Terminal(j)'
    <3>1. ~Minds(t, j)
      BY <1>1, <1>4 DEF Minds, Doing
    <3>2. ~Minds(t, j)'
      BY <2>2, <2>3 DEF Minds, Doing, Roles, Role, Listing, At
    <3>3. Minders(j)' = Minders(j)
      BY <2>3, <3>1, <3>2, MindersEffect
    <3> QED BY <1>2, <1>3, <2>3, <3>3, TerminalKept DEF At
  <2>6. Terminal(i)'
    BY <1>1, <1>2, <1>3, <2>3, TerminalClosed
  <2>7. Reading'
    <3> SUFFICES ASSUME NEW u \in Tasks, At(u, "io")'
                 PROVE  task'[u].fd = master'[task'[u].id] \/ task'[u].id \in reaped'
      BY DEF Reading
    <3>1. At(u, "io") /\ task'[u] = task[u] /\ u # t
      BY <2>3 DEF Moves, At
    <3>2. task[u].id \in Ids \ {i}
      BY <1>1, <2>1, <3>1 DEF Roles, Role, LockQueues, Inside, At
    <3> QED BY <1>2, <1>3, <3>1, <3>2 DEF Reading
  <2> QED BY <2>3, <2>4, <2>5, <2>6, <2>7 DEF Terminals
<1>5. CASE task[t].op # "close"
  <2>1. Moves(t) /\ task'[t] = [task[t] EXCEPT !.pc = "reap"] /\ lock' = lock
    <3>1. task' = [task EXCEPT ![t] = [task[t] EXCEPT !.pc = "reap"]] /\ lock' = lock
      BY <1>5 DEF Killed, Goes, Types
    <3>2. [task[t] EXCEPT !.pc = "reap"] \in TaskType
      BY DEF Types, TaskType
    <3> QED BY <3>1, <3>2 DEF Types, Moves
  <2>2. task'[t].pc = "reap" /\ task'[t].op = task[t].op /\ task'[t].id = i /\ task'[t].todo = task[t].todo
    BY <1>1, <2>1 DEF Types, TaskType
  <2>3. task[t].op \in {"create", "reap", "closeall"} /\ i \in reaped /\ \A j : t \notin AtLock(j)
    BY <1>1, <1>2, <1>5 DEF Roles, Role, At, AtLock, Inside, Doing
  <2>4. Types'
    BY <1>2, <2>1 DEF Types, Moves
  <2>5. Roles'
    <3>1. Role(t) /\ Listing(t)
      BY <1>2, <1>5 DEF Roles, Listing
    <3>2. Role(t)'
      BY <1>2, <2>2, <2>3, <3>1 DEF Role, At, Listing
    <3>3. t = Reaper =>
             /\ task'[t].op \in {"reap", "closeall"}
             /\ ~up => task'[t].op = "closeall"
      BY <1>2, <2>2 DEF Roles, ReaperRole, At
    <3>4. (t \in Handlers => up) /\ (~up => registry' = {})
      <4>1. (t \in Handlers => up) /\ (~up => t = Reaper)
        BY <1>2 DEF Roles, ReaperRole, At, Tasks
      <4> QED BY <1>2, <4>1 DEF Roles, ReaperRole, At
    <3> QED BY <1>2, <2>1, <2>2, <3>2, <3>3, <3>4, RolesKept
  <2>6. GuardQueue'
    <3>1. t \in AtGuard <=> GuardNext(t)
      BY <1>2, <2>2, <2>3 DEF AtGuard, Holding, GuardNext, At
    <3>2. GuardNext(t) => Head(guard) = t
      BY <1>2, <2>2, <2>3 DEF GuardNext, GuardQueue, Holding, At
    <3> QED BY <1>2, <2>1, <3>1, <3>2, GuardStays
  <2>7. LockQueues' /\ \A j : AtLock(j)' = AtLock(j)
    <3>1. ~LockNext(t)
      BY <2>2 DEF LockNext
    <3> QED BY <2>1, <2>3, <3>1, LocksStay
  <2>8. ASSUME NEW j \in Ids \ {i} PROVE Terminal(j)'
    <3>1. Minds(t, j) <=> Minds(t, j)'
      BY <1>1, <2>2 DEF Minds, Doing
    <3>2. Minders(j)' = Minders(j)
      BY <2>1, <3>1, MindersEffect
    <3> QED BY <1>2, <1>3, <2>1, <2>2, <2>7, <3>2, TerminalKept DEF At
  <2>9. Terminal(i)'
    <3>1. Minders(i)' \subseteq Minders(i)
      BY <1>1, <2>1, MindersEffect
    <3> QED BY <1>1, <1>2, <1>3, <2>1, <2>2, <2>7, <3>1, TerminalClosed
  <2>10. Reading'
    <3> SUFFICES ASSUME NEW u \in Tasks, At(u, "io")'
                 PROVE  task'[u].fd = master'[task'[u].id] \/ task'[u].id \in reaped'
      BY DEF Reading
    <3>1. At(u, "io") /\ task'[u] = task[u] /\ task[u].id \in Ids
      BY <2>1, <2>2 DEF Moves, At, Roles, Role
    <3> QED BY <1>2, <1>3, <2>3, <3>1 DEF Reading
  <2> QED BY <2>4, <2>5, <2>6, <2>7, <2>8, <2>9, <2>10 DEF Terminals
<1> QED BY <1>4, <1>5

LEMMA ShutdownKeeps == IInv /\ Shutdown => IInv'
<1> SUFFICES ASSUME IInv, Shutdown PROVE IInv'
  OBVIOUS
<1> USE DEF IInv
<1>1. /\ up /\ up' = FALSE /\ guard' = <<>> /\ registry' = {}
      /\ abandoned' = IF At(Reaper, "kill") THEN {task[Reaper].id} ELSE {}
      /\ UNCHANGED <<lock, idle, master, count, reaped>>
      /\ \A u \in Handlers : task[u].pc = "rest" /\ task[u].todo = {}
  BY MindsNothing DEF Shutdown, At, Tasks
<1>2. Reaper \in Tasks /\ \A u \in Tasks : u \in Handlers \/ u = Reaper
  BY DEF Tasks
<1>3. Moves(Reaper) /\ task'[Reaper] = [Rest EXCEPT !.op = "closeall", !.pc = "reap", !.todo = registry]
  BY <1>2 DEF Shutdown, Becomes, Rest, Types, TaskType, Moves
<1>4. task'[Reaper].pc = "reap" /\ task'[Reaper].op = "closeall" /\ task'[Reaper].todo = registry
  BY <1>3 DEF Rest
<1>5. \A u \in Handlers : task'[u] = task[u]
  BY TerminalAssumption, <1>3 DEF Moves, Tasks
<1>6. Types'
  BY <1>1, <1>3 DEF Types, Moves
<1>7. Roles'
  <2>1. Role(Reaper)'
    BY <1>1, <1>4 DEF Role, At, Listing
  <2>2. ASSUME NEW u \in Handlers PROVE Role(u)'
    BY <1>1, <1>5 DEF Role, At, Listing
  <2>3. ReaperRole'
    BY <1>1, <1>4, <1>5 DEF ReaperRole, At
  <2> QED BY <1>2, <2>1, <2>2, <2>3 DEF Roles
<1>8. \A i : AtLock(i) = {}
  BY <1>1, <1>2 DEF AtLock, Roles, Role, ReaperRole, Inside, Doing, At
<1>9. GuardQueue'
  <2>1. \A u \in Tasks : ~(task'[u].pc = "guard") /\ ~(task'[u].pc \in {"reap", "start", "kill"} /\ task'[u].op \in {"create", "reap"})
    BY <1>1, <1>2, <1>4, <1>5
  <2>2. AtGuard' = {}
    BY <2>1 DEF AtGuard, Holding, At
  <2>3. IsQueue(<<>>, {})
    BY DEF IsQueue, Elements
  <2> QED BY <1>1, <2>1, <2>2, <2>3 DEF GuardQueue, Holding
<1>10. LockQueues' /\ \A j : AtLock(j)' = AtLock(j)
  BY <1>1, <1>2, <1>3, <1>4, <1>8, LocksStay DEF LockNext
<1>11. ASSUME NEW i \in Ids PROVE Terminal(i)'
  <2>1. Minders(i)' = IF i \in registry THEN {Reaper} ELSE {}
    <3>1. Minds(Reaper, i)' <=> i \in registry
      BY <1>4 DEF Minds, Doing
    <3>2. \A u \in Tasks \ {Reaper} : ~Minds(u, i)
      BY <1>1, <1>2, MindsNothing
    <3> QED BY <1>2, <1>3, <3>1, <3>2, MindersEffect
  <2>2. master[i] # Nil /\ i \notin registry => i \in abandoned'
    <3>1. SUFFICES ASSUME master[i] # Nil, i \notin registry PROVE i \in abandoned'
      OBVIOUS
    <3>2. Minders(i) # {}
      BY <1>1, <3>1 DEF Terminals, Terminal, Roles, ReaperRole
    <3>3. PICK u \in Tasks : Minds(u, i)
      BY <1>2, <1>3, <3>2, MindersEffect
    <3>4. u = Reaper
      BY <1>1, <1>2, <3>3, MindsNothing
    <3>5. At(Reaper, "kill") /\ task[Reaper].id = i
      BY <1>1, <3>3, <3>4 DEF Minds, Doing, At, Roles, Role, ReaperRole, Listing
    <3> QED BY <1>1, <3>5
  <2>3. i > count => i \notin registry /\ master[i] = Nil
    BY DEF Terminals, Terminal
  <2>4. \A u \in Tasks : task'[u].pc # "start"
    BY <1>1, <1>2, <1>4, <1>5
  <2> QED BY <1>1, <1>8, <1>10, <2>1, <2>2, <2>3, <2>4 DEF Terminal, At
<1>12. Reading'
  BY <1>1, <1>2, <1>4, <1>5 DEF Reading, At
<1> QED BY <1>6, <1>7, <1>9, <1>10, <1>11, <1>12 DEF Terminals

\* With a dead reaper the application ends, and the terminals stay as they are.
LEMMA ShutdownBreaksKeeps == IInv /\ ShutdownBreaks => IInv'
<1> SUFFICES ASSUME IInv, ShutdownBreaks PROVE IInv'
  OBVIOUS
<1> USE DEF IInv
<1>1. /\ up /\ up' = FALSE /\ At(Reaper, "dead") /\ \A t \in Handlers : At(t, "rest")
      /\ UNCHANGED <<registry, guard, lock, idle, master, count, task, reaped, abandoned>>
  BY DEF ShutdownBreaks
<1>2. Types'
  BY <1>1 DEF Types
<1>3. Roles'
  BY <1>1 DEF Roles, Role, ReaperRole, Listing, At
<1>4. AtGuard' = AtGuard /\ \A i : AtLock(i)' = AtLock(i) /\ Minders(i)' = Minders(i)
  BY <1>1 DEF AtGuard, AtLock, Minders, Holding, Inside, Doing, At
<1>5. GuardQueue' /\ LockQueues'
  BY <1>1, <1>4 DEF GuardQueue, LockQueues, Holding, Inside, Doing, At
<1>6. Terminals'
  BY <1>1, <1>4 DEF Terminals, Terminal, At
<1>7. Reading'
  BY <1>1 DEF Reading, At
<1> QED BY <1>2, <1>3, <1>5, <1>6, <1>7

\* The time a session was last used matters to none of this.
LEMMA IdleChanges ==
    ASSUME IInv, idle' \in SUBSET Ids,
           UNCHANGED <<up, registry, guard, lock, master, count, task, reaped, abandoned>>
    PROVE  IInv'
<1> USE DEF IInv
<1>1. Types'
  BY DEF Types
<1>2. Roles'
  BY DEF Roles, Role, ReaperRole, Listing, At
<1>3. AtGuard' = AtGuard /\ \A i : AtLock(i)' = AtLock(i) /\ Minders(i)' = Minders(i)
  BY DEF AtGuard, AtLock, Minders, Holding, Inside, Doing, At
<1>4. GuardQueue' /\ LockQueues'
  BY <1>3 DEF GuardQueue, LockQueues, Holding, Inside, Doing, At
<1>5. Terminals'
  BY <1>3 DEF Terminals, Terminal, At
<1>6. Reading'
  BY DEF Reading, At
<1> QED BY <1>1, <1>2, <1>4, <1>5, <1>6

-----------------------------------------------------------------------------
LEMMA StartHolds == TInit => IInv
<1> SUFFICES ASSUME TInit PROVE IInv
  OBVIOUS
<1>1. \A t \in Tasks : task[t] = Rest /\ Rest.pc = "rest" /\ Rest.todo = {}
  BY DEF TInit, Rest
<1>2. Types
  BY TerminalAssumption DEF TInit, Types, TaskType, Rest
<1>3. Roles
  BY <1>1 DEF TInit, Roles, Role, ReaperRole, Listing, At, Tasks
<1>4. AtGuard = {} /\ \A i : AtLock(i) = {} /\ Minders(i) = {}
  BY <1>1 DEF AtGuard, AtLock, Minders, Holding, Inside, Doing, At
<1>5. IsQueue(<<>>, {})
  BY DEF IsQueue, Elements
<1>6. GuardQueue /\ LockQueues
  BY <1>1, <1>4, <1>5 DEF TInit, GuardQueue, LockQueues, Holding, Inside, Doing, At
<1>7. Terminals
  BY <1>1, <1>4 DEF TInit, Terminals, Terminal, At
<1>8. Reading
  BY <1>1 DEF Reading, At
<1> QED BY <1>2, <1>3, <1>6, <1>7, <1>8 DEF IInv

LEMMA Inductive == IInv /\ [TNext]_tvars => IInv'
<1> SUFFICES ASSUME IInv, [TNext]_tvars PROVE IInv'
  OBVIOUS
<1>1. ASSUME NEW t \in Handlers, NEW i \in Ids, Use(t, "read", i) \/ Use(t, "write", i) PROVE IInv'
  BY <1>1, UseKeeps
<1>2. ASSUME NEW t \in Handlers, NEW i \in Ids, Ask(t, "close", i) PROVE IInv'
  BY <1>2, AskKeeps DEF Tasks
<1>3. ASSUME NEW t \in Handlers, Ask(t, "create", Nil) PROVE IInv'
  BY <1>3, AskKeeps DEF Tasks
<1>4. CASE Ask(Reaper, "reap", Nil)
  BY <1>4, AskKeeps DEF Tasks
<1>5. ASSUME NEW t \in Tasks, Step(t) \/ WriteDone(t) PROVE IInv'
  <2>1. CASE ReadDone(t) \/ WriteDone(t) \/ WriteStops(t)
    BY <2>1, LeaveKeeps DEF ReadDone, WriteDone, WriteStops, Doing, At
  <2> QED BY <1>5, <2>1, TakeOutKeeps, ListIdleKeeps, CloseNextKeeps, ReapedAllRefuseKeeps,
             DesktopsReapedKeeps, StartKeeps,
             StartedKeeps, StartFailsKeeps, EnterKeeps, EnterCloseKeeps, KilledKeeps DEF Step
<1>6. ASSUME NEW i \in Ids, FallIdle(i) PROVE IInv'
  <2>1. idle' \in SUBSET Ids
    BY <1>6 DEF FallIdle, IInv, Types
  <2> QED BY <1>6, <2>1, IdleChanges DEF FallIdle
<1>7. CASE UNCHANGED tvars
  <2>1. idle' \in SUBSET Ids
    BY <1>7 DEF tvars, IInv, Types
  <2> QED BY <1>7, <2>1, IdleChanges DEF tvars
<1> QED BY <1>1, <1>2, <1>3, <1>4, <1>5, <1>6, <1>7, ShutdownKeeps, ShutdownBreaksKeeps DEF TNext

\* IInv is an invariant of the terminals.
LEMMA TerminalsInvariant == TSpec => []IInv
BY StartHolds, Inductive, PTL DEF TSpec

\* What a task has listed to close stays registered until its turn comes, and
\* everything has its type.
THEOREM TerminalsTypeCorrect == TSpec => []TTypeOK
<1>1. IInv => TTypeOK
  <2> SUFFICES ASSUME IInv PROVE TTypeOK
    OBVIOUS
  <2>1. guard \in Seq(Tasks)
    BY DEF IInv, GuardQueue, IsQueue
  <2>2. \A t \in Tasks : At(t, "reap") \/ At(t, "kill") => task[t].op = "closeall" \/ task[t].todo \subseteq registry
    BY DEF IInv, Roles, Role, Listing, At
  <2> QED BY <2>1, <2>2 DEF TTypeOK, IInv, Types
<1> QED BY TerminalsInvariant, <1>1, PTL

\* A terminal that is open is registered, or one task sees to it that it will be
\* registered or closed: none is forgotten, none is closed by two.
THEOREM TerminalsMinded == TSpec => []NoOrphans
<1>1. IInv => NoOrphans
  <2> SUFFICES ASSUME IInv, NEW i \in Ids, master[i] # Nil, i \notin abandoned
               PROVE  IF i \in registry THEN Minders(i) = {} ELSE Cardinality(Minders(i)) = 1
    BY DEF NoOrphans
  <2>1. Terminal(i)
    BY DEF IInv, Terminals
  <2>2. CASE i \notin registry
    <3>1. PICK t : Minders(i) = {t}
      BY <2>1, <2>2 DEF Terminal
    <3>2. Cardinality(Minders(i)) = 1
      BY <3>1, FS_Singleton
    <3> QED BY <2>2, <3>2
  <2> QED BY <2>1, <2>2 DEF Terminal
<1> QED BY TerminalsInvariant, <1>1, PTL

\* A read in its thread has the descriptor of the session it is for, unless the
\* reaper or the shutdown closed that session without its lock.
THEOREM ReadsAreOwn == TSpec => []ReadsOwnTerminal
<1>1. IInv => ReadsOwnTerminal
  BY DEF IInv, Reading, ReadsOwnTerminal, Doing, At
<1> QED BY TerminalsInvariant, <1>1, PTL
=============================================================================
