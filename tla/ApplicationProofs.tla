------------------------- MODULE ApplicationProofs --------------------------
(***************************************************************************)
(* Proofs about the desktops, the AI jobs and the shutdown, for any number *)
(* of requests, sessions and jobs, and any limits.                         *)
(*                                                                         *)
(* None of the properties is inductive.  IInv says that the guard and the  *)
(* locks are queues of the tasks that say they are there, each once; that  *)
(* who has passed one is its head; and that who closes a connection is the *)
(* last at its lock, for the registry has lost the session: so being head  *)
(* and last it is alone, and leaves a closed connection to nobody.  JobInv *)
(* and StopInv say the same kind of thing of the jobs and the shutdown.    *)
(***************************************************************************)
EXTENDS Application, FiniteSetTheorems, TLAPS

Elements(q) == {q[n] : n \in 1..Len(q)}

\* The tasks W wait at a lock, or hold it, in the order of q.
IsQueue(q, W) ==
    /\ q \in Seq(Tasks)
    /\ Elements(q) = W
    /\ \A m, n \in 1..Len(q) : q[m] = q[n] => m = n

Last(q) == q[Len(q)]

\* A task joins a queue at its end.
LEMMA QueueJoined ==
    ASSUME NEW q, NEW W, IsQueue(q, W), NEW t \in Tasks \ W
    PROVE  /\ IsQueue(Append(q, t), W \cup {t})
           /\ W # {} => Head(Append(q, t)) = Head(q)
           /\ Last(Append(q, t)) = t
<1> DEFINE p == Append(q, t)
<1>1. p \in Seq(Tasks) /\ Len(p) = Len(q) + 1 /\ p[Len(q) + 1] = t /\ \A n \in 1..Len(q) : p[n] = q[n]
  BY DEF IsQueue
<1>2. Elements(p) = W \cup {t}
  BY <1>1 DEF IsQueue, Elements
<1>3. ASSUME NEW m \in 1..Len(p), NEW n \in 1..Len(p), p[m] = p[n] PROVE m = n
  BY <1>1, <1>3 DEF IsQueue, Elements
<1>4. W # {} => Head(p) = Head(q)
  BY <1>1 DEF IsQueue, Elements
<1> QED BY <1>1, <1>2, <1>3, <1>4 DEF IsQueue, Last

\* The head leaves a queue; if it was the last as well, nobody is left.
LEMMA QueueLeft ==
    ASSUME NEW q, NEW W, IsQueue(q, W), NEW t \in W, Head(q) = t
    PROVE  /\ IsQueue(Tail(q), W \ {t})
           /\ W \ {t} # {} => Last(Tail(q)) = Last(q)
           /\ Last(q) = t => W = {t}
<1> DEFINE p == Tail(q)
<1>1. /\ q \in Seq(Tasks) /\ Len(q) \in Nat \ {0} /\ q[1] = t
      /\ p \in Seq(Tasks) /\ Len(p) = Len(q) - 1 /\ \A n \in 1..Len(p) : p[n] = q[n + 1]
  BY DEF IsQueue, Elements
<1>2. Elements(p) = W \ {t}
  <2>1. ASSUME NEW u \in W, u # t PROVE u \in Elements(p)
    <3>1. PICK n \in 1..Len(q) : q[n] = u
      BY DEF IsQueue, Elements
    <3>2. n - 1 \in 1..Len(p) /\ p[n - 1] = u
      BY <1>1, <2>1, <3>1
    <3> QED BY <3>2 DEF Elements
  <2>2. ASSUME NEW n \in 1..Len(p) PROVE p[n] \in W \ {t}
    BY <1>1, 1 \in 1..Len(q), n + 1 \in 1..Len(q) DEF IsQueue, Elements
  <2> QED BY <2>1, <2>2 DEF Elements
<1>3. ASSUME NEW m \in 1..Len(p), NEW n \in 1..Len(p), p[m] = p[n] PROVE m = n
  <2>1. m + 1 \in 1..Len(q) /\ n + 1 \in 1..Len(q)
    BY <1>1
  <2> QED BY <1>1, <1>3, <2>1 DEF IsQueue
<1>4. W \ {t} # {} => Last(p) = Last(q)
  <2>1. W \ {t} # {} => Len(p) # 0
    BY <1>1, <1>2 DEF Elements
  <2> QED BY <1>1, <2>1 DEF Last
<1>5. Last(q) = t => W = {t}
  <2>1. Last(q) = t => Len(q) = 1
    BY <1>1 DEF IsQueue, Last
  <2>2. Len(q) = 1 => Elements(q) = {t}
    BY <1>1 DEF Elements
  <2> QED BY <2>1, <2>2 DEF IsQueue
<1> QED BY <1>1, <1>2, <1>3, <1>4, <1>5 DEF IsQueue

-----------------------------------------------------------------------------
TaskType ==
    [op : {Nil, "create", "use", "close", "reap", "closeall", "ai_close"},
     pc : {"rest", "guard", "connect", "lock", "call", "disconnect",
           "reap", "terms", "gather", "dead"},
     id : Ids \cup Jobs \cup {Nil}, todo : SUBSET Ids]

Types ==
    /\ registry \in SUBSET Ids
    /\ lock \in [Ids -> Seq(Tasks)]
    /\ conn \in [Ids -> {"none", "connecting", "open", "late", "closed", "leaked", "closing"}]
    /\ count \in 0..MaxIds
    /\ task \in [Tasks -> TaskType]

\* What a task may be doing at its place.
Roles ==
    /\ \A t \in Tasks :
        /\ task[t].pc \in {"connect", "lock", "call", "disconnect"} => task[t].id \in Ids
        /\ At(t, "lock") => task[t].op \in {"use"} \cup Closers
        /\ At(t, "call") => task[t].op = "use"
        /\ At(t, "disconnect") => task[t].op \in Closers
        /\ At(t, "reap") => task[t].op \in {"reap", "closeall"}
    /\ task[Reaper].pc \notin {"guard", "connect", "call"}
    /\ At(Reaper, "lock") => task[Reaper].op # "use"

AtGuard == {t \in Tasks : task[t].pc \in {"guard", "connect"}}

AtLock(i) == {t \in Tasks : task[t].id = i /\ task[t].pc \in {"lock", "call", "disconnect"}}

\* The queues hold the tasks that say so, and who has passed one is its head.
Queues ==
    /\ IsQueue(guard, AtGuard)
    /\ \A t \in Tasks : At(t, "connect") => Head(guard) = t
    /\ \A i \in Ids : IsQueue(lock[i], AtLock(i))
    /\ \A t \in Tasks : At(t, "call") \/ At(t, "disconnect") => Head(lock[task[t].id]) = t

Closing(t, i) == t \in AtLock(i) /\ task[t].op \in Closers

\* What a connection is says who has it; who closes one is the last at its lock.
Connections ==
    \A i \in Ids :
        /\ i > count => conn[i] = "none"
        /\ i \in registry \/ AtLock(i) # {} => conn[i] = "open"
        /\ \A t \in Tasks : At(t, "connect") /\ task[t].id = i => conn[i] = "connecting"
        /\ conn[i] = "connecting" => \E t \in Tasks : At(t, "connect") /\ task[t].id = i
        /\ conn[i] = "open" /\ i \notin registry => \E t \in Tasks : Closing(t, i)
        /\ \A t \in Tasks : Closing(t, i) => i \notin registry /\ Last(lock[i]) = t

Limit ==
    /\ Cardinality(registry) <= MaxDesktops
    /\ \A t \in Tasks : At(t, "connect") => Cardinality(registry) < MaxDesktops

IInv == Types /\ Roles /\ Queues /\ Connections /\ Limit

\* Task t does something, the others nothing.
Moves(t) == task' \in [Tasks -> TaskType] /\ \A u \in Tasks \ {t} : task'[u] = task[u]

\* What that does to those who wait.
LEMMA MoveEffect ==
    ASSUME Types, NEW t \in Tasks, Moves(t)
    PROVE  /\ AtGuard' = IF task'[t].pc \in {"guard", "connect"}
                         THEN AtGuard \cup {t} ELSE AtGuard \ {t}
           /\ \A i : AtLock(i)' = IF task'[t].id = i /\ task'[t].pc \in {"lock", "call", "disconnect"}
                                  THEN AtLock(i) \cup {t} ELSE AtLock(i) \ {t}
           /\ \A u \in Tasks \ {t} : \A i : Closing(u, i)' <=> Closing(u, i)
<1>1. AtGuard' = {u \in Tasks : task'[u].pc \in {"guard", "connect"}}
  BY DEF AtGuard
<1>2. \A i : AtLock(i)' = {u \in Tasks : task'[u].id = i /\ task'[u].pc \in {"lock", "call", "disconnect"}}
  BY DEF AtLock
<1>3. \A u \in Tasks \ {t} : \A i : Closing(u, i)' <=> Closing(u, i)
  BY <1>2 DEF Closing, AtLock, Moves
<1> QED BY <1>1, <1>2, <1>3 DEF AtGuard, AtLock, Moves

\* Sets of sessions can be counted.
LEMMA SessionsFinite ==
    ASSUME Types, NEW S \in SUBSET Ids
    PROVE  /\ IsFiniteSet(S) /\ Cardinality(S) \in Nat
           /\ \A R \in SUBSET S : Cardinality(R) <= Cardinality(S)
           /\ \A i : Cardinality(S \cup {i}) <= Cardinality(S) + 1
<1>1. IsFiniteSet(Ids)
  BY FS_Interval, DesktopAssumption DEF Ids
<1>2. IsFiniteSet(S)
  BY <1>1, FS_Subset
<1> QED BY <1>2, FS_Subset, FS_AddElement, FS_CardinalityType

\* A task that is at none of the queues stays so.
Outside == {"rest", "reap", "terms", "gather", "dead"}

LEMMA StepsAside ==
    ASSUME IInv, NEW t \in Tasks, task[t].pc \in Outside, Moves(t),
           task'[t].pc \in Outside,
           At(t, "reap")' => task'[t].op \in {"reap", "closeall"},
           UNCHANGED <<registry, guard, lock, conn, count>>
    PROVE  IInv'
<1> USE DEF IInv
<1>1. AtGuard' = AtGuard /\ \A i : AtLock(i)' = AtLock(i)
  BY MoveEffect, SMTT(30) DEF AtGuard, AtLock, Outside
<1>2. Types'
  BY DEF Types, Moves
<1>3. Roles'
  BY Reaper \in Tasks DEF Roles, Moves, At, Outside, Tasks
<1>4. Queues'
  BY <1>1 DEF Queues, Moves, At, Outside
<1>5. \A u \in Tasks : \A i : Closing(u, i)' <=> Closing(u, i)
  BY <1>1 DEF Closing, Moves, AtLock, Outside
<1>6. Connections'
  BY <1>1, <1>5 DEF Connections, Moves, At, Outside
<1>7. Limit'
  BY DEF Limit, Moves, At, Outside
<1> QED BY <1>2, <1>3, <1>4, <1>6, <1>7

-----------------------------------------------------------------------------
\* The guard.

LEMMA AskCreateKeeps ==
    ASSUME IInv, NEW t \in Handlers, At(t, "rest"), AskCreate(t)
    PROVE  IInv'
<1> USE DEF IInv
<1>1. Moves(t) /\ t \in Tasks /\ t # Reaper /\ task'[t].pc = "guard"
  BY DesktopAssumption DEF AskCreate, Rest, Types, TaskType, Moves, Tasks
<1>2. AtGuard' = AtGuard \cup {t} /\ \A i : AtLock(i)' = AtLock(i)
  BY <1>1, MoveEffect DEF AtLock, At
<1>3. Types' /\ Roles'
  <2>1. Types'
    BY <1>1 DEF AskCreate, Types, Moves
  <2>2. Roles'
    BY <1>1 DEF Roles, Moves, At, Tasks
  <2> QED BY <2>1, <2>2
<1>4. Queues'
  <2>1. t \in Tasks \ AtGuard
    BY <1>1 DEF AtGuard, At
  <2>2. IsQueue(guard', AtGuard') /\ (AtGuard # {} => Head(guard') = Head(guard))
    BY <1>2, <2>1, QueueJoined DEF AskCreate, Queues
  <2>3. ASSUME NEW u \in Tasks, At(u, "connect")' PROVE Head(guard') = u
    BY <1>1, <2>2, <2>3 DEF Queues, At, Moves, AtGuard
  <2> QED BY <1>1, <1>2, <2>2, <2>3 DEF AskCreate, Queues, Moves, At
<1>5. \A u \in Tasks : \A i : Closing(u, i)' <=> Closing(u, i)
  BY <1>1, <1>2 DEF Closing, Moves, AtLock, At
<1>6. Connections' /\ Limit'
  BY <1>1, <1>2, <1>5 DEF AskCreate, Connections, Limit, Moves, At
<1> QED BY <1>3, <1>4, <1>6

\* Who leaves the guard was its head, so nobody else connects.
LEMMA GuardLeft ==
    ASSUME IInv, NEW t \in AtGuard, Head(guard) = t, guard' = Tail(guard),
           Moves(t), task'[t].pc = "rest", UNCHANGED lock
    PROVE  /\ Queues' /\ t # Reaper /\ t \in Tasks
           /\ \A u \in Tasks : ~At(u, "connect")'
           /\ \A i : AtLock(i)' = AtLock(i)
           /\ \A u \in Tasks : \A i : Closing(u, i)' <=> Closing(u, i)
<1> USE DEF IInv
<1>1. t \in Tasks /\ t # Reaper
  BY DEF AtGuard, Roles
<1>2. AtGuard' = AtGuard \ {t} /\ \A i : AtLock(i)' = AtLock(i)
  BY <1>1, MoveEffect DEF AtLock, AtGuard
<1>3. \A u \in Tasks : ~At(u, "connect")'
  BY <1>1 DEF Queues, At, Moves
<1>4. IsQueue(guard', AtGuard')
  BY <1>2, QueueLeft DEF Queues
<1>5. \A u \in Tasks : \A i : Closing(u, i)' <=> Closing(u, i)
  BY <1>1, <1>2 DEF Closing, Moves, AtLock, AtGuard
<1>6. Queues'
  BY <1>1, <1>2, <1>3, <1>4 DEF Queues, At, Moves
<1> QED BY <1>1, <1>2, <1>3, <1>5, <1>6

LEMMA RefuseKeeps ==
    ASSUME IInv, NEW t \in Tasks, Refuse(t)
    PROVE  IInv'
<1> USE DEF IInv
<1>1. Moves(t) /\ task'[t].pc = "rest" /\ t \in AtGuard
  BY DEF Refuse, Ends, Rest, Types, TaskType, Moves, At, AtGuard
<1>2. /\ Queues' /\ t # Reaper
      /\ \A u \in Tasks : ~At(u, "connect")' /\ ~At(u, "connect")
      /\ \A i : AtLock(i)' = AtLock(i)
      /\ \A u \in Tasks : \A i : Closing(u, i)' <=> Closing(u, i)
  BY <1>1, GuardLeft DEF Refuse, Queues, At
<1>3. Types' /\ Roles'
  <2>1. Types'
    BY <1>1, <1>2 DEF Refuse, Types, Moves
  <2>2. Roles'
    BY <1>1, <1>2 DEF Roles, Moves, At, Tasks
  <2> QED BY <2>1, <2>2
<1>4. Connections' /\ Limit'
  BY <1>2 DEF Refuse, Connections, Limit
<1> QED BY <1>2, <1>3, <1>4

LEMMA ConnectKeeps ==
    ASSUME IInv, NEW t \in Tasks, Connect(t)
    PROVE  IInv'
<1> USE DEF IInv
<1>1. /\ Moves(t) /\ t # Reaper /\ t \in AtGuard
      /\ task'[t].pc = "connect" /\ task'[t].id = count' /\ count' \in Ids
  <2>1. count' \in Ids /\ t # Reaper /\ t \in AtGuard
    BY DesktopAssumption DEF Connect, Types, At, AtGuard, Ids, Roles
  <2>2. task' = [task EXCEPT ![t] = [task[t] EXCEPT !.pc = "connect", !.id = count']]
    BY DEF Connect, Types
  <2>3. [task[t] EXCEPT !.pc = "connect", !.id = count'] \in TaskType
    BY <2>1 DEF Types, TaskType
  <2> QED BY <2>1, <2>2, <2>3 DEF Types, Moves, TaskType
<1>2. AtGuard' = AtGuard /\ \A i : AtLock(i)' = AtLock(i)
  BY <1>1, MoveEffect DEF AtGuard, AtLock
<1>3. Types' /\ Roles'
  <2>1. Types'
    BY <1>1, DesktopAssumption DEF Connect, Types, Moves
  <2>2. Roles'
    BY <1>1, DesktopAssumption DEF Roles, Moves, At, Tasks
  <2> QED BY <2>1, <2>2
<1>4. \A u \in Tasks : ~At(u, "connect") /\ (At(u, "connect")' <=> u = t)
  BY <1>1 DEF Connect, Queues, At, Moves
<1>5. Queues'
  BY <1>1, <1>2, <1>4 DEF Connect, Queues, Moves, At
<1>6. \A u \in Tasks : \A i : Closing(u, i)' <=> Closing(u, i)
  BY <1>1, <1>2 DEF Closing, Moves, AtLock, AtGuard
<1>7. conn[count'] = "none" /\ count' \notin registry /\ AtLock(count') = {}
  BY <1>1 DEF Connect, Connections, Types
<1>8. Connections'
  <2> SUFFICES ASSUME NEW i \in Ids
               PROVE  /\ i > count' => conn'[i] = "none"
                      /\ i \in registry \/ AtLock(i) # {} => conn'[i] = "open"
                      /\ \A u \in Tasks : At(u, "connect")' /\ task'[u].id = i => conn'[i] = "connecting"
                      /\ conn'[i] = "connecting" => \E u \in Tasks : At(u, "connect")' /\ task'[u].id = i
                      /\ conn'[i] = "open" /\ i \notin registry => \E u \in Tasks : Closing(u, i)
                      /\ \A u \in Tasks : Closing(u, i) => i \notin registry /\ Last(lock[i]) = u
    BY <1>2, <1>6 DEF Connect, Connections
  <2>1. CASE i = count'
    BY <1>1, <1>4, <1>7, <2>1 DEF Connect, Types, Closing
  <2>2. CASE i # count'
    <3>1. conn'[i] = conn[i] /\ (i > count' => i > count)
      BY <2>2, DesktopAssumption DEF Connect, Types, Ids
    <3> QED BY <1>1, <1>4, <2>2, <3>1 DEF Connections
  <2> QED BY <2>1, <2>2
<1>9. Limit'
  BY <1>4, SessionsFinite, DesktopAssumption DEF Connect, Full, Limit, Types
<1> QED BY <1>3, <1>5, <1>8, <1>9

LEMMA ConnectedKeeps ==
    ASSUME IInv, NEW t \in Tasks, Connected(t)
    PROVE  IInv'
<1> USE DEF IInv
<1>1. Moves(t) /\ task'[t].pc = "rest" /\ t \in AtGuard /\ Head(guard) = t
  BY DEF Connected, Ends, Rest, Types, TaskType, Moves, At, AtGuard, Queues
<1>2. /\ Queues' /\ t # Reaper
      /\ \A u \in Tasks : ~At(u, "connect")' /\ (At(u, "connect") => u = t)
      /\ \A i : AtLock(i)' = AtLock(i)
      /\ \A u \in Tasks : \A i : Closing(u, i)' <=> Closing(u, i)
  BY <1>1, GuardLeft DEF Connected, Queues, At
<1>3. task[t].id \in Ids /\ conn[task[t].id] = "connecting"
  <2>1. At(t, "connect") /\ task[t].id \in Ids
    BY DEF Connected, Roles, At
  <2> QED BY <2>1 DEF Connections
<1>4. Types' /\ Roles'
  <2>1. Types'
    BY <1>1, <1>2, <1>3 DEF Connected, Types, Moves
  <2>2. Roles'
    BY <1>1, <1>2, <1>3 DEF Roles, Moves, At, Tasks
  <2> QED BY <2>1, <2>2
<1>5. Connections'
  BY <1>2, <1>3 DEF Connected, Connections, Types, Closing
<1>6. Limit'
  <2>1. Cardinality(registry) < MaxDesktops /\ Cardinality(registry) \in Nat
    BY SessionsFinite DEF Connected, Limit, Types
  <2>2. registry' \in SUBSET Ids /\ Cardinality(registry') <= Cardinality(registry) + 1
    BY <1>3, SessionsFinite DEF Connected, Types
  <2>3. Cardinality(registry') \in Nat
    BY <1>4, <2>2, SessionsFinite
  <2> QED BY <1>2, <2>1, <2>2, <2>3, DesktopAssumption DEF Limit
<1> QED BY <1>2, <1>4, <1>5, <1>6

LEMMA ConnectFailsKeeps ==
    ASSUME IInv, NEW t \in Tasks, ConnectFails(t)
    PROVE  IInv'
<1> USE DEF IInv
<1>1. Moves(t) /\ task'[t].pc = "rest" /\ t \in AtGuard /\ Head(guard) = t
  BY DEF ConnectFails, Ends, Rest, Types, TaskType, Moves, At, AtGuard, Queues
<1>2. /\ Queues' /\ t # Reaper
      /\ \A u \in Tasks : ~At(u, "connect")' /\ (At(u, "connect") => u = t)
      /\ \A i : AtLock(i)' = AtLock(i)
      /\ \A u \in Tasks : \A i : Closing(u, i)' <=> Closing(u, i)
  BY <1>1, GuardLeft DEF ConnectFails, Queues, At
<1>3. task[t].id \in Ids /\ conn[task[t].id] = "connecting"
  <2>1. At(t, "connect") /\ task[t].id \in Ids
    BY DEF ConnectFails, Roles, At
  <2> QED BY <2>1 DEF Connections
<1>4. Types' /\ Roles'
  <2>1. Types'
    BY <1>1, <1>2, <1>3 DEF ConnectFails, Types, Moves
  <2>2. Roles'
    BY <1>1, <1>2, <1>3 DEF Roles, Moves, At, Tasks
  <2> QED BY <2>1, <2>2
<1>5. Connections'
  BY <1>2, <1>3 DEF ConnectFails, Connections, Types, Closing
<1>6. Limit'
  BY <1>2 DEF ConnectFails, Limit
<1> QED BY <1>2, <1>4, <1>5, <1>6

-----------------------------------------------------------------------------
\* The locks.

\* A task joins the queue of a session that requests can find.
LEMMA LockJoined ==
    ASSUME IInv, NEW t \in Tasks, task[t].pc \in Outside, NEW i \in registry,
           lock' = [lock EXCEPT ![i] = Append(@, t)],
           Moves(t), task'[t].pc = "lock", task'[t].id = i,
           task'[t].op = "use" => t # Reaper,
           task'[t].op \in {"use"} \cup Closers,
           registry' = IF task'[t].op = "use" THEN registry ELSE registry \ {i},
           UNCHANGED <<guard, conn, count>>
    PROVE  IInv'
<1> USE DEF IInv
<1>1. t \notin AtGuard /\ (\A j : t \notin AtLock(j)) /\ i \in Ids /\ registry' \in SUBSET registry
  BY DEF AtGuard, AtLock, Outside, Types
<1>2. AtGuard' = AtGuard /\ \A j : AtLock(j)' = IF j = i THEN AtLock(j) \cup {t} ELSE AtLock(j)
  <2>1. AtGuard' = AtGuard \ {t}
    BY MoveEffect
  <2>2. \A j : AtLock(j)' = IF j = i THEN AtLock(j) \cup {t} ELSE AtLock(j) \ {t}
    BY MoveEffect
  <2> QED BY <1>1, <2>1, <2>2
<1>3. /\ IsQueue(lock'[i], AtLock(i)') /\ Last(lock'[i]) = t
      /\ AtLock(i) # {} => Head(lock'[i]) = Head(lock[i])
  <2>1. lock'[i] = Append(lock[i], t) /\ AtLock(i)' = AtLock(i) \cup {t}
    BY <1>1, <1>2 DEF Types
  <2>2. IsQueue(lock[i], AtLock(i)) /\ t \in Tasks \ AtLock(i)
    BY <1>1 DEF Queues
  <2>3. /\ IsQueue(Append(lock[i], t), AtLock(i) \cup {t})
        /\ AtLock(i) # {} => Head(Append(lock[i], t)) = Head(lock[i])
        /\ Last(Append(lock[i], t)) = t
    BY <2>2, QueueJoined
  <2> QED BY <2>1, <2>3
<1>4. \A j \in Ids \ {i} : lock'[j] = lock[j]
  BY DEF Types
<1>5. Types'
  BY <1>1, <1>3, <1>4 DEF Types, Moves, IsQueue
<1>6. Roles'
  BY <1>1 DEF Roles, Moves, At, Tasks
<1>7. Queues'
  <2>1. ASSUME NEW u \in Tasks, At(u, "call")' \/ At(u, "disconnect")'
        PROVE  Head(lock'[task'[u].id]) = u
    <3>1. u # t /\ task'[u] = task[u] /\ Head(lock[task[u].id]) = u
      BY <2>1 DEF Queues, At, Moves
    <3>2. u \in AtLock(task[u].id) /\ task[u].id \in Ids
      BY <2>1, <3>1 DEF AtLock, Roles, At
    <3> QED BY <1>3, <1>4, <3>1, <3>2
  <2>2. \A j \in Ids : IsQueue(lock'[j], AtLock(j)')
    BY <1>2, <1>3, <1>4 DEF Queues
  <2> QED BY <1>2, <2>1, <2>2 DEF Queues, Moves, At
<1>8. /\ \A u \in Tasks \ {t} : \A j : Closing(u, j)' <=> Closing(u, j)
      /\ \A j : Closing(t, j)' <=> j = i /\ task'[t].op \in Closers
      /\ \A j : ~Closing(t, j)
  BY <1>1, <1>2, MoveEffect DEF Closing
<1>9. conn[i] = "open" /\ \A u \in Tasks : ~Closing(u, i)
  BY <1>1 DEF Connections
<1>10. \A u \in Tasks : At(u, "connect")' <=> At(u, "connect") /\ u # t
  BY DEF Moves, At
<1>11. Connections'
  <2> SUFFICES ASSUME NEW j \in Ids
               PROVE  /\ j > count => conn[j] = "none"
                      /\ j \in registry' \/ AtLock(j)' # {} => conn[j] = "open"
                      /\ \A u \in Tasks : At(u, "connect")' /\ task'[u].id = j => conn[j] = "connecting"
                      /\ conn[j] = "connecting" => \E u \in Tasks : At(u, "connect")' /\ task'[u].id = j
                      /\ conn[j] = "open" /\ j \notin registry' => \E u \in Tasks : Closing(u, j)'
                      /\ \A u \in Tasks : Closing(u, j)' => j \notin registry' /\ Last(lock'[j]) = u
    BY DEF Connections
  <2>1. CASE j = i
    BY <1>2, <1>3, <1>8, <1>9, <1>10, <2>1 DEF Connections, Closers, Moves
  <2>2. CASE j # i
    <3>1. lock'[j] = lock[j] /\ AtLock(j)' = AtLock(j) /\ (j \in registry' <=> j \in registry)
      BY <1>2, <1>4, <2>2
    <3>2. \A u \in Tasks : Closing(u, j)' <=> Closing(u, j)
      BY <1>8, <2>2
    <3>3. \A u \in Tasks : At(u, "connect")' /\ task'[u].id = j <=> At(u, "connect") /\ task[u].id = j
      BY DEF Moves, At, Outside
    <3> QED BY <3>1, <3>2, <3>3 DEF Connections
  <2> QED BY <2>1, <2>2
<1>12. Limit'
  <2>1. /\ Cardinality(registry') <= Cardinality(registry)
        /\ Cardinality(registry) \in Nat /\ Cardinality(registry') \in Nat
    <3>1. registry \in SUBSET Ids /\ registry' \in SUBSET Ids /\ registry' \in SUBSET registry
      BY <1>1, <1>5 DEF Types
    <3> QED BY <3>1, SessionsFinite
  <2>2. Cardinality(registry') <= MaxDesktops
    BY <2>1, DesktopAssumption DEF Limit
  <2>3. ASSUME NEW u \in Tasks, At(u, "connect")' PROVE Cardinality(registry') < MaxDesktops
    <3>1. Cardinality(registry) < MaxDesktops
      BY <1>10, <2>3 DEF Limit
    <3> QED BY <2>1, <3>1, DesktopAssumption
  <2> QED BY <2>2, <2>3 DEF Limit
<1> QED BY <1>5, <1>6, <1>7, <1>11, <1>12

\* The head of a lock begins its call.
LEMMA LockEntered ==
    ASSUME IInv, NEW t \in Tasks, Turn(t), NEW pc \in {"call", "disconnect"}, Goes(t, pc),
           IF pc = "call" THEN task[t].op = "use" ELSE task[t].op \in Closers,
           UNCHANGED <<registry, guard, lock, conn, count>>
    PROVE  IInv'
<1> USE DEF IInv
<1>1. Moves(t) /\ task'[t].pc = pc /\ task'[t].op = task[t].op /\ task'[t].id = task[t].id /\ At(t, "lock")
  BY ZenonT(40) DEF Goes, Types, TaskType, Moves, Turn, At
<1>2. AtGuard' = AtGuard /\ \A i : AtLock(i)' = AtLock(i)
  BY <1>1, MoveEffect DEF AtGuard, AtLock, At
<1>3. Types'
  BY <1>1 DEF Types, Moves
<1>4. Roles'
  BY <1>1 DEF Roles, Moves, At, Tasks
<1>5. Queues'
  BY <1>1, <1>2 DEF Queues, Moves, At, Turn
<1>6. \A u \in Tasks : \A i : Closing(u, i)' <=> Closing(u, i)
  BY <1>1, <1>2 DEF Closing, Moves, AtLock
<1>7. Connections' /\ Limit'
  BY <1>1, <1>2, <1>6 DEF Connections, Limit, Moves, At
<1> QED BY <1>3, <1>4, <1>5, <1>7

LEMMA EnterKeeps ==
    ASSUME IInv, NEW t \in Tasks, Enter(t) \/ EnterClose(t)
    PROVE  IInv'
BY LockEntered DEF Enter, EnterClose, sessions

\* A task leaves the lock it held; the queue loses its head.
LEMMA LockLeft ==
    ASSUME IInv, NEW t \in Tasks, At(t, "call") \/ At(t, "disconnect"),
           NEW i, task[t].id = i, Released(t), Moves(t), task'[t].pc \in Outside, UNCHANGED guard
    PROVE  /\ Queues' /\ t \in AtLock(i) /\ i \in Ids
           /\ \A j : AtLock(j)' = IF j = i THEN AtLock(j) \ {t} ELSE AtLock(j)
           /\ \A j \in Ids \ {i} : lock'[j] = lock[j]
           /\ lock' \in [Ids -> Seq(Tasks)]
           /\ AtLock(i)' # {} => Last(lock'[i]) = Last(lock[i])
           /\ Closing(t, i) => AtLock(i)' = {}
           /\ \A u \in Tasks : \A j : Closing(u, j)' <=> u # t /\ Closing(u, j)
           /\ \A u \in Tasks : At(u, "connect")' <=> At(u, "connect")
<1> USE DEF IInv
<1>1. i \in Ids /\ t \in AtLock(i) /\ Head(lock[i]) = t /\ IsQueue(lock[i], AtLock(i))
  BY DEF Roles, Queues, AtLock, At
<1>2. AtGuard' = AtGuard /\ \A j : AtLock(j)' = IF j = i THEN AtLock(j) \ {t} ELSE AtLock(j)
  <2>1. AtGuard' = AtGuard
    BY MoveEffect DEF AtGuard, At, Outside
  <2>2. \A j : AtLock(j)' = AtLock(j) \ {t}
    BY MoveEffect DEF Outside
  <2>3. \A j : j # i => t \notin AtLock(j)
    BY DEF AtLock
  <2> QED BY <2>1, <2>2, <2>3
<1>3. lock'[i] = Tail(lock[i]) /\ \A j \in Ids \ {i} : lock'[j] = lock[j]
  BY <1>1 DEF Released, Types
<1>4. /\ IsQueue(lock'[i], AtLock(i)')
      /\ AtLock(i)' # {} => Last(lock'[i]) = Last(lock[i])
      /\ Last(lock[i]) = t => AtLock(i)' = {}
  <2>1. /\ IsQueue(Tail(lock[i]), AtLock(i) \ {t})
        /\ AtLock(i) \ {t} # {} => Last(Tail(lock[i])) = Last(lock[i])
        /\ Last(lock[i]) = t => AtLock(i) = {t}
    BY <1>1, QueueLeft
  <2>2. AtLock(i)' = AtLock(i) \ {t}
    BY <1>2
  <2> QED BY <1>3, <2>1, <2>2
<1>5. lock' \in [Ids -> Seq(Tasks)]
  BY <1>1, <1>3, <1>4 DEF Released, Types, IsQueue
<1>6. \A u \in Tasks : \A j : Closing(u, j)' <=> u # t /\ Closing(u, j)
  BY <1>2, MoveEffect DEF Closing, AtLock, Outside
<1>7. \A u \in Tasks : At(u, "connect")' <=> At(u, "connect")
  BY DEF Moves, At, Outside
<1>8. Queues'
  <2>1. ASSUME NEW u \in Tasks, At(u, "call")' \/ At(u, "disconnect")'
        PROVE  Head(lock'[task'[u].id]) = u
    <3>1. u # t /\ task'[u] = task[u] /\ Head(lock[task[u].id]) = u /\ task[u].id \in Ids
      BY <2>1 DEF Queues, At, Moves, Outside, Roles
    <3>2. task[u].id # i
      BY <1>1, <3>1
    <3> QED BY <1>3, <3>1, <3>2
  <2>2. \A j \in Ids : IsQueue(lock'[j], AtLock(j)')
    <3> SUFFICES ASSUME NEW j \in Ids PROVE IsQueue(lock'[j], AtLock(j)')
      OBVIOUS
    <3>1. CASE j = i
      BY <1>4, <3>1
    <3>2. CASE j # i
      <4>1. lock'[j] = lock[j] /\ AtLock(j)' = AtLock(j)
        BY <1>2, <1>3, <3>2
      <4> QED BY <4>1 DEF Queues
    <3> QED BY <3>1, <3>2
  <2> QED BY <1>2, <1>7, <2>1, <2>2 DEF Queues, At, Moves
<1>9. Closing(t, i) => AtLock(i)' = {}
  BY <1>1, <1>4 DEF Connections
<1> QED BY <1>1, <1>2, <1>3, <1>4, <1>5, <1>6, <1>7, <1>8, <1>9

LEMMA CalledKeeps ==
    ASSUME IInv, NEW t \in Tasks, Called(t)
    PROVE  IInv'
<1> USE DEF IInv
<1>1. Moves(t) /\ task'[t].pc = "rest" /\ task'[t].op = Nil /\ At(t, "call") /\ t # Reaper
  BY DEF Called, Ends, Rest, Types, TaskType, Moves, At, Roles
<1>2. PICK i : i = task[t].id
  OBVIOUS
<1>3. /\ Queues' /\ t \in AtLock(i) /\ i \in Ids
      /\ \A j : AtLock(j)' = IF j = i THEN AtLock(j) \ {t} ELSE AtLock(j)
      /\ \A j \in Ids \ {i} : lock'[j] = lock[j]
      /\ lock' \in [Ids -> Seq(Tasks)]
      /\ AtLock(i)' # {} => Last(lock'[i]) = Last(lock[i])
      /\ \A u \in Tasks : \A j : Closing(u, j)' <=> u # t /\ Closing(u, j)
      /\ \A u \in Tasks : At(u, "connect")' <=> At(u, "connect")
  BY <1>1, <1>2, LockLeft DEF Called, Outside
<1>4. \A j : ~Closing(t, j)
  BY <1>1 DEF Roles, Closing, Closers
<1>5. Types'
  BY <1>1, <1>3 DEF Called, Types, Moves
<1>6. Roles'
  BY <1>1 DEF Roles, Moves, At, Tasks
<1>7. Connections'
  <2> SUFFICES ASSUME NEW j \in Ids
               PROVE  /\ j > count => conn[j] = "none"
                      /\ j \in registry \/ AtLock(j)' # {} => conn[j] = "open"
                      /\ \A u \in Tasks : At(u, "connect")' /\ task'[u].id = j => conn[j] = "connecting"
                      /\ conn[j] = "connecting" => \E u \in Tasks : At(u, "connect")' /\ task'[u].id = j
                      /\ conn[j] = "open" /\ j \notin registry => \E u \in Tasks : Closing(u, j)'
                      /\ \A u \in Tasks : Closing(u, j)' => j \notin registry /\ Last(lock'[j]) = u
    BY DEF Connections, Called
  <2>1. \A u \in Tasks : Closing(u, j)' <=> Closing(u, j)
    BY <1>3, <1>4
  <2>2. \A u \in Tasks : At(u, "connect")' /\ task'[u].id = j <=> At(u, "connect") /\ task[u].id = j
    BY <1>1 DEF Moves, At
  <2>3. ASSUME NEW u \in Tasks, Closing(u, j) PROVE Last(lock'[j]) = u
    <3>1. Last(lock[j]) = u
      BY <2>3 DEF Connections
    <3>2. CASE j = i
      <4>1. u \in AtLock(i)'
        BY <1>3, <1>4, <2>3, <3>2 DEF Closing
      <4> QED BY <1>3, <3>1, <3>2, <4>1
    <3>3. CASE j # i
      BY <1>3, <3>1, <3>3
    <3> QED BY <3>2, <3>3
  <2> QED BY <1>3, <2>1, <2>2, <2>3 DEF Connections
<1>8. Limit'
  BY <1>3 DEF Called, Limit
<1> QED BY <1>3, <1>5, <1>6, <1>7, <1>8

\* Who closes a connection is alone at its lock, so nobody is left there.
LEMMA ClosedKeeps ==
    ASSUME IInv, NEW t \in Tasks, At(t, "disconnect"),
           NEW c \in {"closed", "leaked", "closing"},
           conn' = [conn EXCEPT ![task[t].id] = c],
           Released(t), Moves(t), task'[t].pc \in Outside,
           At(t, "reap")' => task'[t].op \in {"reap", "closeall"},
           UNCHANGED <<registry, guard, count>>
    PROVE  IInv'
<1> USE DEF IInv
<1>1. PICK i : i = task[t].id
  OBVIOUS
<1>2. i \in Ids /\ Closing(t, i) /\ i \notin registry /\ conn[i] = "open"
  BY <1>1 DEF Roles, Closing, AtLock, At, Connections
<1>3. /\ Queues' /\ AtLock(i)' = {}
      /\ \A j : j # i => AtLock(j)' = AtLock(j)
      /\ \A j \in Ids \ {i} : lock'[j] = lock[j]
      /\ lock' \in [Ids -> Seq(Tasks)]
      /\ \A u \in Tasks : \A j : Closing(u, j)' <=> u # t /\ Closing(u, j)
      /\ \A u \in Tasks : At(u, "connect")' <=> At(u, "connect")
  <2>1. /\ Queues' /\ t \in AtLock(i) /\ i \in Ids
        /\ \A j : AtLock(j)' = IF j = i THEN AtLock(j) \ {t} ELSE AtLock(j)
        /\ \A j \in Ids \ {i} : lock'[j] = lock[j]
        /\ lock' \in [Ids -> Seq(Tasks)]
        /\ Closing(t, i) => AtLock(i)' = {}
        /\ \A u \in Tasks : \A j : Closing(u, j)' <=> u # t /\ Closing(u, j)
        /\ \A u \in Tasks : At(u, "connect")' <=> At(u, "connect")
    BY <1>1, LockLeft
  <2> QED BY <1>2, <2>1
<1>4. Types'
  BY <1>1, <1>2, <1>3 DEF Types, Moves
<1>5. Roles'
  BY DEF Roles, Moves, At, Tasks, Outside
<1>6. Connections'
  <2> SUFFICES ASSUME NEW j \in Ids
               PROVE  /\ j > count => conn'[j] = "none"
                      /\ j \in registry \/ AtLock(j)' # {} => conn'[j] = "open"
                      /\ \A u \in Tasks : At(u, "connect")' /\ task'[u].id = j => conn'[j] = "connecting"
                      /\ conn'[j] = "connecting" => \E u \in Tasks : At(u, "connect")' /\ task'[u].id = j
                      /\ conn'[j] = "open" /\ j \notin registry => \E u \in Tasks : Closing(u, j)'
                      /\ \A u \in Tasks : Closing(u, j)' => j \notin registry /\ Last(lock'[j]) = u
    BY DEF Connections
  <2>1. \A u \in Tasks : At(u, "connect")' /\ task'[u].id = j <=> At(u, "connect") /\ task[u].id = j
    BY DEF Moves, At, Outside
  <2>2. CASE j = i
    <3>1. conn'[j] = c /\ ~(j > count)
      BY <1>1, <1>2, <2>2 DEF Types, Connections
    <3>2. \A u \in Tasks : ~Closing(u, j)'
      BY <1>3, <2>2 DEF Closing
    <3> QED BY <1>2, <1>3, <2>1, <2>2, <3>1, <3>2 DEF Connections
  <2>3. CASE j # i
    <3>1. conn'[j] = conn[j] /\ lock'[j] = lock[j] /\ AtLock(j)' = AtLock(j)
      BY <1>1, <1>3, <2>3 DEF Types
    <3>2. \A u \in Tasks : Closing(u, j)' <=> Closing(u, j)
      BY <1>1, <1>3, <2>3, ZenonT(40) DEF Closing, AtLock
    <3> QED BY <2>1, <3>1, <3>2 DEF Connections
  <2> QED BY <2>2, <2>3
<1>7. Limit'
  BY <1>3 DEF Limit
<1> QED BY <1>3, <1>4, <1>5, <1>6, <1>7

LEMMA DisconnectKeeps ==
    ASSUME IInv, NEW t \in Tasks, Disconnected(t) \/ DisconnectRaises(t)
    PROVE  IInv'
<1> USE DEF IInv
<1>1. At(t, "disconnect") /\ task[t].op \in Closers /\ task[t] \in TaskType
  BY DEF Disconnected, DisconnectRaises, Roles, Types
<1>2. /\ Moves(t) /\ task'[t].pc \in Outside
      /\ At(t, "reap")' => task'[t].op \in {"reap", "closeall"}
  <2>1. \/ task' = [task EXCEPT ![t] = Rest]
        \/ /\ task[t].op \in {"reap", "closeall"}
           /\ \E pc \in {"reap", "dead"} : task' = [task EXCEPT ![t].pc = pc]
    BY <1>1 DEF Disconnected, DisconnectRaises, Onward, Ends, Goes, Closers
  <2>2. CASE task' = [task EXCEPT ![t] = Rest]
    BY <2>2, DesktopAssumption DEF Rest, Moves, Outside, Types, TaskType, At
  <2>3. ASSUME task[t].op \in {"reap", "closeall"},
               NEW pc \in {"reap", "dead"}, task' = [task EXCEPT ![t].pc = pc]
        PROVE  /\ Moves(t) /\ task'[t].pc \in Outside
               /\ At(t, "reap")' => task'[t].op \in {"reap", "closeall"}
    <3>1. task'[t] = [task[t] EXCEPT !.pc = pc] /\ task'[t] \in TaskType
      BY <1>1, <2>3 DEF Types, TaskType
    <3>2. Moves(t)
      BY <2>3, <3>1 DEF Moves, Types
    <3>3. task'[t].pc = pc /\ task'[t].op = task[t].op
      BY <1>1, <3>1 DEF TaskType
    <3> QED BY <2>3, <3>2, <3>3 DEF Outside
  <2> QED BY <2>1, <2>2, <2>3
<1>3. CASE Disconnected(t)
  BY <1>1, <1>2, <1>3, ClosedKeeps DEF Disconnected
<1>4. CASE DisconnectRaises(t)
  BY <1>1, <1>2, <1>4, ClosedKeeps DEF DisconnectRaises
<1> QED BY <1>3, <1>4

-----------------------------------------------------------------------------
\* Every step.

LEMMA UseKeeps ==
    ASSUME IInv, NEW t \in Handlers, At(t, "rest"), NEW i \in Ids, Use(t, i) \/ AskClose(t, i)
    PROVE  IInv'
<1> USE DEF IInv
<1>1. t \in Tasks /\ t # Reaper /\ task[t].pc \in Outside /\ i \in registry
  BY DesktopAssumption DEF Tasks, At, Outside, Use, AskClose
<1>2. CASE Use(t, i)
  <2>1. Moves(t) /\ task'[t].pc = "lock" /\ task'[t].id = i /\ task'[t].op = "use"
    BY <1>1, <1>2, DesktopAssumption DEF Use, Rest, Types, TaskType, Moves
  <2> QED BY <1>1, <1>2, <2>1, LockJoined DEF Use
<1>3. CASE AskClose(t, i)
  <2>1. Moves(t) /\ task'[t].pc = "lock" /\ task'[t].id = i /\ task'[t].op = "close"
    BY <1>1, <1>3, DesktopAssumption DEF AskClose, Rest, Types, TaskType, Moves
  <2> QED BY <1>1, <1>3, <2>1, LockJoined DEF AskClose, Taken, Closers
<1> QED BY <1>2, <1>3

LEMMA ReapNextKeeps ==
    ASSUME IInv, NEW t \in Tasks, NEW i \in Ids, ReapNext(t, i)
    PROVE  IInv'
<1> USE DEF IInv
<1>1. /\ At(t, "reap") /\ task[t].op \in {"reap", "closeall"} /\ task[t].pc \in Outside
      /\ task[t] \in TaskType
  BY DEF ReapNext, First, Roles, At, Outside, Types
<1>2. CASE Due(t, i)
  <2>1. i \in registry /\ task' = [task EXCEPT ![t] = [task[t] EXCEPT !.pc = "lock", !.id = i, !.todo = @ \ {i}]]
    BY <1>1, <1>2 DEF ReapNext, Due, Types
  <2>2. [task[t] EXCEPT !.pc = "lock", !.id = i, !.todo = @ \ {i}] \in TaskType
    BY <1>1 DEF TaskType
  <2>3. Moves(t) /\ task'[t].pc = "lock" /\ task'[t].id = i /\ task'[t].op = task[t].op
    BY <1>1, <2>1, <2>2 DEF Types, TaskType, Moves
  <2> QED BY <1>1, <1>2, <2>1, <2>3, LockJoined DEF ReapNext, Taken, Closers
<1>3. CASE ~Due(t, i)
  <2>1. task' = [task EXCEPT ![t] = [task[t] EXCEPT !.todo = @ \ {i}]]
    BY <1>1, <1>3 DEF ReapNext, Types
  <2>2. [task[t] EXCEPT !.todo = @ \ {i}] \in TaskType
    BY <1>1 DEF TaskType
  <2>3. Moves(t) /\ task'[t].pc = "reap" /\ task'[t].op = task[t].op
    BY <1>1, <2>1, <2>2 DEF Types, TaskType, Moves, At
  <2> QED BY <1>1, <1>3, <2>3, StepsAside DEF ReapNext, Outside
<1> QED BY <1>2, <1>3

\* A thread nobody waits for has a connection that is nobody's.
LEMMA StrayKeeps ==
    ASSUME IInv, NEW i \in Ids, StrayReturns(i)
    PROVE  IInv'
<1> USE DEF IInv
<1>1. /\ conn[i] \in {"late", "closing"} /\ conn'[i] \in {"leaked", "closed"}
      /\ \A j \in Ids \ {i} : conn'[j] = conn[j]
      /\ Types'
  BY DEF StrayReturns, Types
<1>2. Connections'
  BY <1>1 DEF StrayReturns, Connections, Closing, AtLock, At
<1>3. Roles' /\ Queues' /\ Limit'
  BY DEF StrayReturns, Roles, Queues, Limit, At, AtGuard, AtLock
<1> QED BY <1>1, <1>2, <1>3

\* A step of the clock or of the jobs.
LEMMA Standing ==
    ASSUME IInv, UNCHANGED <<registry, guard, lock, conn, count, task>>
    PROVE  IInv'
BY DEF IInv, Types, Roles, Queues, Connections, Limit, At, AtGuard, AtLock, Closing

\* The steps of tasks that are at none of the queues.
LEMMA AsideKeeps ==
    ASSUME IInv,
           \/ \E t \in Handlers, j \in Jobs : CloseJob(t, j)
           \/ \E t \in Tasks : JobGathered(t)
           \/ Wake \/ TermsReaped \/ ReapJobs \/ Gathered
    PROVE  IInv'
<1> USE DEF IInv
<1>1. Reaper \in Tasks /\ Handlers \subseteq Tasks /\ \A t \in Handlers : t # Reaper
  BY DesktopAssumption DEF Tasks
<1>2. ASSUME NEW t \in Tasks, task[t].pc \in Outside, UNCHANGED <<registry, guard, lock, conn, count>>,
             NEW r \in TaskType, task' = [task EXCEPT ![t] = r],
             r.pc \in Outside, r.pc = "reap" => r.op \in {"reap", "closeall"}
      PROVE  IInv'
  <2>1. Moves(t) /\ task'[t] = r
    BY <1>2 DEF Types, Moves
  <2> QED BY <1>2, <2>1, StepsAside DEF At
<1>3. ASSUME NEW t \in Handlers, NEW j \in Jobs, CloseJob(t, j) PROVE IInv'
  <2>1. [Rest EXCEPT !.op = "ai_close", !.pc = "gather", !.id = j] \in TaskType
    BY DEF Rest, TaskType
  <2> QED BY <1>1, <1>2, <1>3, <2>1 DEF CloseJob, Free, At, Outside, Rest, sessions
<1>4. ASSUME NEW t \in Tasks, JobGathered(t) PROVE IInv'
  <2>1. Rest \in TaskType
    BY DEF Rest, TaskType
  <2> QED BY <1>2, <1>4, <2>1, DesktopAssumption DEF JobGathered, Ends, Doing, Outside, Rest, sessions
<1>5. CASE Wake
  <2>1. [Rest EXCEPT !.op = "reap", !.pc = "terms"] \in TaskType
    BY DEF Rest, TaskType
  <2> QED BY <1>1, <1>2, <1>5, <2>1 DEF Wake, Free, At, Outside, Rest, sessions
<1>6. CASE ReapJobs
  <2>1. Rest \in TaskType
    BY DEF Rest, TaskType
  <2> QED BY <1>1, <1>2, <1>6, <2>1, DesktopAssumption DEF ReapJobs, Ends, Doing, Outside, Rest, sessions
<1>7. CASE TermsReaped \/ Gathered
  <2>1. task[Reaper] \in TaskType /\ task[Reaper].op \in {"reap", "closeall"} /\ task[Reaper].pc \in Outside
    BY <1>1, <1>7 DEF TermsReaped, Gathered, Doing, Outside, Types
  <2>2. \/ task' = [task EXCEPT ![Reaper] = [task[Reaper] EXCEPT !.pc = "reap", !.todo = registry]]
        \/ task' = [task EXCEPT ![Reaper] = [task[Reaper] EXCEPT !.pc = "dead"]]
    BY <1>1, <1>7 DEF TermsReaped, Gathered, Goes, Types
  <2>3. /\ [task[Reaper] EXCEPT !.pc = "reap", !.todo = registry] \in TaskType
        /\ [task[Reaper] EXCEPT !.pc = "dead"] \in TaskType
    BY <2>1 DEF TaskType, Types
  <2> DEFINE r == task'[Reaper]
  <2>4. /\ Moves(Reaper) /\ r.pc \in Outside /\ r.op = task[Reaper].op
    <3>1. \/ r = [task[Reaper] EXCEPT !.pc = "reap", !.todo = registry]
          \/ r = [task[Reaper] EXCEPT !.pc = "dead"]
      BY <1>1, <2>2 DEF Types
    <3>2. r \in TaskType /\ \A u \in Tasks \ {Reaper} : task'[u] = task[u]
      BY <2>2, <2>3, <3>1 DEF Types
    <3>3. task' \in [Tasks -> TaskType]
      BY <1>1, <2>2, <2>3 DEF Types
    <3> QED BY <2>1, <3>1, <3>2, <3>3 DEF TaskType, Moves, Outside
  <2>5. UNCHANGED <<registry, guard, lock, conn, count>>
    BY <1>7 DEF TermsReaped, Gathered, sessions
  <2> QED BY <1>1, <2>1, <2>4, <2>5, StepsAside
<1> QED BY <1>3, <1>4, <1>5, <1>6, <1>7

\* The shutdown cuts off a close of the reaper: its lock is released.
LEMMA ShutdownKeeps ==
    ASSUME IInv, Shutdown
    PROVE  IInv'
<1> USE DEF IInv
<1> DEFINE r == [Rest EXCEPT !.op = "closeall", !.pc = "gather"]
<1>1. /\ Reaper \in Tasks /\ r \in TaskType /\ task' = [task EXCEPT ![Reaper] = r]
      /\ r.op = "closeall" /\ r.pc = "gather" /\ UNCHANGED <<registry, guard, count>>
  BY DEF Tasks, Shutdown, Rest, TaskType
<1>2. Moves(Reaper) /\ task'[Reaper] = r
  BY <1>1 DEF Types, Moves
<1>3. CASE At(Reaper, "disconnect")
  <2>1. conn' = [conn EXCEPT ![task[Reaper].id] = "closing"] /\ Released(Reaper)
    BY <1>3 DEF Shutdown
  <2> QED BY <1>1, <1>2, <1>3, <2>1, ClosedKeeps DEF Outside, At
<1>4. CASE ~At(Reaper, "disconnect")
  <2>1. UNCHANGED <<conn, lock>> /\ task[Reaper].pc \in Outside
    BY <1>1, <1>4 DEF Shutdown, Types, TaskType, Roles, At, Outside
  <2> QED BY <1>1, <1>2, <2>1, StepsAside DEF Outside, At
<1> QED BY <1>3, <1>4

LEMMA SessionStepKeeps ==
    ASSUME IInv, NEW t \in Tasks, SessionStep(t)
    PROVE  IInv'
BY RefuseKeeps, ConnectKeeps, ConnectedKeeps, ConnectFailsKeeps, EnterKeeps, CalledKeeps,
   ReapNextKeeps, DisconnectKeeps DEF SessionStep

LEMMA StepInductive == IInv /\ [ANext]_avars => IInv'
<1> SUFFICES ASSUME IInv, [ANext]_avars PROVE IInv'
  OBVIOUS
<1>1. ASSUME NEW t \in Handlers, Request(t) PROVE IInv'
  <2>1. At(t, "rest")
    BY <1>1 DEF Request, Free
  <2>2. CASE AskCreate(t)
    BY <2>1, <2>2, AskCreateKeeps
  <2>3. CASE \E i \in Ids : Use(t, i) \/ AskClose(t, i)
    BY <2>1, <2>3, UseKeeps
  <2> QED BY <1>1, <2>2, <2>3 DEF Request
<1>2. ASSUME NEW t \in Tasks, Step(t) PROVE IInv'
  BY <1>2, SessionStepKeeps, AsideKeeps DEF Step
<1>3. ASSUME NEW i \in Ids, FallIdle(i) \/ StrayReturns(i) PROVE IInv'
  BY <1>3, Standing, StrayKeeps DEF FallIdle
<1>4. ASSUME NEW j \in Jobs, StartJob(j) \/ JobEnds(j) \/ Unwinds(j) \/ JobAges(j) PROVE IInv'
  BY <1>4, Standing DEF StartJob, JobEnds, Unwinds, JobAges, sessions
<1>5. CASE Reaping
  BY <1>5, AsideKeeps, Standing DEF Reaping, Stopped, sessions
<1>6. CASE ShutdownBreaks \/ UNCHANGED avars
  BY <1>6, Standing DEF ShutdownBreaks, avars, sessions
<1>7. ASSUME NEW t \in Handlers, NEW j \in Jobs, CloseJob(t, j) PROVE IInv'
  BY <1>7, AsideKeeps
<1> QED BY <1>1, <1>2, <1>3, <1>4, <1>5, <1>6, <1>7, ShutdownKeeps DEF ANext

LEMMA StartHolds == AInit => IInv
<1> SUFFICES ASSUME AInit PROVE IInv
  OBVIOUS
<1>1. Rest \in TaskType /\ Rest.pc = "rest" /\ \A t \in Tasks : task[t] = Rest
  BY DEF AInit, Rest, TaskType
<1>2. Types /\ Roles
  BY <1>1, DesktopAssumption DEF AInit, SessionsInit, Types, Roles, At, Tasks
<1>3. AtGuard = {} /\ \A i : AtLock(i) = {}
  BY <1>1 DEF AtGuard, AtLock
<1>4. IsQueue(<<>>, {})
  BY DEF IsQueue, Elements
<1>5. Queues
  BY <1>1, <1>3, <1>4 DEF AInit, SessionsInit, Queues, At
<1>6. Connections /\ Limit
  BY <1>1, <1>3, DesktopAssumption, FS_EmptySet DEF AInit, SessionsInit, Connections, Closing, Limit, At
<1> QED BY <1>2, <1>5, <1>6 DEF IInv

\* Who holds the guard and the locks, who waits there, and what that says of the
\* connections of DesktopManager and of the number of its sessions.
THEOREM SessionsInvariant == ASpec => []IInv
<1>1. IInv /\ [ANext]_avars => IInv'
  BY StepInductive
<1> QED BY StartHolds, <1>1, PTL DEF ASpec

-----------------------------------------------------------------------------
\* The limit counts the connection that is being made: DesktopManager.create
\* holds the guard from its test to the entry in the registry.
THEOREM LimitHolds == ASpec => []DesktopsWithinLimit
<1>1. IInv => DesktopsWithinLimit
  <2> SUFFICES ASSUME IInv PROVE DesktopsWithinLimit
    OBVIOUS
  <2> DEFINE C == {t \in Tasks : At(t, "connect")}
  <2>1. Cardinality(registry) \in Nat
    BY SessionsFinite DEF IInv, Types
  <2>2. CASE C = {}
    BY <2>1, <2>2, FS_EmptySet, DesktopAssumption DEF DesktopsWithinLimit, IInv, Limit
  <2>3. CASE C # {}
    <3>1. C = {Head(guard)} /\ Cardinality(registry) < MaxDesktops
      BY <2>3 DEF IInv, Queues, Limit
    <3> HIDE DEF C
    <3>2. Cardinality(C) = 1
      BY <3>1, FS_Singleton
    <3>3. Cardinality(registry) + Cardinality(C) <= MaxDesktops
      BY <2>1, <3>1, <3>2, DesktopAssumption
    <3> QED BY <3>3 DEF DesktopsWithinLimit, C
  <2> QED BY <2>2, <2>3
<1> QED BY SessionsInvariant, <1>1, PTL

\* Whoever calls the client of a session, or closes it, holds its lock, and the
\* connection is open, for closing leaves nobody at the lock.
THEOREM CallsExclude == ASpec => []CallsAreExclusive
<1>1. IInv => CallsAreExclusive
  <2> SUFFICES ASSUME IInv, NEW t \in Tasks, At(t, "call") \/ At(t, "disconnect")
               PROVE  /\ conn[task[t].id] = "open"
                      /\ \A u \in Tasks \ {t} : At(u, "call") \/ At(u, "disconnect") =>
                            task[u].id # task[t].id
    BY DEF CallsAreExclusive
  <2>1. task[t].id \in Ids /\ t \in AtLock(task[t].id)
    BY DEF IInv, Roles, AtLock, At
  <2>2. conn[task[t].id] = "open"
    BY <2>1 DEF IInv, Connections
  <2>3. \A u \in Tasks : At(u, "call") \/ At(u, "disconnect") => Head(lock[task[u].id]) = u
    BY DEF IInv, Queues
  <2> QED BY <2>2, <2>3
<1> QED BY SessionsInvariant, <1>1, PTL

\* A connection that is not registered is in the hands of the one task that holds
\* the guard, or of the one that is the last at its lock.
THEOREM ConnectionsMinded == ASpec => []ConnectionsAreMinded
<1>1. IInv => ConnectionsAreMinded
  <2> SUFFICES ASSUME IInv, NEW i \in Ids, conn[i] \in {"connecting", "open"}
               PROVE  IF i \in registry THEN Minders(i) = {} ELSE Cardinality(Minders(i)) = 1
    BY DEF ConnectionsAreMinded
  <2>1. Minders(i) = {t \in Tasks : At(t, "connect") /\ task[t].id = i} \cup {t \in Tasks : Closing(t, i)}
    BY DEF Minders, IInv, Roles, Closing, AtLock, At, Closers
  <2>2. CASE i \in registry
    BY <2>1, <2>2 DEF IInv, Connections
  <2>3. CASE i \notin registry
    <3>1. CASE conn[i] = "connecting"
      <4>1. \E t : Minders(i) = {t}
        BY <2>1, <3>1 DEF IInv, Connections, Queues, Closing
      <4> QED BY <2>3, <4>1, FS_Singleton
    <3>2. CASE conn[i] = "open"
      <4>1. \E t : Minders(i) = {t}
        BY <2>1, <2>3, <3>2 DEF IInv, Connections
      <4> QED BY <2>3, <4>1, FS_Singleton
    <3> QED BY <3>1, <3>2
  <2> QED BY <2>2, <2>3
<1> QED BY SessionsInvariant, <1>1, PTL

-----------------------------------------------------------------------------
\* The jobs.  A job that runs can be found, so that Busy counts it.

JobInv ==
    /\ jobs \in SUBSET Jobs /\ old \in SUBSET jobs
    /\ job \in [Jobs -> {"none", "running", "cancelled", "done"}]
    /\ app = "up" => \A j \in jobs : job[j] # "cancelled"
    /\ \A j \in Jobs : Running(j) => j \in jobs
    /\ \A j, k \in Jobs : Running(j) /\ Running(k) => j = k

LEMMA JobsInductive == JobInv /\ [ANext]_avars => JobInv'
<1> SUFFICES ASSUME JobInv, [ANext]_avars PROVE JobInv'
  OBVIOUS
<1> USE DEF JobInv
<1>1. ASSUME NEW j \in Jobs, StartJob(j) PROVE JobInv'
  BY <1>1 DEF StartJob, Busy, Running
<1>2. ASSUME NEW j \in Jobs, JobEnds(j) \/ Unwinds(j) \/ JobAges(j) PROVE JobInv'
  BY <1>2 DEF JobEnds, Unwinds, JobAges, Running
<1>3. ASSUME NEW t \in Handlers, NEW j \in Jobs, CloseJob(t, j) PROVE JobInv'
  BY <1>3 DEF CloseJob, CancelJob, Cancelled, Running, Free
<1>4. CASE ReapJobs
  BY <1>4 DEF ReapJobs, ReapOld, Cancelled, Running
<1>5. CASE Shutdown
  BY <1>5 DEF Shutdown, Cancelled, Running
<1>6. CASE UNCHANGED ai /\ (app' = app \/ app' # "up")
  BY <1>6 DEF ai, Running
<1>7. ASSUME NEW t \in Tasks, Step(t) PROVE UNCHANGED ai /\ app' = app
  BY <1>7 DEF Step, JobGathered
<1>8. ASSUME NEW t \in Handlers, Request(t) PROVE UNCHANGED ai /\ app' = app
  BY <1>8 DEF Request
<1>9. CASE Wake \/ TermsReaped \/ Gathered \/ Stopped \/ ShutdownBreaks \/ UNCHANGED avars
  BY <1>6, <1>9 DEF Wake, TermsReaped, Gathered, Stopped, ShutdownBreaks, avars, ai
<1> QED BY <1>1, <1>2, <1>3, <1>4, <1>5, <1>6, <1>7, <1>8, <1>9 DEF ANext, Reaping

\* One prompt runs at a time, and only where it can be found and closed.
THEOREM JobsMinded == ASpec => []JobsAreMinded
<1>1. AInit => JobInv
  BY DEF AInit, JobInv, Running
<1>2. JobInv => JobsAreMinded
  <2> SUFFICES ASSUME JobInv PROVE JobsAreMinded
    OBVIOUS
  <2> DEFINE R == {j \in Jobs : Running(j)}
  <2>1. R = {} \/ \E j : R = {j}
    BY DEF JobInv
  <2>2. Cardinality(R) <= 1
    <3> HIDE DEF R
    <3>1. Cardinality({}) = 0 /\ \A j : Cardinality({j}) = 1
      BY FS_EmptySet, FS_Singleton
    <3>2. CASE R = {}
      <4>1. Cardinality(R) = 0
        BY <3>1, <3>2
      <4> QED BY <4>1
    <3>3. CASE \E j : R = {j}
      <4>1. Cardinality(R) = 1
        BY <3>1, <3>3
      <4> QED BY <4>1
    <3> QED BY <2>1, <3>2, <3>3
  <2> QED BY <2>2 DEF JobsAreMinded, JobInv
<1> QED BY <1>1, <1>2, JobsInductive, PTL DEF ASpec

-----------------------------------------------------------------------------
\* The shutdown.  Nobody but the one that closes everything does anything any
\* more, and what it has passed stays as it left it.

Settled == \A j \in jobs : job[j] = "done"

StopInv ==
    /\ app \in {"up", "stopping", "stopped"}
    /\ app # "up" /\ ~At(Reaper, "dead") =>
          /\ \A t \in Handlers : At(t, "rest")
          /\ task[Reaper].op = "closeall"
          /\ task[Reaper].pc \in {"gather", "reap", "lock", "disconnect"}
          /\ ~At(Reaper, "gather") => Settled /\ registry \subseteq task[Reaper].todo
    /\ app = "stopped" /\ ~At(Reaper, "dead") =>
          At(Reaper, "reap") /\ task[Reaper].todo = {}

\* A task at rest or dead does nothing on its own.
LEMMA StepMovesSelf ==
    ASSUME IInv, NEW t \in Tasks, Step(t)
    PROVE  /\ \A u \in Tasks \ {t} : task'[u] = task[u]
           /\ task[t].pc \notin {"rest", "dead", "terms"}
           /\ UNCHANGED <<app, ai>>
<1> USE DEF IInv, Types
<1>1. ASSUME SessionStep(t)
      PROVE  /\ \A u \in Tasks \ {t} : task'[u] = task[u]
             /\ task[t].pc \in {"guard", "connect", "lock", "call", "disconnect", "reap"}
  <2>1. CASE Refuse(t) \/ Connect(t) \/ Connected(t) \/ ConnectFails(t)
    BY <2>1 DEF Refuse, Connect, Connected, ConnectFails, Ends, At
  <2>2. CASE Enter(t) \/ Called(t) \/ EnterClose(t)
    BY <2>2 DEF Enter, Called, EnterClose, Turn, Goes, Ends, At
  <2>3. CASE \E i \in Ids : ReapNext(t, i)
    BY <2>3 DEF ReapNext, First, At
  <2>4. CASE Disconnected(t) \/ DisconnectRaises(t)
    BY <2>4 DEF Disconnected, DisconnectRaises, Onward, Goes, Ends, At
  <2> QED BY <1>1, <2>1, <2>2, <2>3, <2>4 DEF SessionStep
<1>2. CASE JobGathered(t)
  BY <1>2 DEF JobGathered, Doing, Ends, sessions
<1>3. CASE SessionStep(t) /\ UNCHANGED <<app, ai>>
  BY <1>1, <1>3
<1> QED BY <1>2, <1>3 DEF Step

\* What the one that closes everything does on its own.
LEMMA ClosingStep ==
    ASSUME IInv, StopInv, app # "up", ~At(Reaper, "dead"), Step(Reaper)
    PROVE  /\ app # "stopped" /\ Settled /\ ~At(Reaper, "gather")
           /\ At(Reaper, "dead")' \/
                 /\ task'[Reaper].op = "closeall"
                 /\ task'[Reaper].pc \in {"reap", "lock", "disconnect"}
                 /\ registry' \subseteq task'[Reaper].todo
<1> USE DEF StopInv
<1>1. Reaper \in Tasks /\ task[Reaper].op = "closeall" /\ task[Reaper] \in TaskType
  BY DEF IInv, Types, Tasks
<1>2. SessionStep(Reaper)
  BY <1>1 DEF Step, JobGathered, Doing
<1>3. CASE \E i \in Ids : ReapNext(Reaper, i)
  <2>1. PICK i \in Ids : ReapNext(Reaper, i)
    BY <1>3
  <2>2. At(Reaper, "reap") /\ i \in task[Reaper].todo /\ Settled /\ registry \subseteq task[Reaper].todo
    BY <1>1, <2>1 DEF ReapNext, First, At
  <2>3. CASE Due(Reaper, i)
    <3>1. task'[Reaper] = [task[Reaper] EXCEPT !.pc = "lock", !.id = i, !.todo = @ \ {i}] /\ registry' = registry \ {i}
      BY <1>1, <2>1, <2>3 DEF ReapNext, Taken, IInv, Types
    <3> QED BY <1>1, <2>2, <3>1 DEF TaskType, At
  <2>4. CASE ~Due(Reaper, i)
    <3>1. task'[Reaper] = [task[Reaper] EXCEPT !.todo = @ \ {i}] /\ registry' = registry /\ i \notin registry
      BY <1>1, <2>1, <2>4 DEF ReapNext, Due, IInv, Types
    <3> QED BY <1>1, <2>2, <3>1 DEF TaskType, At
  <2> QED BY <2>3, <2>4
<1>4. CASE EnterClose(Reaper) \/ Disconnected(Reaper) \/ DisconnectRaises(Reaper)
  <2>1. task[Reaper].pc \in {"lock", "disconnect"} /\ Settled /\ registry' = registry /\ registry \subseteq task[Reaper].todo
    BY <1>1, <1>4 DEF EnterClose, Disconnected, DisconnectRaises, Turn, At, sessions
  <2>2. \E pc \in {"reap", "disconnect", "dead"} : task' = [task EXCEPT ![Reaper].pc = pc]
    BY <1>1, <1>4 DEF EnterClose, Disconnected, DisconnectRaises, Onward, Goes
  <2>3. \E pc \in {"reap", "disconnect", "dead"} : task'[Reaper] = [task[Reaper] EXCEPT !.pc = pc]
    BY <1>1, <2>2 DEF IInv, Types
  <2> QED BY <1>1, <2>1, <2>3 DEF TaskType, At
<1>5. CASE Refuse(Reaper) \/ Connect(Reaper) \/ Connected(Reaper) \/ ConnectFails(Reaper) \/ Called(Reaper)
  BY <1>5 DEF Refuse, Connect, Connected, ConnectFails, Called, At, IInv, Roles
<1>6. CASE Enter(Reaper)
  BY <1>1, <1>6 DEF Enter
<1> QED BY <1>2, <1>3, <1>4, <1>5, <1>6 DEF SessionStep

LEMMA StopInductive == IInv /\ JobInv /\ StopInv /\ [ANext]_avars => StopInv'
<1> SUFFICES ASSUME IInv, JobInv, StopInv, [ANext]_avars PROVE StopInv'
  OBVIOUS
<1> USE DEF StopInv
<1>0. Reaper \in Tasks /\ Handlers \subseteq Tasks /\ \A t \in Handlers : t # Reaper
  BY DesktopAssumption DEF Tasks
<1>1. CASE app = "up" /\ app' = "up"
  BY <1>1
<1>2. CASE Shutdown
  <2>1. task'[Reaper] = [Rest EXCEPT !.op = "closeall", !.pc = "gather"]
    BY <1>0, <1>2 DEF Shutdown, IInv, Types
  <2>2. \A t \in Handlers : At(t, "rest")'
    BY <1>0, <1>2 DEF Shutdown, IInv, Types, At
  <2>3. app' = "stopping"
    BY <1>2 DEF Shutdown
  <2> QED BY <2>1, <2>2, <2>3 DEF Rest, At
<1>3. CASE ShutdownBreaks
  BY <1>3 DEF ShutdownBreaks, At
<1>4. ASSUME NEW t \in Tasks, Step(t), app # "up" PROVE StopInv'
  <2>1. (\A u \in Tasks \ {t} : task'[u] = task[u]) /\ task[t].pc \notin {"rest", "dead", "terms"} /\ UNCHANGED <<app, ai>>
    BY <1>4, StepMovesSelf
  <2>2. CASE At(Reaper, "dead")
    BY <1>0, <1>4, <2>1, <2>2 DEF At
  <2>3. CASE ~At(Reaper, "dead")
    <3>1. t = Reaper
      BY <1>0, <1>4, <2>1, <2>3 DEF At, Tasks
    <3>2. /\ app # "stopped" /\ Settled /\ ~At(Reaper, "gather")
          /\ At(Reaper, "dead")' \/
                /\ task'[Reaper].op = "closeall"
                /\ task'[Reaper].pc \in {"reap", "lock", "disconnect"}
                /\ registry' \subseteq task'[Reaper].todo
      BY <1>4, <2>3, <3>1, ClosingStep
    <3>3. Settled' /\ \A u \in Handlers : At(u, "rest")'
      BY <1>0, <1>4, <2>1, <2>3, <3>1, <3>2 DEF Settled, ai, At
    <3> QED BY <2>1, <3>2, <3>3 DEF At
  <2> QED BY <2>2, <2>3
<1>5. ASSUME NEW j \in Jobs, JobEnds(j) \/ Unwinds(j) \/ JobAges(j), app # "up" PROVE StopInv'
  <2>1. Settled => Settled'
    BY <1>5 DEF JobEnds, Unwinds, JobAges, Settled, JobInv
  <2> QED BY <1>5, <2>1 DEF JobEnds, Unwinds, JobAges, sessions, At
<1>6. ASSUME NEW i \in Ids, (FallIdle(i) \/ StrayReturns(i)) /\ UNCHANGED <<app, ai>> PROVE StopInv'
  BY <1>6 DEF FallIdle, StrayReturns, ai, At, Settled
<1>7. CASE Gathered /\ app # "up"
  <2>1. At(Reaper, "gather") /\ task[Reaper].op = "closeall" /\ Settled /\ task[Reaper] \in TaskType /\ app = "stopping"
    BY <1>0, <1>7 DEF Gathered, Doing, AllGathered, Settled, IInv, Types, At
  <2>2. /\ UNCHANGED <<app, ai, registry>> /\ \A u \in Handlers : task'[u] = task[u]
        /\ \/ task'[Reaper] = [task[Reaper] EXCEPT !.pc = "reap", !.todo = registry]
           \/ task'[Reaper] = [task[Reaper] EXCEPT !.pc = "dead"]
    BY <1>0, <1>7 DEF Gathered, Goes, IInv, Types, sessions
  <2> QED BY <2>1, <2>2 DEF At, Settled, ai, TaskType
<1>8. CASE Stopped
  BY <1>8 DEF Stopped, sessions, ai, At, Settled
<1>9. CASE UNCHANGED avars
  BY <1>9 DEF avars, sessions, At, Settled
<1>10. CASE app # "up" /\ (Wake \/ TermsReaped \/ ReapJobs)
  <2>1. ~Wake /\ task[Reaper].op = "reap" /\ task[Reaper].pc \in {"terms", "reap"}
    BY <1>10 DEF Wake, Free, TermsReaped, ReapJobs, Doing
  <2> QED BY <1>10, <2>1 DEF At
<1>11. ASSUME app # "up"
       PROVE  /\ \A j \in Jobs : ~StartJob(j)
              /\ \A t \in Handlers : ~Request(t) /\ \A j \in Jobs : ~CloseJob(t, j)
              /\ ~Shutdown /\ ~ShutdownBreaks
  BY <1>11 DEF StartJob, Request, CloseJob, Free, Shutdown, ShutdownBreaks
<1>12. CASE app = "up" /\ app' # "up"
  <2>1. ~Stopped
    BY <1>12 DEF Stopped
  <2>2. \A t \in Tasks : ~Step(t)
    BY <1>12, StepMovesSelf
  <2>3. Shutdown \/ ShutdownBreaks
    BY <1>12, <2>1, <2>2 DEF ANext, Reaping, avars, StartJob, JobEnds, Unwinds, JobAges, Request, CloseJob,
       Wake, TermsReaped, ReapJobs, Gathered
  <2> QED BY <1>2, <1>3, <2>3
<1>13. CASE app # "up"
  <2> HIDE DEF StopInv
  <2>1. CASE \E j \in Jobs : StartJob(j) \/ JobEnds(j) \/ Unwinds(j) \/ JobAges(j)
    BY <1>5, <1>11, <1>13, <2>1
  <2>2. CASE \E t \in Handlers : Request(t) \/ \E j \in Jobs : CloseJob(t, j)
    BY <1>11, <1>13, <2>2
  <2>3. CASE \E t \in Tasks : Step(t)
    BY <1>4, <1>13, <2>3
  <2>4. CASE \E i \in Ids : (FallIdle(i) \/ StrayReturns(i)) /\ UNCHANGED <<app, ai>>
    BY <1>6, <2>4
  <2>5. CASE Reaping \/ Shutdown \/ ShutdownBreaks
    BY <1>7, <1>8, <1>10, <1>11, <1>13, <2>5 DEF Reaping
  <2> QED BY <1>9, <2>1, <2>2, <2>3, <2>4, <2>5 DEF ANext
<1> QED BY <1>1, <1>12, <1>13

\* When the application has stopped without an exception, its jobs have ended and
\* its connections are closed, or in the hands of a thread that outlives it.
THEOREM StopClean == ASpec => []StopLeavesNothing
<1>1. AInit => IInv /\ JobInv /\ StopInv
  BY StartHolds DEF AInit, JobInv, Running, StopInv
<1>2. IInv /\ StopInv => StopLeavesNothing
  <2> SUFFICES ASSUME IInv, StopInv, app = "stopped", ~At(Reaper, "dead")
               PROVE  /\ \A j \in jobs : job[j] = "done"
                      /\ registry = {}
                      /\ \A i \in Ids : conn[i] \notin {"connecting", "open"}
    BY DEF StopLeavesNothing
  <2>1. Settled /\ registry = {} /\ \A t \in Tasks : task[t].pc \in {"rest", "reap"}
    BY DEF StopInv, At, Tasks
  <2>2. \A t \in Tasks : \A i : ~At(t, "connect") /\ ~Closing(t, i)
    BY <2>1 DEF At, Closing, AtLock
  <2>3. \A i \in Ids : conn[i] \notin {"connecting", "open"}
    BY <2>1, <2>2 DEF IInv, Connections
  <2> QED BY <2>1, <2>3 DEF Settled
<1> QED BY <1>1, <1>2, StepInductive, JobsInductive, StopInductive, PTL DEF ASpec
=============================================================================
