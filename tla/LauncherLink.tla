---------------------------- MODULE LauncherLink ----------------------------
(***************************************************************************)
(* firmware/PocketLauncher.cpp and PocketLink.cpp: the handheld's screens  *)
(* and the task that carries their HTTP requests to a companion.  The UI   *)
(* task runs the event handlers and task(); the worker runs alone, behind  *)
(* two queues of depth one.  The flag busy admits one request at a time,   *)
(* and a reply that left for an earlier screen is dropped by generation.   *)
(* The companions are the environment: they open, answer, forget and close *)
(* sessions and AI jobs.  Text, layout, SD files and the mesh page are     *)
(* left out, and the desktop picture is not followed here.                 *)
(***************************************************************************)
EXTENDS Naturals, Sequences

CONSTANTS
    Hosts,      \* saved host profiles
    GenSpace,   \* generation is taken modulo this (2^32)
    MaxIds,     \* bound: sessions and jobs the companions ever open
    Nil

ASSUME LauncherAssumption ==
    /\ GenSpace \in Nat \ {0, 1}
    /\ MaxIds \in Nat

Pages == {"HOME", "HOST", "AI", "TERM", "DESKTOP", "WIFI", "FILES", "MESH", "SETTINGS"}
Kinds == {"term", "desk", "ai"}
Starts == {"TERM_START", "DESK_START", "AI_START"}
Uses == {"TERM_READ", "TERM_WRITE", "DESK_FRAME", "DESK_INPUT", "AI_POLL"}
Actions == Starts \cup Uses \cup {"CLOSE", "CHECK"}
Ids == 1..MaxIds

VARIABLES
    page, screen,   \* the launcher's page; the "app" or the "stock" screen is loaded
    generation,
    selected,       \* the host profile
    session, job,   \* what the launcher holds of the companion, or Nil
    busy,
    requests,       \* queue of depth 1 to the worker
    working,        \* the request the worker has in hand, or Nil
    answer,         \* what the companion answered to it, or Nil
    results,        \* queue of depth 1 to the UI task
    open,           \* sessions and jobs alive on the companions
    issued,         \* issued[n]: what the companions opened n-th; history
    lost            \* a reply or a close was lost, or the handheld reset; history

ui == <<page, screen, generation, selected, session, job>>
link == <<busy, requests, working, answer, results>>
server == <<open, issued, lost>>
lvars == <<ui, link, server>>

LInit ==
    /\ page = "HOME" /\ screen = "app" /\ generation = 1
    /\ selected \in Hosts
    /\ session = Nil /\ job = Nil
    /\ busy = FALSE
    /\ requests = <<>> /\ working = Nil /\ answer = Nil /\ results = <<>>
    /\ open = {} /\ issued = <<>> /\ lost = FALSE

-----------------------------------------------------------------------------
\* request(): refused while busy.  A handler that asks twice gets the first.

Req(a, kind, n) ==
    [action |-> a, host |-> selected, kind |-> kind, id |-> n, gen |-> generation]

\* xQueueSend without waiting; busy only if the queue took it.
Submit(q) ==
    IF Len(requests) < 1
    THEN requests' = Append(requests, q) /\ busy' = TRUE
    ELSE UNCHANGED <<requests, busy>>

\* Mutant: request() does not look at busy.
AskAnyway(q) ==
    /\ IF q = Nil THEN UNCHANGED <<requests, busy>> ELSE Submit(q)
    /\ UNCHANGED <<working, answer, results>>

Ask(q) ==
    /\ IF busy \/ q = Nil THEN UNCHANGED <<requests, busy>> ELSE Submit(q)
    /\ UNCHANGED <<working, answer, results>>

\* Mutant: every session is closed as a terminal.
PathAlwaysTerm == "term"

\* The path of a DELETE for a session is told by the page.
PathOf == IF page = "DESKTOP" THEN "desk" ELSE "term"

\* What closeSession() asks, Nil if nothing is held.  It forgets both ids.
Closing ==
    CASE session # Nil -> Req("CLOSE", PathOf, session)
      [] session = Nil /\ job # Nil -> Req("CLOSE", "ai", job)
      [] OTHER -> Nil

Forget == session' = Nil /\ job' = Nil

\* What show() asks of the page it opens.  The desktop asks only if there is
\* memory for the picture.
Opening(p) ==
    CASE p = "TERM" -> {[Req("TERM_START", "term", Nil) EXCEPT !.gen = generation']}
      [] p = "DESKTOP" -> {[Req("DESK_START", "desk", Nil) EXCEPT !.gen = generation'], Nil}
      [] OTHER -> {Nil}

Show(p) ==
    /\ page' = p
    /\ screen' = "app"
    /\ generation' = (generation + 1) % GenSpace

-----------------------------------------------------------------------------
\* Event handlers of the UI task.  A handler that finds the launcher busy, and
\* looks, does nothing.

\* Mutant: handlers do not look at busy.
FreeAlways == TRUE

Free == ~busy

\* Closes what is held, then shows the page, which may ask for its own start.
Go(p) ==
    /\ Free
    /\ Show(p)
    /\ \E q \in Opening(p) : Ask(IF Closing # Nil THEN Closing ELSE q)
    /\ Forget
    /\ UNCHANGED <<selected, server>>

Navigate(p) ==
    /\ screen = "app"
    /\ \/ page = "HOME" /\ p # "HOME"
       \/ page = "SETTINGS" /\ p \in {"HOST", "WIFI"}
    /\ Go(p)

Back == screen = "app" /\ Go("HOME")

MeshUI ==
    /\ screen = "app"
    /\ page \in {"HOME", "SETTINGS"}
    /\ Free
    /\ Ask(Closing)
    /\ Forget
    /\ screen' = "stock"
    /\ UNCHANGED <<page, generation, selected, server>>

\* The Apps button of the stock screen, and the Wi-Fi page's own button: they
\* show a page without a look at busy or at what is held.
Reshow(p) ==
    /\ \/ screen = "stock" /\ p = "HOME"
       \/ screen = "app" /\ page = "WIFI" /\ p = "WIFI"
    /\ Show(p)
    /\ UNCHANGED <<selected, session, job, link, server>>

CycleHost(h) ==
    /\ screen = "app" /\ page = "HOST"
    /\ Free
    /\ selected' = h
    /\ Show("HOST")
    /\ UNCHANGED <<session, job, link, server>>

\* A handler that asks for one thing and changes nothing else of the UI.
Press(q) ==
    /\ screen = "app"
    /\ Ask(q)
    /\ UNCHANGED <<ui, server>>

CheckHost == page = "HOST" /\ Press(Req("CHECK", Nil, Nil))

TerminalControl == page = "TERM" /\ session # Nil /\ Press(Req("TERM_WRITE", "term", session))

DesktopInput ==
    /\ page = "DESKTOP" /\ session # Nil /\ Free
    /\ Press(Req("DESK_INPUT", "desk", session))

\* sendInput() with some text typed.
SendInput ==
    /\ screen = "app"
    /\ Free
    /\ \/ page = "AI" /\ job # Nil /\ Ask(Req("CLOSE", "ai", job)) /\ job' = Nil
       \/ page = "AI" /\ job = Nil /\ Ask(Req("AI_START", "ai", Nil)) /\ UNCHANGED job
       \/ page = "TERM" /\ session # Nil /\ Ask(Req("TERM_WRITE", "term", session)) /\ UNCHANGED job
    /\ UNCHANGED <<page, screen, generation, selected, session, server>>

\* task(), every 700 ms on the app screen.
Poll ==
    /\ Free
    /\ \/ page = "AI" /\ job # Nil /\ Press(Req("AI_POLL", "ai", job))
       \/ page = "TERM" /\ session # Nil /\ Press(Req("TERM_READ", "term", session))
       \/ page = "DESKTOP" /\ session # Nil /\ Press(Req("DESK_FRAME", "desk", session))

-----------------------------------------------------------------------------
\* receive(), from task() on every turn, on any screen.

\* A reply of the screen that is shown: what the launcher holds afterwards, and
\* what it asks at once.
Take(r) ==
    CASE r.status = "gone" ->
           Forget /\ UNCHANGED requests /\ busy' = FALSE
      [] r.status = "ok" /\ r.req.action = "AI_START" ->
           job' = r.id /\ UNCHANGED <<session, requests>> /\ busy' = FALSE
      [] r.status = "ok" /\ r.req.action \in {"TERM_START", "DESK_START"} ->
           session' = r.id /\ UNCHANGED <<job, requests>> /\ busy' = FALSE
      [] r.status = "ok" /\ r.req.action = "AI_POLL" ->
           /\ requests' = Append(requests, Req("CLOSE", "ai", job))
           /\ job' = Nil
           /\ busy' = TRUE
           /\ UNCHANGED session
      [] OTHER ->
           UNCHANGED <<session, job, requests>> /\ busy' = FALSE

Current(r) == r.req.gen = generation

\* Mutant: a stale reply is dropped before busy is cleared.
ReceiveCurrentOnly ==
    /\ results # <<>>
    /\ results' = Tail(results)
    /\ IF Current(Head(results))
       THEN Take(Head(results))
       ELSE UNCHANGED <<busy, session, job, requests>>
    /\ UNCHANGED <<page, screen, generation, selected, working, answer, server>>

Receive ==
    /\ results # <<>>
    /\ results' = Tail(results)
    /\ IF Current(Head(results))
       THEN Take(Head(results))
       ELSE busy' = FALSE /\ UNCHANGED <<session, job, requests>>
    /\ UNCHANGED <<page, screen, generation, selected, working, answer, server>>

-----------------------------------------------------------------------------
\* The worker, and the companion it talks to.

WorkerTake ==
    /\ working = Nil
    /\ requests # <<>>
    /\ working' = Head(requests)
    /\ requests' = Tail(requests)
    /\ UNCHANGED <<ui, busy, answer, results, server>>

Target == [host |-> working.host, kind |-> working.kind, id |-> working.id]

Answers(status, n) == answer' = [req |-> working, status |-> status, id |-> n]

\* A start may open a session or job; the id may or may not come back.
Opens ==
    /\ working.action \in Starts
    /\ Len(issued) < MaxIds
    /\ LET n == Len(issued) + 1
           s == [host |-> working.host, kind |-> working.kind, id |-> n]
       IN  /\ open' = open \cup {s}
           /\ issued' = Append(issued, s)
           /\ \/ Answers("ok", n) /\ UNCHANGED lost
              \/ Answers("error", Nil) /\ lost' = TRUE

\* A request that names a session or job the companion does not have gets 404,
\* except that closing one gets 204 all the same.  An AI poll is answered 200
\* when the job is done and 202 before.
Replies ==
    /\ working.action \in Uses \cup {"CLOSE"}
    /\ CASE Target \in open -> Answers("ok", Nil) \/ (working.action = "AI_POLL" /\ Answers("pending", Nil))
         [] Target \notin open /\ working.action \in Uses -> Answers("gone", Nil)
         [] Target \notin open /\ working.action = "CLOSE" -> Answers("ok", Nil)
    /\ open' = IF working.action = "CLOSE" THEN open \ {Target} ELSE open
    /\ UNCHANGED <<issued, lost>>

\* No Wi-Fi, no connection, a refusal, a time-out, a reply too long.
Fails ==
    /\ Answers("error", Nil)
    /\ lost' = (lost \/ working.action = "CLOSE")
    /\ UNCHANGED <<open, issued>>

Checks == working.action = "CHECK" /\ Answers("ok", Nil) /\ UNCHANGED server

WorkerSend ==
    /\ working # Nil /\ answer = Nil
    /\ Opens \/ Replies \/ Fails \/ Checks
    /\ UNCHANGED <<ui, busy, requests, working, results>>

\* xQueueSend with portMAX_DELAY: the worker waits for room.
WorkerReply ==
    /\ answer # Nil
    /\ Len(results) < 1
    /\ results' = Append(results, answer)
    /\ working' = Nil /\ answer' = Nil
    /\ UNCHANGED <<ui, busy, requests, server>>

\* The companion forgets something idle.
Reap ==
    /\ \E s \in open : open' = open \ {s}
    /\ UNCHANGED <<ui, link, issued, lost>>

\* applyWifi() restarts the handheld, or it loses power.
Reset ==
    /\ page' = "HOME" /\ screen' = "app" /\ generation' = 1
    /\ session' = Nil /\ job' = Nil
    /\ busy' = FALSE
    /\ requests' = <<>> /\ working' = Nil /\ answer' = Nil /\ results' = <<>>
    /\ lost' = TRUE
    /\ UNCHANGED <<selected, open, issued>>

LNext ==
    \/ \E p \in Pages : Navigate(p) \/ Reshow(p)
    \/ Back \/ MeshUI \/ CheckHost \/ TerminalControl \/ DesktopInput \/ SendInput
    \/ \E h \in Hosts : CycleHost(h)
    \/ Poll \/ Receive
    \/ WorkerTake \/ WorkerSend \/ WorkerReply
    \/ Reap \/ Reset

LSpec == LInit /\ [][LNext]_lvars

\* Both tasks are scheduled, and every HTTP exchange ends: connecting and
\* reading have time limits.
LFairness ==
    /\ WF_lvars(Receive)
    /\ WF_lvars(WorkerTake)
    /\ WF_lvars(WorkerSend)
    /\ WF_lvars(WorkerReply)

LFairSpec == LSpec /\ LFairness

-----------------------------------------------------------------------------
Requests == [action : Actions, host : Hosts, kind : Kinds \cup {Nil}, id : Ids \cup {Nil},
             gen : 0..(GenSpace - 1)]

Results == [req : Requests, status : {"ok", "pending", "gone", "error"}, id : Ids \cup {Nil}]

ASSUME NilAssumption == Nil \notin Requests /\ Nil \notin Results /\ Nil \notin Ids

\* The types of the launcher's and the link's state.
LTypeOK ==
    /\ page \in Pages /\ screen \in {"app", "stock"}
    /\ generation \in 0..(GenSpace - 1)
    /\ selected \in Hosts
    /\ session \in Ids \cup {Nil} /\ job \in Ids \cup {Nil}
    /\ busy \in BOOLEAN
    /\ requests \in Seq(Requests) /\ results \in Seq(Results)
    /\ working \in Requests \cup {Nil} /\ answer \in Results \cup {Nil}

\* One request at a time, across the two tasks: while busy it is in exactly one
\* of the request queue, the worker and the result queue, and otherwise in
\* none.  So no queue is ever full when something is put in it: submit() never
\* fails and the worker never blocks the link for good.
OneInFlight ==
    /\ requests # <<>> => busy /\ working = Nil /\ results = <<>> /\ Len(requests) = 1
    /\ working # Nil => busy /\ results = <<>>
    /\ results # <<>> => busy /\ Len(results) = 1
    /\ busy => requests # <<>> \/ working # Nil \/ results # <<>>
    /\ answer # Nil => working # Nil /\ answer.req = working

\* Everything under way in the link, with the answer if there is one.
UnderWay ==
    {requests[i] : i \in 1..Len(requests)}
        \cup (IF working # Nil THEN {working} ELSE {})
        \cup {results[i].req : i \in 1..Len(results)}

\* What names a session or job names it at the host and under the path where it
\* was opened, though the launcher takes the host from the selected profile and
\* the path from the page at the time it asks.
RightAddress ==
    \A q \in UnderWay :
        q.id # Nil => issued[q.id] = [host |-> q.host, kind |-> q.kind, id |-> q.id]

\* Nothing is left behind on a companion by leaving a page, however presses,
\* polls and replies fall: unless a reply or a close was lost, each live
\* session or job is held, or its id is on the way in a reply that will be
\* taken, or its close is on the way.
NothingLeftBehind ==
    ~lost => \A s \in open :
        \/ s.id \in {session, job}
        \/ answer # Nil /\ answer.id = s.id /\ Current(answer)
        \/ \E i \in 1..Len(results) : results[i].id = s.id /\ Current(results[i])
        \/ \E q \in UnderWay : q.action = "CLOSE" /\ q.id = s.id

\* Every request is answered, so the screen does not stay locked.
LinkFrees == busy ~> ~busy
=============================================================================
