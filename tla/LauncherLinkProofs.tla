------------------------- MODULE LauncherLinkProofs -------------------------
(***************************************************************************)
(* Proofs about LauncherLink: its types, and that one request at a time    *)
(* passes from the UI task through the worker and back, for any number of  *)
(* hosts, sessions and jobs.                                               *)
(*                                                                         *)
(* Handlers ask through Ask only, so the invariant is split: what the      *)
(* screens hold (UiType), what the companions opened (IssuedType) and the  *)
(* link (LinkInv).  AskKeeps is the step all handlers share.               *)
(*                                                                         *)
(* A second invariant, AInv, says where requests go and that nothing is    *)
(* left behind: it ties what is held to the page, and each request and     *)
(* reply under way to what is held.                                        *)
(***************************************************************************)
EXTENDS LauncherLink, SequenceTheorems, TLAPS

UiType ==
    /\ page \in Pages /\ screen \in {"app", "stock"}
    /\ generation \in 0..(GenSpace - 1)
    /\ selected \in Hosts
    /\ session \in Ids \cup {Nil} /\ job \in Ids \cup {Nil}

IssuedType == issued \in Seq([host : Hosts, kind : Kinds \cup {Nil}, id : Ids])

LinkType ==
    /\ busy \in BOOLEAN
    /\ requests \in Seq(Requests) /\ results \in Seq(Results)
    /\ working \in Requests \cup {Nil} /\ answer \in Results \cup {Nil}

LinkInv == LinkType /\ OneInFlight

IInv == UiType /\ IssuedType /\ LinkInv

USE LauncherAssumption, NilAssumption

\* A request made of what the launcher holds is well-typed.
LEMMA ReqType ==
    ASSUME UiType, NEW a \in Actions, NEW k \in Kinds \cup {Nil}, NEW n \in Ids \cup {Nil}
    PROVE  Req(a, k, n) \in Requests
BY DEF UiType, Req, Requests

\* So is what closing asks for.
LEMMA ClosingType ==
    ASSUME UiType
    PROVE  Closing \in Requests \cup {Nil}
<1>1. PathOf \in Kinds BY DEF PathOf, Kinds
<1>2. "CLOSE" \in Actions /\ "ai" \in Kinds BY DEF Actions, Kinds
<1>3. Req("CLOSE", PathOf, session) \in Requests BY <1>1, <1>2, ReqType DEF UiType
<1>4. Req("CLOSE", "ai", job) \in Requests BY <1>2, ReqType DEF UiType
<1>5. CASE session # Nil BY <1>5, <1>3 DEF Closing
<1>6. CASE session = Nil /\ job # Nil BY <1>6, <1>4 DEF Closing
<1>7. CASE session = Nil /\ job = Nil BY <1>7 DEF Closing
<1> QED BY <1>5, <1>6, <1>7

\* And what a page asks for when it opens.
LEMMA OpeningType ==
    ASSUME UiType, NEW p \in Pages, generation' \in 0..(GenSpace - 1), NEW q \in Opening(p)
    PROVE  q \in Requests \cup {Nil}
<1>1. Req("TERM_START", "term", Nil) \in Requests
  BY ReqType DEF Actions, Starts, Kinds
<1>2. Req("DESK_START", "desk", Nil) \in Requests
  BY ReqType DEF Actions, Starts, Kinds
<1>3. [Req("TERM_START", "term", Nil) EXCEPT !.gen = generation'] \in Requests
  BY <1>1 DEF Requests
<1>4. [Req("DESK_START", "desk", Nil) EXCEPT !.gen = generation'] \in Requests
  BY <1>2 DEF Requests
<1>5. CASE p = "TERM" BY <1>5, <1>3 DEF Opening
<1>6. CASE p = "DESKTOP" BY <1>6, <1>4 DEF Opening
<1>7. CASE p \notin {"TERM", "DESKTOP"} BY <1>7 DEF Opening
<1> QED BY <1>5, <1>6, <1>7

\* Asking keeps the link's invariant: a request enters only an idle link.
LEMMA AskKeeps ==
    ASSUME LinkInv, NEW q \in Requests \cup {Nil}, Ask(q)
    PROVE  LinkInv'
<1> USE DEF LinkInv, LinkType
<1>1. CASE busy \/ q = Nil
  BY <1>1 DEF Ask, OneInFlight
<1>2. CASE ~busy /\ q # Nil
  <2>1. requests = <<>> /\ working = Nil /\ results = <<>> /\ answer = Nil
    BY <1>2 DEF OneInFlight
  <2>2. requests' = Append(requests, q) /\ busy' = TRUE
    BY <1>2, <2>1 DEF Ask, Submit
  <2>3. requests' \in Seq(Requests) /\ Len(requests') = 1
    BY <1>2, <2>1, <2>2
  <2>4. UNCHANGED <<working, answer, results>>
    BY DEF Ask
  <2> QED BY <2>1, <2>2, <2>3, <2>4 DEF OneInFlight
<1> QED BY <1>1, <1>2

\* Showing a page keeps the types of the screens.
LEMMA ShowKeeps ==
    ASSUME UiType, NEW p \in Pages, Show(p)
    PROVE  page' \in Pages /\ screen' \in {"app", "stock"} /\ generation' \in 0..(GenSpace - 1)
<1>1. generation + 1 \in Nat BY DEF UiType
<1>2. (generation + 1) % GenSpace \in 0..(GenSpace - 1) BY <1>1
<1> QED BY <1>2 DEF Show

-----------------------------------------------------------------------------
\* Leaving and opening a page.
LEMMA GoKeeps ==
    ASSUME IInv, NEW p \in Pages, Go(p)
    PROVE  IInv'
<1> USE DEF IInv
<1>1. page' \in Pages /\ screen' \in {"app", "stock"} /\ generation' \in 0..(GenSpace - 1)
  BY ShowKeeps DEF Go
<1>2. UiType'
  BY <1>1 DEF Go, Forget, UiType
<1>3. PICK q \in Opening(p) : Ask(IF Closing # Nil THEN Closing ELSE q)
  BY DEF Go
<1>4. (IF Closing # Nil THEN Closing ELSE q) \in Requests \cup {Nil}
  BY <1>1, ClosingType, OpeningType
<1>5. LinkInv'
  BY <1>3, <1>4, AskKeeps
<1>6. IssuedType'
  BY DEF Go, server, IssuedType
<1> QED BY <1>2, <1>5, <1>6

LEMMA MeshUIKeeps ==
    ASSUME IInv, MeshUI
    PROVE  IInv'
<1> USE DEF IInv
<1>1. UiType' BY DEF MeshUI, Forget, UiType
<1>2. LinkInv' BY ClosingType, AskKeeps DEF MeshUI
<1>3. IssuedType' BY DEF MeshUI, server, IssuedType
<1> QED BY <1>1, <1>2, <1>3

\* A handler that shows a page and leaves the link alone.
LEMMA ReshowKeeps ==
    ASSUME IInv, NEW p \in Pages, Reshow(p)
    PROVE  IInv'
<1> USE DEF IInv
<1>1. UiType' BY ShowKeeps DEF Reshow, UiType
<1>2. LinkInv' BY DEF Reshow, link, LinkInv, LinkType, OneInFlight
<1>3. IssuedType' BY DEF Reshow, server, IssuedType
<1> QED BY <1>1, <1>2, <1>3

LEMMA CycleHostKeeps ==
    ASSUME IInv, NEW h \in Hosts, CycleHost(h)
    PROVE  IInv'
<1> USE DEF IInv
<1>1. "HOST" \in Pages BY DEF Pages
<1>2. UiType' BY <1>1, ShowKeeps DEF CycleHost, UiType
<1>3. LinkInv' BY DEF CycleHost, link, LinkInv, LinkType, OneInFlight
<1>4. IssuedType' BY DEF CycleHost, server, IssuedType
<1> QED BY <1>2, <1>3, <1>4

\* A handler that only asks.
LEMMA PressKeeps ==
    ASSUME IInv, NEW a \in Actions, NEW k \in Kinds \cup {Nil}, NEW n \in Ids \cup {Nil},
           Press(Req(a, k, n))
    PROVE  IInv'
<1> USE DEF IInv
<1>1. UiType' BY DEF Press, ui, UiType
<1>2. LinkInv' BY ReqType, AskKeeps DEF Press
<1>3. IssuedType' BY DEF Press, server, IssuedType
<1> QED BY <1>1, <1>2, <1>3

LEMMA SendInputKeeps ==
    ASSUME IInv, SendInput
    PROVE  IInv'
<1> USE DEF IInv
<1>1. UiType' BY DEF SendInput, UiType
<1>2. \E q \in Requests : Ask(q)
  <2>1. {"CLOSE", "AI_START", "TERM_WRITE"} \subseteq Actions /\ {"ai", "term"} \subseteq Kinds
    BY DEF Actions, Starts, Uses, Kinds
  <2>2. /\ Req("CLOSE", "ai", job) \in Requests
        /\ Req("AI_START", "ai", Nil) \in Requests
        /\ Req("TERM_WRITE", "term", session) \in Requests
    BY <2>1, ReqType DEF UiType
  <2> QED BY <2>2 DEF SendInput
<1>3. LinkInv' BY <1>2, AskKeeps
<1>4. IssuedType' BY DEF SendInput, server, IssuedType
<1> QED BY <1>1, <1>3, <1>4

LEMMA PollKeeps ==
    ASSUME IInv, Poll
    PROVE  IInv'
<1>1. {"AI_POLL", "TERM_READ", "DESK_FRAME"} \subseteq Actions /\ Kinds = {"ai", "term", "desk"}
  BY DEF Actions, Uses, Kinds
<1>2. session \in Ids \cup {Nil} /\ job \in Ids \cup {Nil}
  BY DEF IInv, UiType
<1> QED BY <1>1, <1>2, PressKeeps DEF Poll

-----------------------------------------------------------------------------
\* The UI task takes a reply: the link is idle, but for a request the reply
\* itself gave rise to.
LEMMA ReceiveKeeps ==
    ASSUME IInv, Receive
    PROVE  IInv'
<1> USE DEF IInv, LinkInv, LinkType
<1>1. /\ Len(results) = 1 /\ requests = <<>> /\ working = Nil
      /\ Head(results) \in Results
  BY DEF Receive, OneInFlight
<1>2. results' = <<>> /\ UNCHANGED <<page, screen, generation, selected, working, answer, server>>
  <2>1. Tail(results) \in Seq(Results) /\ Len(Tail(results)) = 0
    BY <1>1, HeadTailProperties DEF Receive
  <2>2. Tail(results) = <<>>
    BY <2>1, EmptySeq
  <2> QED BY <2>2 DEF Receive
<1>3. answer = Nil
  BY <1>1 DEF OneInFlight
<1>4. Req("CLOSE", "ai", job) \in Requests
  BY ReqType DEF UiType, Actions, Kinds
<1>5. /\ session' \in Ids \cup {Nil} /\ job' \in Ids \cup {Nil}
      /\ \/ requests' = <<>> /\ busy' = FALSE
         \/ requests' = <<Req("CLOSE", "ai", job)>> /\ busy' = TRUE
  <2>1. CASE ~Current(Head(results))
    BY <2>1, <1>1 DEF Receive, UiType
  <2>2. CASE Current(Head(results))
    <3>1. Take(Head(results)) BY <2>2 DEF Receive
    <3>2. Head(results).id \in Ids \cup {Nil} BY <1>1 DEF Results
    <3> QED BY <3>1, <3>2, <1>1 DEF Take, Forget, UiType
  <2> QED BY <2>1, <2>2
<1>6. requests' \in Seq(Requests) /\ Len(requests') <= 1 /\ busy' = (requests' # <<>>)
  <2>1. CASE requests' = <<>> /\ busy' = FALSE
    <3>1. <<>> \in Seq(Requests) /\ Len(<<>>) = 0
      OBVIOUS
    <3>2. requests' \in Seq(Requests) /\ Len(requests') <= 1
      BY <2>1, <3>1
    <3> QED BY <2>1, <3>2, Zenon
  <2>2. CASE requests' = <<Req("CLOSE", "ai", job)>> /\ busy' = TRUE
    <3> DEFINE q == Req("CLOSE", "ai", job)
    <3>1. q \in Requests /\ requests' = <<q>>
      BY <1>4, <2>2
    <3> HIDE DEF q
    <3>2. <<q>> \in Seq(Requests) /\ Len(<<q>>) = 1 /\ <<q>> # <<>>
      BY <3>1
    <3>3. requests' \in Seq(Requests) /\ Len(requests') <= 1 /\ requests' # <<>>
      BY <3>1, <3>2
    <3> QED BY <2>2, <3>3, Zenon
  <2> QED BY <1>5, <2>1, <2>2
<1>7. UiType' BY <1>2, <1>5 DEF UiType
<1>8. IssuedType' BY <1>2 DEF server, IssuedType
<1>9. LinkInv'
  BY <1>1, <1>2, <1>3, <1>5, <1>6 DEF OneInFlight
<1> QED BY <1>7, <1>8, <1>9

\* The worker takes the request.
LEMMA WorkerTakeKeeps ==
    ASSUME IInv, WorkerTake
    PROVE  IInv'
<1> USE DEF IInv, LinkInv, LinkType
<1>1. busy /\ results = <<>> /\ Len(requests) = 1 /\ answer = Nil
  BY DEF WorkerTake, OneInFlight
<1>2. Head(requests) \in Requests /\ requests' = <<>>
  <2>1. Tail(requests) \in Seq(Requests) /\ Len(Tail(requests)) = 0
    BY <1>1, HeadTailProperties DEF WorkerTake
  <2>2. Tail(requests) = <<>>
    BY <2>1, EmptySeq
  <2> QED BY <2>2, <1>1, HeadTailProperties DEF WorkerTake
<1>3. LinkInv' BY <1>1, <1>2 DEF WorkerTake, OneInFlight
<1>4. UiType' BY DEF WorkerTake, ui, UiType
<1>5. IssuedType' BY DEF WorkerTake, server, IssuedType
<1> QED BY <1>3, <1>4, <1>5

\* The exchange with the companion: an answer to the request in hand.
LEMMA WorkerSendKeeps ==
    ASSUME IInv, WorkerSend
    PROVE  IInv'
<1> USE DEF IInv, LinkInv, LinkType
<1>1. working \in Requests /\ working # Nil /\ answer = Nil
  BY DEF WorkerSend
<1>2. issued \in Seq([host : Hosts, kind : Kinds \cup {Nil}, id : Ids])
  BY DEF IssuedType
<1>3. PICK status \in {"ok", "pending", "gone", "error"}, n \in Ids \cup {Nil} :
         answer' = [req |-> working, status |-> status, id |-> n]
  <2>1. CASE Opens
    <3>1. Len(issued) + 1 \in Ids
      BY <1>2, <2>1 DEF Opens, Ids
    <3> QED BY <2>1, <3>1 DEF Opens, Answers
  <2>2. CASE Replies BY <2>2 DEF Replies, Answers
  <2>3. CASE Fails \/ Checks BY <2>3 DEF Fails, Checks, Answers
  <2> QED BY <2>1, <2>2, <2>3 DEF WorkerSend
<1>4. answer' \in Results /\ answer'.req = working
  BY <1>1, <1>3 DEF Results
<1>5. IssuedType'
  <2>1. CASE Opens
    <3> DEFINE s == [host |-> working.host, kind |-> working.kind, id |-> Len(issued) + 1]
    <3>1. Len(issued) + 1 \in Ids
      BY <1>2, <2>1 DEF Opens, Ids
    <3>2. s \in [host : Hosts, kind : Kinds \cup {Nil}, id : Ids]
      BY <1>1, <3>1 DEF Requests
    <3>3. issued' = Append(issued, s)
      BY <2>1 DEF Opens
    <3> HIDE DEF s
    <3> QED BY <1>2, <3>2, <3>3 DEF IssuedType
  <2>2. CASE Replies \/ Fails \/ Checks
    BY <2>2 DEF Replies, Fails, Checks, server, IssuedType
  <2> QED BY <2>1, <2>2 DEF WorkerSend
<1>6. UiType' BY DEF WorkerSend, ui, UiType
<1>7. LinkInv'
  BY <1>1, <1>4 DEF WorkerSend, OneInFlight
<1> QED BY <1>5, <1>6, <1>7

\* The worker never finds the queue of results full.
LEMMA WorkerReplyKeeps ==
    ASSUME IInv, WorkerReply
    PROVE  IInv'
<1> USE DEF IInv, LinkInv, LinkType
<1>1. answer \in Results /\ working # Nil /\ busy /\ results = <<>> /\ requests = <<>>
  BY DEF WorkerReply, OneInFlight
<1>2. results' \in Seq(Results) /\ Len(results') = 1 /\ results' # <<>>
  BY <1>1 DEF WorkerReply
<1>3. UiType' BY DEF WorkerReply, ui, UiType
<1>4. IssuedType' BY DEF WorkerReply, server, IssuedType
<1>5. LinkInv' BY <1>1, <1>2 DEF WorkerReply, OneInFlight
<1> QED BY <1>3, <1>4, <1>5

LEMMA ResetKeeps ==
    ASSUME IInv, Reset
    PROVE  IInv'
<1>1. UiType'
  BY DEF IInv, Reset, UiType, Pages
<1>2. LinkInv'
  <2>1. <<>> \in Seq(Requests) /\ <<>> \in Seq(Results)
    OBVIOUS
  <2> QED BY <2>1, Zenon DEF Reset, LinkInv, LinkType, OneInFlight
<1>3. IssuedType' BY DEF IInv, Reset, IssuedType
<1> QED BY <1>1, <1>2, <1>3 DEF IInv

-----------------------------------------------------------------------------
\* The invariant holds when the handheld starts.
LEMMA InitIInv == LInit => IInv
<1> SUFFICES ASSUME LInit PROVE IInv
  OBVIOUS
<1>1. UiType BY DEF LInit, UiType, Pages
<1>2. LinkInv
  <2>1. <<>> \in Seq(Requests) /\ <<>> \in Seq(Results)
    OBVIOUS
  <2> QED BY <2>1, Zenon DEF LInit, LinkInv, LinkType, OneInFlight
<1>3. IssuedType BY DEF LInit, IssuedType
<1> QED BY <1>1, <1>2, <1>3 DEF IInv

\* Every step keeps it.
LEMMA NextIInv == IInv /\ [LNext]_lvars => IInv'
<1> SUFFICES ASSUME IInv, [LNext]_lvars PROVE IInv'
  OBVIOUS
<1>1. ASSUME NEW p \in Pages, Navigate(p) PROVE IInv'
  BY <1>1, GoKeeps DEF Navigate
<1>2. ASSUME NEW p \in Pages, Reshow(p) PROVE IInv'
  BY <1>2, ReshowKeeps
<1>3. CASE Back
  BY <1>3, GoKeeps DEF Back, Pages
<1>4. CASE MeshUI
  BY <1>4, MeshUIKeeps
<1>5. CASE CheckHost
  BY <1>5, PressKeeps DEF CheckHost, Actions
<1>6. CASE TerminalControl \/ DesktopInput
  <2>1. session \in Ids \cup {Nil} BY DEF IInv, UiType
  <2>2. {"TERM_WRITE", "DESK_INPUT"} \subseteq Actions /\ {"term", "desk"} \subseteq Kinds
    BY DEF Actions, Uses, Kinds
  <2> QED BY <1>6, <2>1, <2>2, PressKeeps DEF TerminalControl, DesktopInput
<1>7. CASE SendInput
  BY <1>7, SendInputKeeps
<1>8. ASSUME NEW h \in Hosts, CycleHost(h) PROVE IInv'
  BY <1>8, CycleHostKeeps
<1>9. CASE Poll
  BY <1>9, PollKeeps
<1>10. CASE Receive
  BY <1>10, ReceiveKeeps
<1>11. CASE WorkerTake \/ WorkerSend \/ WorkerReply
  BY <1>11, WorkerTakeKeeps, WorkerSendKeeps, WorkerReplyKeeps
<1>12. CASE Reap
  BY <1>12 DEF Reap, IInv, ui, link, UiType, IssuedType, LinkInv, LinkType, OneInFlight
<1>13. CASE Reset
  BY <1>13, ResetKeeps
<1>14. CASE UNCHANGED lvars
  BY <1>14 DEF lvars, IInv, ui, link, server, UiType, IssuedType, LinkInv, LinkType, OneInFlight
<1> QED
  BY <1>1, <1>2, <1>3, <1>4, <1>5, <1>6, <1>7, <1>8, <1>9, <1>10, <1>11, <1>12, <1>13, <1>14
  DEF LNext

\* The launcher's and the link's state is well-typed.
THEOREM LinkTypeCorrect == LSpec => []LTypeOK
<1>1. IInv => LTypeOK
  BY DEF IInv, UiType, LinkInv, LinkType, LTypeOK
<1> QED BY <1>1, InitIInv, NextIInv, PTL DEF LSpec

\* One request at a time across the UI task, the worker and the two queues:
\* no queue is full when something is put in it.
THEOREM LinkCarriesOne == LSpec => []OneInFlight
<1>1. IInv => OneInFlight
  BY DEF IInv, LinkInv
<1> QED BY <1>1, InitIInv, NextIInv, PTL DEF LSpec

-----------------------------------------------------------------------------
\* Where requests go, and what is left behind.  Who is at which page tells what
\* the launcher holds: so a request that names something names it rightly, and a
\* reply that brings an id still finds the screen that asked for it.

PageOf(a) ==
    CASE a = "TERM_START" -> "TERM" [] a = "DESK_START" -> "DESKTOP" [] a = "AI_START" -> "AI"

KindOf(a) ==
    CASE a = "TERM_START" -> "term" [] a = "DESK_START" -> "desk" [] a = "AI_START" -> "ai"

\* n was opened at host h under path k.
Known(n, h, k) == n \in 1..Len(issued) /\ issued[n] = [host |-> h, kind |-> k, id |-> n]

Held ==
    /\ session # Nil => page \in {"TERM", "DESKTOP"} /\ Known(session, selected, PathOf)
    /\ job # Nil => page = "AI" /\ Known(job, selected, "ai")
    /\ screen = "stock" => page \in {"HOME", "SETTINGS"}

OpenKnown == \A s \in open : s.id \in 1..Len(issued) /\ s = issued[s.id]

\* A request under way: one that opens something finds its screen as it left it,
\* one that uses something uses what is held.
Proper(q) ==
    /\ q.id # Nil => Known(q.id, q.host, q.kind)
    /\ q.action \in Starts =>
          /\ q.host = selected /\ q.gen = generation
          /\ page = PageOf(q.action) /\ q.kind = KindOf(q.action)
          /\ session = Nil /\ job = Nil
    /\ q.action \in Uses => q.id # Nil /\ q.id \in {session, job}
    /\ q.action = "AI_POLL" => q.id = job

\* The answers on their way to the screen.
Told == (IF answer # Nil THEN {answer} ELSE {}) \cup {results[i] : i \in 1..Len(results)}

Gone(n) == \A s \in open : s.id # n

ProperReply(r) ==
    /\ r.id # Nil => r.req.action \in Starts /\ r.status = "ok" /\ Known(r.id, r.req.host, r.req.kind)
    /\ r.status = "ok" /\ r.req.action \in Starts => r.id # Nil
    /\ r.status = "gone" => r.req.action \in Uses /\ Gone(r.req.id)
    /\ r.req.action = "CLOSE" /\ ~lost => Gone(r.req.id)

Way == \A q \in UnderWay : Proper(q)

Replied == \A r \in Told : r.req \in UnderWay /\ ProperReply(r)

Minded(n) ==
    \/ n \in {session, job}
    \/ \E r \in Told : r.id = n /\ Current(r)
    \/ \E q \in UnderWay : q.action = "CLOSE" /\ q.id = n

AllMinded == ~lost => \A s \in open : Minded(s.id)

AInv == Held /\ OpenKnown /\ Way /\ Replied /\ AllMinded

\* What is under way, wherever the one request is.
WayIs ==
    /\ requests # <<>> => UnderWay = {requests[1]} /\ Told = {}
    /\ working # Nil => UnderWay = {working} /\ Told = IF answer # Nil THEN {answer} ELSE {}
    /\ results # <<>> => UnderWay = {results[1].req} /\ Told = {results[1]}
    /\ ~busy => UnderWay = {} /\ Told = {}

LEMMA OneUnderWay == LinkInv => WayIs
<1> SUFFICES ASSUME LinkInv PROVE WayIs
  OBVIOUS
<1> USE DEF LinkInv, LinkType, OneInFlight
<1>1. CASE requests # <<>>
  <2>1. Len(requests) = 1 /\ working = Nil /\ Len(results) = 0 /\ answer = Nil /\ busy
    BY <1>1
  <2> QED BY <1>1, <2>1 DEF WayIs, UnderWay, Told
<1>2. CASE working # Nil
  <2>1. Len(requests) = 0 /\ Len(results) = 0 /\ busy
    BY <1>2
  <2> QED BY <1>2, <2>1 DEF WayIs, UnderWay, Told
<1>3. CASE results # <<>>
  <2>1. Len(requests) = 0 /\ working = Nil /\ Len(results) = 1 /\ answer = Nil /\ busy
    BY <1>3
  <2> QED BY <1>3, <2>1 DEF WayIs, UnderWay, Told
<1>4. CASE requests = <<>> /\ working = Nil /\ results = <<>>
  <2>1. Len(requests) = 0 /\ working = Nil /\ Len(results) = 0 /\ answer = Nil
    BY <1>4
  <2> QED BY <1>4, <2>1 DEF WayIs, UnderWay, Told
<1> QED BY <1>1, <1>2, <1>3, <1>4

LEMMA OneUnderWayNext == LinkInv' => WayIs'
BY OneUnderWay, PTL

\* Asking puts a request into an idle link, or changes nothing of it.
LEMMA AskedWay ==
    ASSUME LinkInv, NEW q \in Requests \cup {Nil}, Ask(q)
    PROVE  /\ Told' = Told
           /\ busy => UnderWay' = UnderWay
           /\ ~busy => UnderWay = {} /\ Told = {} /\ UnderWay' = IF q = Nil THEN {} ELSE {q}
<1>1. WayIs
  BY OneUnderWay
<1>2. UNCHANGED <<working, answer, results>>
  BY DEF Ask
<1>3. Told' = Told
  BY <1>2 DEF Told
<1>4. CASE busy \/ q = Nil
  <2>1. UNCHANGED requests
    BY <1>4 DEF Ask
  <2>2. UnderWay' = UnderWay
    BY <1>2, <2>1 DEF UnderWay
  <2> QED BY <1>1, <1>3, <1>4, <2>2 DEF WayIs
<1>5. CASE ~busy /\ q # Nil
  <2>1. Len(requests) = 0 /\ requests = <<>> /\ requests' = Append(requests, q)
    BY <1>5 DEF Ask, Submit, LinkInv, LinkType, OneInFlight
  <2>2. Len(requests') = 1 /\ requests'[1] = q
    BY <2>1
  <2>3. LinkInv'
    BY AskKeeps
  <2>4. WayIs'
    BY <2>3, OneUnderWayNext
  <2>5. requests' # <<>>
    BY <2>2
  <2> QED BY <1>1, <1>3, <1>5, <2>2, <2>4, <2>5 DEF WayIs
<1> QED BY <1>4, <1>5

\* What is open has an id, which is not Nil.
LEMMA OpenIds ==
    ASSUME IssuedType, OpenKnown, NEW s \in open
    PROVE  s.id \in Ids /\ s.id # Nil /\ s.id \in 1..Len(issued)
<1>1. s.id \in 1..Len(issued) /\ s = issued[s.id]
  BY DEF OpenKnown
<1>2. \A n \in 1..Len(issued) : issued[n] \in [host : Hosts, kind : Kinds \cup {Nil}, id : Ids]
  <2> DEFINE Opened == [host : Hosts, kind : Kinds \cup {Nil}, id : Ids]
  <2>1. issued \in Seq(Opened)
    BY DEF IssuedType
  <2> HIDE DEF Opened
  <2>2. \A n \in 1..Len(issued) : issued[n] \in Opened
    BY <2>1, ElementOfSeq
  <2> QED BY <2>2 DEF Opened
<1>3. PICK n \in 1..Len(issued) : n = s.id
  BY <1>1
<1>4. issued[n].id \in Ids
  BY <1>2
<1> QED BY <1>1, <1>3, <1>4

\* With an idle link, what is open is held, unless something was lost.
LEMMA IdleHolds ==
    ASSUME IInv, AInv, ~busy
    PROVE  /\ UnderWay = {} /\ Told = {}
           /\ ~lost => \A s \in open : s.id # Nil /\ s.id \in {session, job}
<1>1. UnderWay = {} /\ Told = {}
  BY OneUnderWay DEF IInv, WayIs
<1>2. \A s \in open : s.id \in Ids /\ s.id # Nil
  BY OpenIds DEF IInv, AInv
<1> QED BY <1>1, <1>2 DEF AInv, AllMinded, Minded

\* Leaving a page: the one thing held there is closed.
LEMMA GoMinds ==
    ASSUME IInv, AInv, NEW p \in Pages, Go(p)
    PROVE  AInv'
<1> USE DEF AInv
<1>1. /\ ~busy /\ Show(p) /\ session' = Nil /\ job' = Nil
      /\ UNCHANGED <<selected, open, issued, lost>>
  BY DEF Go, Free, Forget, server
<1>2. generation' \in 0..(GenSpace - 1)
  BY <1>1, ShowKeeps DEF IInv
<1>3. PICK o \in Opening(p) : Ask(IF Closing # Nil THEN Closing ELSE o)
  BY DEF Go
<1>4. PICK c \in Requests \cup {Nil} : c = IF Closing # Nil THEN Closing ELSE o
  BY <1>2, ClosingType, OpeningType DEF IInv
<1>5. Told' = {} /\ UnderWay' = IF c = Nil THEN {} ELSE {c}
  BY <1>1, <1>3, <1>4, AskedWay DEF IInv
<1>6. Held'
  BY <1>1 DEF Held, Show
<1>7. OpenKnown'
  BY <1>1 DEF OpenKnown
<1>8. ASSUME c # Nil PROVE Proper(c)'
  <2>1. CASE Closing # Nil /\ session # Nil
    <3>1. c = Req("CLOSE", PathOf, session) /\ Known(session, selected, PathOf)
      BY <1>4, <2>1 DEF Closing, Held
    <3>2. c.id # Nil /\ c.action = "CLOSE" /\ issued[c.id] = [host |-> c.host, kind |-> c.kind, id |-> c.id]
          /\ c.id \in 1..Len(issued)
      BY <2>1, <3>1 DEF Req, Known
    <3> QED BY <1>1, <3>2 DEF Proper, Known, Starts, Uses
  <2>2. CASE Closing # Nil /\ session = Nil
    <3>1. c = Req("CLOSE", "ai", job) /\ job # Nil /\ Known(job, selected, "ai")
      BY <1>4, <2>2 DEF Closing, Held
    <3>2. c.id # Nil /\ c.action = "CLOSE" /\ issued[c.id] = [host |-> c.host, kind |-> c.kind, id |-> c.id]
          /\ c.id \in 1..Len(issued)
      BY <3>1 DEF Req, Known
    <3> QED BY <1>1, <3>2 DEF Proper, Known, Starts, Uses
  <2>3. CASE Closing = Nil
    <3>1. c = o
      BY <1>4, <2>3
    <3>2. /\ c.id = Nil /\ c.host = selected /\ c.gen = generation'
          /\ \/ c.action = "TERM_START" /\ c.kind = "term" /\ p = "TERM"
             \/ c.action = "DESK_START" /\ c.kind = "desk" /\ p = "DESKTOP"
      BY <1>8, <3>1 DEF Opening, Req
    <3>3. page' = p
      BY <1>1 DEF Show
    <3> QED BY <1>1, <3>2, <3>3 DEF Proper, PageOf, KindOf, Starts, Uses
  <2> QED BY <2>1, <2>2, <2>3
<1>9. Way' /\ Replied'
  BY <1>5, <1>8 DEF Way, Replied
<1>10. AllMinded'
  <2> SUFFICES ASSUME ~lost, NEW s \in open PROVE Minded(s.id)'
    BY <1>1 DEF AllMinded
  <2>1. s.id # Nil /\ s.id \in {session, job}
    BY <1>1, IdleHolds
  <2>2. Closing # Nil /\ Closing.action = "CLOSE" /\ Closing.id = s.id
    <3>1. CASE session # Nil
      <4>1. job = Nil
        BY <3>1 DEF Held
      <4>2. Closing = Req("CLOSE", PathOf, session) /\ s.id = session
        BY <2>1, <3>1, <4>1 DEF Closing
      <4>3. Closing \in Requests \cup {Nil} /\ Req("CLOSE", PathOf, session) \in Requests
        <5>1. PathOf \in Kinds /\ "CLOSE" \in Actions BY DEF PathOf, Kinds, Actions
        <5> QED BY <4>2, <5>1, ReqType DEF IInv, UiType
      <4> QED BY <4>2, <4>3 DEF Req
    <3>2. CASE session = Nil
      <4>1. Closing = Req("CLOSE", "ai", job) /\ s.id = job
        BY <2>1, <3>2 DEF Closing
      <4>2. Req("CLOSE", "ai", job) \in Requests
        BY ReqType DEF IInv, UiType, Kinds, Actions
      <4> QED BY <4>1, <4>2 DEF Req
    <3> QED BY <3>1, <3>2
  <2>3. c # Nil /\ c.action = "CLOSE" /\ c.id = s.id
    BY <1>4, <2>2
  <2> QED BY <1>5, <2>3 DEF Minded
<1> QED BY <1>6, <1>7, <1>9, <1>10

\* The pages from which the mesh page is reached hold nothing.
LEMMA MeshUIMinds ==
    ASSUME IInv, AInv, MeshUI
    PROVE  AInv'
<1> USE DEF AInv
<1>1. /\ ~busy /\ page \in {"HOME", "SETTINGS"} /\ session = Nil /\ job = Nil
      /\ session' = Nil /\ job' = Nil /\ Closing = Nil /\ Ask(Nil)
      /\ UNCHANGED <<page, generation, selected, open, issued, lost>>
  BY DEF MeshUI, Free, Forget, server, Held, Closing
<1>2. Told' = {} /\ UnderWay' = {}
  BY <1>1, AskedWay DEF IInv
<1>3. lost \/ open = {}
  BY <1>1, IdleHolds
<1> QED BY <1>1, <1>2, <1>3 DEF Held, OpenKnown, Way, Replied, AllMinded

\* Nor do those that are shown again without a look at what is held, and nothing
\* is opened from there.
LEMMA ReshowMinds ==
    ASSUME IInv, AInv, NEW p \in Pages, Reshow(p)
    PROVE  AInv'
<1> USE DEF AInv
<1>1. /\ page \in {"HOME", "SETTINGS", "WIFI"} /\ session = Nil /\ job = Nil
      /\ screen' = "app" /\ UNCHANGED <<selected, session, job, link, open, issued, lost>>
  BY DEF Reshow, Show, Held, server
<1>2. Told' = Told /\ UnderWay' = UnderWay
  BY <1>1 DEF link, Told, UnderWay
<1>3. \A q \in UnderWay : q.action \notin Starts /\ q.action \notin Uses
  BY <1>1 DEF Way, Proper, Starts, PageOf
<1>4. Way'
  BY <1>1, <1>2, <1>3 DEF Way, Proper, Known, Uses
<1>5. Replied'
  BY <1>1, <1>2 DEF Replied, ProperReply, Known, Gone
<1>6. AllMinded'
  <2> SUFFICES ASSUME ~lost, NEW s \in open PROVE Minded(s.id)'
    BY <1>1 DEF AllMinded
  <2>1. s.id # Nil /\ Minded(s.id)
    BY OpenIds DEF IInv, AllMinded
  <2>2. \A r \in Told : r.id = Nil
    BY <1>3 DEF Replied, ProperReply
  <2> QED BY <1>1, <1>2, <2>1, <2>2 DEF Minded
<1> QED BY <1>1, <1>4, <1>5, <1>6 DEF Held, OpenKnown

LEMMA CycleHostMinds ==
    ASSUME IInv, AInv, NEW h \in Hosts, CycleHost(h)
    PROVE  AInv'
<1> USE DEF AInv
<1>1. /\ ~busy /\ page = "HOST" /\ session = Nil /\ job = Nil
      /\ screen' = "app" /\ UNCHANGED <<session, job, link, open, issued, lost>>
  BY DEF CycleHost, Free, Show, Held, server
<1>2. Told' = {} /\ UnderWay' = {}
  <2>1. Told' = Told /\ UnderWay' = UnderWay
    BY <1>1 DEF link, Told, UnderWay
  <2> QED BY <1>1, <2>1, IdleHolds
<1>3. lost \/ open = {}
  BY <1>1, IdleHolds
<1> QED BY <1>1, <1>2, <1>3 DEF Held, OpenKnown, Way, Replied, AllMinded

\* A handler that only asks for something proper.
LEMMA PressMinds ==
    ASSUME IInv, AInv, NEW q \in Requests, Press(q),
           ~busy => Proper(q)
    PROVE  AInv'
<1> USE DEF AInv
<1>1. Ask(q) /\ UNCHANGED <<page, screen, generation, selected, session, job, open, issued, lost>>
  BY DEF Press, ui, server
<1>2. /\ Told' = Told
      /\ busy => UnderWay' = UnderWay
      /\ ~busy => UnderWay = {} /\ UnderWay' = {q}
  BY <1>1, AskedWay DEF IInv
<1>3. \A o : Proper(o)' <=> Proper(o)
  BY <1>1 DEF Proper, Known
<1>4. Way'
  BY <1>2, <1>3 DEF Way
<1>5. Replied'
  <2>1. \A r : ProperReply(r)' <=> ProperReply(r)
    BY <1>1 DEF ProperReply, Known, Gone
  <2>2. ~busy => Told = {}
    BY IdleHolds
  <2> QED BY <1>2, <2>1, <2>2 DEF Replied
<1>6. AllMinded'
  BY <1>1, <1>2 DEF AllMinded, Minded, Current
<1> QED BY <1>1, <1>4, <1>5, <1>6 DEF Held, PathOf, Known, OpenKnown

\* What the launcher asks about what it holds is proper.
LEMMA HeldProper ==
    ASSUME Held, NEW a \in Uses
    PROVE  /\ session # Nil /\ a # "AI_POLL" => Proper(Req(a, PathOf, session))
           /\ job # Nil => Proper(Req(a, "ai", job))
<1>1. a \notin Starts
  BY DEF Uses, Starts
<1>2. ASSUME session # Nil, a # "AI_POLL" PROVE Proper(Req(a, PathOf, session))
  <2>1. PICK q : q = Req(a, PathOf, session)
    OBVIOUS
  <2>2. q.action = a /\ q.host = selected /\ q.kind = PathOf /\ q.id = session
    BY <2>1 DEF Req
  <2>3. Known(q.id, q.host, q.kind)
    BY <1>2, <2>2 DEF Held
  <2>4. Proper(q)
    BY <1>1, <1>2, <2>2, <2>3 DEF Proper
  <2> QED BY <2>1, <2>4
<1>3. ASSUME job # Nil PROVE Proper(Req(a, "ai", job))
  <2>1. PICK q : q = Req(a, "ai", job)
    OBVIOUS
  <2>2. q.action = a /\ q.host = selected /\ q.kind = "ai" /\ q.id = job
    BY <2>1 DEF Req
  <2>3. Known(q.id, q.host, q.kind)
    BY <1>3, <2>2 DEF Held
  <2>4. Proper(q)
    BY <1>1, <1>3, <2>2, <2>3 DEF Proper
  <2> QED BY <2>1, <2>4
<1> QED BY <1>2, <1>3

LEMMA PollMinds ==
    ASSUME IInv, AInv, Poll
    PROVE  AInv'
<1>1. {"AI_POLL", "TERM_READ", "DESK_FRAME"} \subseteq Actions
      /\ {"AI_POLL", "TERM_READ", "DESK_FRAME"} \subseteq Uses /\ Kinds = {"ai", "term", "desk"}
  BY DEF Actions, Uses, Kinds
<1>2. session \in Ids \cup {Nil} /\ job \in Ids \cup {Nil} /\ Held
  BY DEF IInv, UiType, AInv
<1>3. CASE page = "AI" /\ job # Nil /\ Press(Req("AI_POLL", "ai", job))
  BY <1>1, <1>2, <1>3, HeldProper, ReqType, PressMinds DEF IInv
<1>4. CASE page = "TERM" /\ session # Nil /\ Press(Req("TERM_READ", "term", session))
  <2>1. PathOf = "term" BY <1>4 DEF PathOf
  <2>2. Proper(Req("TERM_READ", PathOf, session)) /\ Press(Req("TERM_READ", PathOf, session))
    BY <1>1, <1>2, <1>4, <2>1, HeldProper
  <2> QED BY <1>1, <1>2, <2>1, <2>2, ReqType, PressMinds DEF IInv
<1>5. CASE page = "DESKTOP" /\ session # Nil /\ Press(Req("DESK_FRAME", "desk", session))
  <2>1. PathOf = "desk" BY <1>5 DEF PathOf
  <2>2. Proper(Req("DESK_FRAME", PathOf, session)) /\ Press(Req("DESK_FRAME", PathOf, session))
    BY <1>1, <1>2, <1>5, <2>1, HeldProper
  <2> QED BY <1>1, <1>2, <2>1, <2>2, ReqType, PressMinds DEF IInv
<1> QED BY <1>3, <1>4, <1>5 DEF Poll

LEMMA TerminalControlMinds ==
    ASSUME IInv, AInv, TerminalControl
    PROVE  AInv'
<1>1. "TERM_WRITE" \in Actions /\ "TERM_WRITE" \in Uses /\ PathOf = "term" /\ "term" \in Kinds
  BY DEF Actions, Uses, Kinds, PathOf, TerminalControl
<1>2. session \in Ids \cup {Nil} /\ session # Nil /\ Held
  BY DEF IInv, UiType, AInv, TerminalControl
<1>3. Proper(Req("TERM_WRITE", PathOf, session)) /\ Press(Req("TERM_WRITE", PathOf, session))
  BY <1>1, <1>2, HeldProper DEF TerminalControl
<1> QED BY <1>1, <1>2, <1>3, ReqType, PressMinds DEF IInv

LEMMA DesktopInputMinds ==
    ASSUME IInv, AInv, DesktopInput
    PROVE  AInv'
<1>1. "DESK_INPUT" \in Actions /\ "DESK_INPUT" \in Uses /\ PathOf = "desk" /\ "desk" \in Kinds
  BY DEF Actions, Uses, Kinds, PathOf, DesktopInput
<1>2. session \in Ids \cup {Nil} /\ session # Nil /\ Held
  BY DEF IInv, UiType, AInv, DesktopInput
<1>3. Proper(Req("DESK_INPUT", PathOf, session)) /\ Press(Req("DESK_INPUT", PathOf, session))
  BY <1>1, <1>2, HeldProper DEF DesktopInput
<1> QED BY <1>1, <1>2, <1>3, ReqType, PressMinds DEF IInv

LEMMA CheckHostMinds ==
    ASSUME IInv, AInv, CheckHost
    PROVE  AInv'
<1>1. "CHECK" \in Actions
  BY DEF Actions
<1>2. PICK q \in Requests : q = Req("CHECK", Nil, Nil)
  BY <1>1, ReqType DEF IInv
<1>3. q.id = Nil /\ q.action = "CHECK"
  BY <1>2 DEF Req
<1>4. Proper(q)
  BY <1>3 DEF Proper, Starts, Uses
<1> QED BY <1>2, <1>4, PressMinds DEF CheckHost

\* Sending a line: a job is given up with its close, another asked for, or the
\* terminal written to.
LEMMA SendInputMinds ==
    ASSUME IInv, AInv, SendInput
    PROVE  AInv'
<1> USE DEF AInv
<1>1. /\ ~busy /\ UNCHANGED <<page, screen, generation, selected, session, open, issued, lost>>
      /\ UnderWay = {} /\ Told = {}
  BY IdleHolds DEF SendInput, Free, server
<1>2. {"CLOSE", "AI_START", "TERM_WRITE"} \subseteq Actions /\ {"ai", "term"} \subseteq Kinds
  BY DEF Actions, Starts, Uses, Kinds
<1>3. session \in Ids \cup {Nil} /\ job \in Ids \cup {Nil}
  BY DEF IInv, UiType
<1>4. CASE page = "AI" /\ job # Nil /\ Ask(Req("CLOSE", "ai", job)) /\ job' = Nil
  <2>1. PICK q \in Requests : q = Req("CLOSE", "ai", job)
    BY <1>2, <1>3, ReqType DEF IInv
  <2>2. q.action = "CLOSE" /\ q.id = job /\ q.host = selected /\ q.kind = "ai"
    BY <2>1 DEF Req
  <2>3. Told' = {} /\ UnderWay' = {q}
    BY <1>1, <1>4, <2>1, AskedWay DEF IInv
  <2>4. Proper(q)'
    <3>1. Known(q.id, q.host, q.kind)'
      BY <1>1, <1>4, <2>2 DEF Held, Known
    <3> QED BY <2>2, <3>1 DEF Proper, Starts, Uses
  <2>5. Way' /\ Replied'
    BY <2>3, <2>4 DEF Way, Replied
  <2>6. AllMinded'
    <3> SUFFICES ASSUME ~lost, NEW s \in open PROVE Minded(s.id)'
      BY <1>1 DEF AllMinded
    <3>1. s.id \in {session, job}
      BY <1>1, IdleHolds
    <3>2. s.id = session \/ s.id = q.id
      BY <2>2, <3>1
    <3> QED BY <1>1, <2>2, <2>3, <3>2 DEF Minded
  <2>7. Held'
    BY <1>1, <1>4 DEF Held, PathOf, Known
  <2> QED BY <1>1, <2>5, <2>6, <2>7 DEF OpenKnown
<1>5. CASE page = "AI" /\ job = Nil /\ Ask(Req("AI_START", "ai", Nil)) /\ UNCHANGED job
  <2>1. PICK q \in Requests : q = Req("AI_START", "ai", Nil)
    BY <1>2, <1>3, ReqType DEF IInv
  <2>2. q.action = "AI_START" /\ q.id = Nil /\ q.host = selected /\ q.kind = "ai" /\ q.gen = generation
    BY <2>1 DEF Req
  <2>3. Proper(q)
    BY <1>5, <2>2 DEF Proper, Starts, Uses, PageOf, KindOf, Held
  <2>4. Press(q)
    BY <1>1, <1>5, <2>1 DEF SendInput, Press, ui
  <2> QED BY <2>3, <2>4, PressMinds
<1>6. CASE page = "TERM" /\ session # Nil /\ Ask(Req("TERM_WRITE", "term", session)) /\ UNCHANGED job
  <2>1. PICK q \in Requests : q = Req("TERM_WRITE", "term", session)
    BY <1>2, <1>3, ReqType DEF IInv
  <2>2. PathOf = "term" /\ "TERM_WRITE" \in Uses
    BY <1>6 DEF PathOf, Uses
  <2>3. Proper(Req("TERM_WRITE", PathOf, session))
    BY <1>6, <2>2, HeldProper
  <2>4. Proper(q)
    BY <2>1, <2>2, <2>3
  <2>5. Press(q)
    BY <1>1, <1>6, <2>1 DEF SendInput, Press, ui
  <2> QED BY <2>4, <2>5, PressMinds
<1> QED BY <1>4, <1>5, <1>6 DEF SendInput

\* A reply taken leaves nothing on the way but what taking it asked for.
LEMMA ReceiveWay ==
    ASSUME IInv, Receive
    PROVE  /\ Told = {Head(results)} /\ UnderWay = {Head(results).req}
           /\ Told' = {} /\ UnderWay' = {requests'[i] : i \in 1..Len(requests')}
           /\ requests = <<>>
<1> USE DEF IInv, LinkInv, LinkType
<1>1. Len(results) = 1 /\ results # <<>> /\ requests = <<>> /\ working = Nil /\ answer = Nil
  BY DEF Receive, OneInFlight
<1>2. Told = {Head(results)} /\ UnderWay = {Head(results).req}
  BY <1>1, OneUnderWay DEF WayIs
<1>3. Len(results') = 0
  BY <1>1, HeadTailProperties DEF Receive
<1>4. working' = Nil /\ answer' = Nil
  BY <1>1 DEF Receive
<1> QED BY <1>1, <1>2, <1>3, <1>4 DEF Told, UnderWay

LEMMA ReceiveMinds ==
    ASSUME IInv, AInv, Receive
    PROVE  AInv'
<1> USE DEF AInv
<1>1. PICK r : r = Head(results)
  OBVIOUS
<1>2. /\ Told = {r} /\ UnderWay = {r.req} /\ Told' = {}
      /\ UnderWay' = {requests'[i] : i \in 1..Len(requests')} /\ requests = <<>>
  BY <1>1, ReceiveWay
<1>3. Proper(r.req) /\ ProperReply(r)
  BY <1>2 DEF Way, Replied
<1>4. UNCHANGED <<page, screen, generation, selected, open, issued, lost>>
  BY DEF Receive, server
<1>5. OpenKnown' /\ Replied'
  BY <1>2, <1>4 DEF OpenKnown, Replied
<1>6. Current(r) => Take(r)
  BY <1>1 DEF Receive
<1>7. \A s \in open : s.id # Nil
  BY OpenIds DEF IInv
<1>8. ASSUME UNCHANGED <<session, job, requests>>, r.id # Nil => ~Current(r)
      PROVE  AInv'
  <2>1. UnderWay' = {}
    BY <1>2, <1>8
  <2>2. Held'
    BY <1>4, <1>8 DEF Held, PathOf, Known
  <2>3. AllMinded'
    <3> SUFFICES ASSUME ~lost, NEW s \in open PROVE s.id \in {session, job}
      BY <1>4, <1>8 DEF AllMinded, Minded
    <3>1. s.id # Nil /\ Minded(s.id)
      BY <1>7 DEF AllMinded
    <3>2. ~(r.req.action = "CLOSE" /\ r.req.id = s.id)
      BY <1>3 DEF ProperReply, Gone
    <3> QED BY <1>2, <1>8, <3>1, <3>2 DEF Minded
  <2> QED BY <1>5, <2>1, <2>2, <2>3 DEF Way
<1>9. CASE ~Current(r)
  BY <1>1, <1>8, <1>9 DEF Receive
<1>10. CASE Current(r) /\ r.status = "gone"
  <2>1. Forget /\ UNCHANGED requests
    BY <1>6, <1>10 DEF Take
  <2>2. UnderWay' = {} /\ session' = Nil /\ job' = Nil
    BY <1>2, <2>1 DEF Forget
  <2>3. r.req.action \in Uses /\ Gone(r.req.id) /\ r.id = Nil
        /\ r.req.id # Nil /\ r.req.id \in {session, job}
    BY <1>3, <1>10 DEF ProperReply, Proper
  <2>4. Held'
    BY <1>4, <2>2 DEF Held
  <2>5. AllMinded'
    <3> SUFFICES ASSUME ~lost, NEW s \in open PROVE FALSE
      BY <1>4 DEF AllMinded
    <3>1. s.id # Nil /\ Minded(s.id) /\ s.id # r.req.id
      BY <1>7, <2>3 DEF AllMinded, Gone
    <3>2. s.id \in {session, job}
      BY <1>2, <2>3, <3>1 DEF Minded
    <3> QED BY <2>3, <3>1, <3>2 DEF Held
  <2> QED BY <1>5, <2>2, <2>4, <2>5 DEF Way
<1>11. CASE Current(r) /\ r.status = "ok" /\ r.req.action \in Starts
  <2>1. /\ r.id # Nil /\ Known(r.id, r.req.host, r.req.kind)
        /\ r.req.host = selected /\ page = PageOf(r.req.action)
        /\ r.req.kind = KindOf(r.req.action) /\ session = Nil /\ job = Nil
    BY <1>3, <1>11 DEF ProperReply, Proper
  <2>2. /\ requests' = <<>> /\ r.id \in {session', job'}
        /\ \/ r.req.action = "AI_START" /\ job' = r.id /\ session' = Nil
           \/ r.req.action \in {"TERM_START", "DESK_START"} /\ session' = r.id /\ job' = Nil
    BY <1>2, <1>6, <1>11, <2>1 DEF Take, Starts
  <2>3. UnderWay' = {}
    BY <1>2, <2>2
  <2>4. Held'
    <3>1. screen # "stock"
      BY <2>1, <1>11 DEF Held, PageOf, Starts
    <3>2. Known(r.id, selected, r.req.kind)'
      BY <1>4, <2>1 DEF Known
    <3>3. CASE r.req.action = "AI_START"
      <4>1. page = "AI" /\ r.req.kind = "ai"
        BY <2>1, <3>3 DEF PageOf, KindOf
      <4> QED BY <1>4, <2>2, <3>1, <3>2, <3>3, <4>1 DEF Held, Known
    <3>4. CASE r.req.action \in {"TERM_START", "DESK_START"}
      <4>1. page \in {"TERM", "DESKTOP"} /\ r.req.kind = PathOf
        BY <2>1, <3>4 DEF PageOf, KindOf, PathOf
      <4>2. PathOf' = PathOf
        BY <1>4 DEF PathOf
      <4> QED BY <1>4, <2>2, <3>1, <3>2, <3>4, <4>1, <4>2 DEF Held, Known
    <3> QED BY <2>2, <3>3, <3>4
  <2>5. AllMinded'
    <3> SUFFICES ASSUME ~lost, NEW s \in open PROVE s.id = r.id
      BY <1>4, <2>2 DEF AllMinded, Minded
    <3>1. s.id # Nil /\ Minded(s.id)
      BY <1>7 DEF AllMinded
    <3>2. r.req.action # "CLOSE"
      BY <1>11 DEF Starts
    <3> QED BY <1>2, <2>1, <3>1, <3>2 DEF Minded
  <2> QED BY <1>5, <2>3, <2>4, <2>5 DEF Way
<1>12. CASE Current(r) /\ r.status = "ok" /\ r.req.action = "AI_POLL"
  <2>1. r.req.id = job /\ job # Nil /\ r.req.action \in Uses /\ r.id = Nil
    BY <1>3, <1>12 DEF Proper, ProperReply, Uses, Starts
  <2>2. page = "AI" /\ session = Nil /\ Known(job, selected, "ai") /\ screen # "stock"
    BY <2>1 DEF Held
  <2>3. PICK c : c = Req("CLOSE", "ai", job)
    OBVIOUS
  <2>4. job' = Nil /\ UNCHANGED session /\ requests' = Append(<<>>, c)
    BY <1>2, <1>6, <1>12, <2>3 DEF Take, Starts
  <2>5. UnderWay' = {c}
    BY <1>2, <2>4
  <2>6. c.action = "CLOSE" /\ c.id = job /\ c.host = selected /\ c.kind = "ai"
    BY <2>3 DEF Req
  <2>7. Proper(c)'
    <3>1. Known(c.id, c.host, c.kind)'
      BY <1>4, <2>2, <2>6 DEF Known
    <3> QED BY <2>6, <3>1 DEF Proper, Starts, Uses
  <2>8. Held'
    BY <1>4, <2>2, <2>4 DEF Held
  <2>9. AllMinded'
    <3> SUFFICES ASSUME ~lost, NEW s \in open PROVE s.id = job
      BY <1>4, <2>5, <2>6 DEF AllMinded, Minded
    <3>1. s.id # Nil /\ Minded(s.id)
      BY <1>7 DEF AllMinded
    <3> QED BY <1>2, <1>12, <2>1, <2>2, <3>1 DEF Minded
  <2> QED BY <1>5, <2>5, <2>7, <2>8, <2>9 DEF Way
<1>13. CASE /\ Current(r) /\ r.status # "gone"
            /\ ~(r.status = "ok" /\ r.req.action \in Starts \cup {"AI_POLL"})
  <2>1. UNCHANGED <<session, job, requests>>
    BY <1>6, <1>13 DEF Take, Starts
  <2>2. r.id = Nil
    BY <1>3, <1>13 DEF ProperReply
  <2> QED BY <1>8, <2>1, <2>2
<1> QED BY <1>9, <1>10, <1>11, <1>12, <1>13

-----------------------------------------------------------------------------
\* The worker's steps move the one request and change nothing of the screen.
LEMMA WorkerTakeMinds ==
    ASSUME IInv, AInv, WorkerTake
    PROVE  AInv'
<1> USE DEF AInv
<1>1. IInv'
  BY WorkerTakeKeeps
<1>2. requests # <<>> /\ working' = requests[1] /\ answer = Nil /\ UNCHANGED <<answer, ui, server>>
  BY DEF WorkerTake, IInv, LinkInv, LinkType, OneInFlight
<1>3. WayIs /\ WayIs'
  BY <1>1, OneUnderWay, OneUnderWayNext DEF IInv
<1>4. UnderWay = {requests[1]} /\ Told = {} /\ requests[1] \in Requests
  BY <1>2, <1>3 DEF WayIs, IInv, LinkInv, LinkType
<1>5. working' # Nil
  BY <1>2, <1>4
<1>6. UnderWay' = UnderWay /\ Told' = Told
  BY <1>2, <1>3, <1>4, <1>5 DEF WayIs
<1>7. \A q : Proper(q)' <=> Proper(q)
  BY <1>2 DEF Proper, Known, ui, server
<1>8. Way' /\ Replied'
  BY <1>4, <1>6, <1>7 DEF Way, Replied
<1>9. AllMinded'
  BY <1>2, <1>6 DEF AllMinded, Minded, Current, ui, server
<1>10. Held' /\ OpenKnown'
  BY <1>2 DEF Held, PathOf, Known, OpenKnown, ui, server
<1> QED BY <1>8, <1>9, <1>10

LEMMA WorkerReplyMinds ==
    ASSUME IInv, AInv, WorkerReply
    PROVE  AInv'
<1> USE DEF AInv
<1>1. IInv'
  BY WorkerReplyKeeps
<1>2. /\ working # Nil /\ answer # Nil /\ answer.req = working /\ results = <<>>
      /\ results' = Append(results, answer) /\ UNCHANGED <<ui, server>>
  BY DEF WorkerReply, IInv, LinkInv, LinkType, OneInFlight
<1>3. WayIs /\ WayIs'
  BY <1>1, OneUnderWay, OneUnderWayNext DEF IInv
<1>4. UnderWay = {working} /\ Told = {answer}
  BY <1>2, <1>3 DEF WayIs
<1>5. results' # <<>> /\ results'[1] = answer
  BY <1>2
<1>6. UnderWay' = UnderWay /\ Told' = Told
  BY <1>2, <1>3, <1>4, <1>5 DEF WayIs
<1>7. \A q : Proper(q)' <=> Proper(q)
  BY <1>2 DEF Proper, Known, ui, server
<1>8. \A r : ProperReply(r)' <=> ProperReply(r)
  BY <1>2 DEF ProperReply, Known, Gone, server
<1>9. Way' /\ Replied'
  BY <1>6, <1>7, <1>8 DEF Way, Replied
<1>10. AllMinded'
  BY <1>2, <1>6 DEF AllMinded, Minded, Current, ui, server
<1>11. Held' /\ OpenKnown'
  BY <1>2 DEF Held, PathOf, Known, OpenKnown, ui, server
<1> QED BY <1>9, <1>10, <1>11

\* What was opened is known for good.
LEMMA StillKnown ==
    ASSUME IInv, issued' = issued \/ (\E s : issued' = Append(issued, s)), NEW n, NEW h, NEW k,
           Known(n, h, k)
    PROVE  Known(n, h, k)'
<1>1. \E S : issued \in Seq(S)
  BY DEF IInv, IssuedType
<1>2. CASE issued' = issued
  BY <1>2 DEF Known
<1>3. ASSUME NEW s, issued' = Append(issued, s) PROVE Known(n, h, k)'
  <2>1. Len(issued') = Len(issued) + 1 /\ \A i \in 1..Len(issued) : issued'[i] = issued[i]
    BY <1>1, <1>3
  <2> QED BY <2>1 DEF Known, IInv, IssuedType
<1> QED BY <1>2, <1>3

\* What the companion does with a request for something it may have.
LEMMA RepliesAre ==
    ASSUME Replies
    PROVE  /\ working.action \notin Starts /\ UNCHANGED <<issued, lost>> /\ open' \subseteq open
           /\ \/ Answers("ok", Nil) \/ Answers("pending", Nil)
              \/ Answers("gone", Nil) /\ working.action \in Uses /\ Target \notin open'
           /\ working.action = "CLOSE" => Target \notin open'
<1>1. working.action \in Uses \cup {"CLOSE"} /\ UNCHANGED <<issued, lost>>
      /\ open' = IF working.action = "CLOSE" THEN open \ {Target} ELSE open
  BY DEF Replies
<1>2. "CLOSE" \notin Uses /\ working.action \notin Starts
  BY <1>1 DEF Starts, Uses
<1>3. CASE Target \in open
  BY <1>1, <1>2, <1>3 DEF Replies
<1>4. CASE Target \notin open /\ working.action \in Uses
  BY <1>1, <1>2, <1>4 DEF Replies
<1>5. CASE Target \notin open /\ working.action = "CLOSE"
  BY <1>1, <1>2, <1>5 DEF Replies
<1> QED BY <1>1, <1>3, <1>4, <1>5

\* The answer is one to the request in hand.
LEMMA SendAnswers ==
    ASSUME IssuedType, WorkerSend
    PROVE  \E st \in {"ok", "pending", "gone", "error"}, n \in Ids \cup {Nil} : Answers(st, n)
<1>1. CASE Opens
  <2>1. Len(issued) + 1 \in Ids
    BY <1>1 DEF Opens, Ids, IssuedType
  <2> QED BY <1>1, <2>1 DEF Opens
<1>2. CASE Replies
  BY <1>2, RepliesAre
<1>3. CASE Fails \/ Checks
  BY <1>3 DEF Fails, Checks
<1> QED BY <1>1, <1>2, <1>3 DEF WorkerSend

\* A step of the companion that keeps what the launcher holds and asked: it is
\* enough to look at the answer and at what is open afterwards.
LEMMA SendMinds ==
    ASSUME IInv, AInv, WorkerSend, NEW a, a = answer',
           issued' = issued \/ (\E s : issued' = Append(issued, s)),
           ProperReply(a)', OpenKnown',
           lost' \/ (\A s \in open' : (s \in open /\ ~lost) \/ (s.id = a.id /\ Current(a)))
    PROVE  AInv'
<1> USE DEF AInv
<1>1. IInv'
  BY WorkerSendKeeps
<1>2. working # Nil /\ answer = Nil /\ UNCHANGED <<ui, working>> /\ answer'.req = working /\ answer' # Nil
  <2>1. answer' # Nil
    <3>1. \E st \in {"ok", "pending", "gone", "error"}, n \in Ids \cup {Nil} : Answers(st, n)
      BY SendAnswers DEF IInv
    <3>2. working \in Requests
      BY DEF WorkerSend, IInv, LinkInv, LinkType
    <3>3. answer' \in Results
      BY <3>1, <3>2 DEF Answers, Results
    <3> QED BY <3>3
  <2> QED BY <1>1, <2>1 DEF WorkerSend, IInv, LinkInv, LinkType, OneInFlight
<1>3. WayIs /\ WayIs'
  BY <1>1, OneUnderWay, OneUnderWayNext DEF IInv
<1>4. UnderWay = {working} /\ Told = {} /\ UnderWay' = {working} /\ Told' = {answer'}
  BY <1>2, <1>3 DEF WayIs
<1>5. PICK w : w = working
  OBVIOUS
<1>6. Proper(w)'
  <2>1. Proper(w)
    BY <1>4, <1>5 DEF Way
  <2>2. w.id # Nil => Known(w.id, w.host, w.kind)'
    BY <2>1, StillKnown DEF Proper
  <2> QED BY <1>2, <2>1, <2>2 DEF Proper, ui
<1>7. Held'
  <2>1. session # Nil => Known(session, selected, PathOf)'
    <3>1. ASSUME session # Nil PROVE Known(session, selected, PathOf)'
      <4>1. PICK n, h, k : n = session /\ h = selected /\ k = PathOf
        OBVIOUS
      <4>2. Known(n, h, k)'
        BY <3>1, <4>1, StillKnown DEF Held
      <4>3. PathOf' = PathOf /\ session' = session /\ selected' = selected
        BY <1>2 DEF PathOf, ui
      <4> QED BY <4>1, <4>2, <4>3 DEF Known
    <3> QED BY <3>1
  <2>2. job # Nil => Known(job, selected, "ai")'
    <3>1. ASSUME job # Nil PROVE Known(job, selected, "ai")'
      <4>1. PICK n, h : n = job /\ h = selected
        OBVIOUS
      <4>2. Known(n, h, "ai")'
        BY <3>1, <4>1, StillKnown DEF Held
      <4> QED BY <1>2, <4>1, <4>2 DEF Known, ui
    <3> QED BY <3>1
  <2> QED BY <1>2, <2>1, <2>2 DEF Held, PathOf, Known, ui
<1>8. Replied'
  <2>1. ProperReply(a)' /\ a.req = w
    BY <1>2, <1>5
  <2> QED BY <1>4, <1>5, <2>1 DEF Replied
<1>9. AllMinded'
  <2> SUFFICES ASSUME ~lost', NEW s \in open' PROVE Minded(s.id)'
    BY DEF AllMinded
  <2>1. CASE s \in open /\ ~lost
    <3>1. Minded(s.id)
      BY <2>1 DEF AllMinded
    <3>2. s.id \in {session, job} \/ (w.action = "CLOSE" /\ w.id = s.id)
      BY <1>4, <1>5, <3>1 DEF Minded
    <3> QED BY <1>2, <1>4, <1>5, <3>2 DEF Minded, ui
  <2>2. CASE s.id = a.id /\ Current(a)
    <3>1. a.id = s.id /\ a.req.gen = generation'
      BY <1>2, <2>2 DEF Current, ui
    <3> QED BY <1>4, <1>5, <3>1 DEF Minded, Current
  <2> QED BY <2>1, <2>2
<1> QED BY <1>4, <1>5, <1>6, <1>7, <1>8, <1>9 DEF Way

LEMMA WorkerSendMinds ==
    ASSUME IInv, AInv, WorkerSend
    PROVE  AInv'
<1> USE DEF AInv
<1>1. PICK w : w = working
  OBVIOUS
<1>2. w # Nil /\ Proper(w) /\ answer = Nil /\ UNCHANGED ui
  <2>1. UnderWay = {working}
    BY OneUnderWay DEF WorkerSend, IInv, WayIs
  <2> QED BY <1>1, <2>1 DEF WorkerSend, Way
<1>3. issued \in Seq([host : Hosts, kind : Kinds \cup {Nil}, id : Ids])
  BY DEF IInv, IssuedType
<1>4. \A s \in open : s.id # Nil /\ s = issued[s.id] /\ s.id \in 1..Len(issued)
  BY OpenIds DEF IInv, OpenKnown
<1>5. CASE Opens
  <2>1. PICK n : n = Len(issued) + 1
    OBVIOUS
  <2>2. PICK s : s = [host |-> w.host, kind |-> w.kind, id |-> n]
    OBVIOUS
  <2>3. /\ w.action \in Starts /\ open' = open \cup {s} /\ issued' = Append(issued, s)
        /\ \/ answer' = [req |-> w, status |-> "ok", id |-> n] /\ UNCHANGED lost
           \/ answer' = [req |-> w, status |-> "error", id |-> Nil] /\ lost'
    BY <1>1, <1>5, <2>1, <2>2 DEF Opens, Answers
  <2>4. /\ n \in 1..Len(issued') /\ issued'[n] = s
        /\ \A i \in 1..Len(issued) : i \in 1..Len(issued') /\ issued'[i] = issued[i]
    BY <1>3, <2>1, <2>3
  <2>5. Known(n, w.host, w.kind)'
    BY <2>2, <2>4 DEF Known
  <2>6. w.action # "CLOSE" /\ w.gen = generation
    BY <1>2, <2>3 DEF Proper, Starts
  <2>7. OpenKnown'
    <3> SUFFICES ASSUME NEW o \in open' PROVE o.id \in 1..Len(issued') /\ o = issued'[o.id]
      BY DEF OpenKnown
    <3>1. CASE o \in open
      BY <1>4, <2>4, <3>1
    <3>2. CASE o = s
      BY <2>2, <2>4, <3>2
    <3> QED BY <2>3, <3>1, <3>2
  <2>8. PICK a : a = answer'
    OBVIOUS
  <2>9. ProperReply(a)'
    <3>1. /\ a.req = w /\ a.status # "gone"
          /\ \/ a.status = "ok" /\ a.id = n
             \/ a.status = "error" /\ a.id = Nil
      BY <2>3, <2>8
    <3>2. Known(a.id, w.host, w.kind)' \/ a.id = Nil
      BY <2>5, <3>1
    <3>3. n # Nil
      BY <1>3, <1>5, <2>1 DEF Opens, Ids
    <3> QED BY <2>3, <2>6, <3>1, <3>2, <3>3 DEF ProperReply
  <2>10. lost' \/ (\A o \in open' : (o \in open /\ ~lost) \/ (o.id = a.id /\ Current(a)))
    BY <2>2, <2>3, <2>6, <2>8 DEF Current
  <2> QED BY <2>3, <2>7, <2>8, <2>9, <2>10, SendMinds
<1>6. CASE Replies \/ Fails \/ Checks
  <2>1. PICK a : a = answer'
    OBVIOUS
  <2>2. /\ a = [req |-> w, status |-> a.status, id |-> Nil] /\ a.req = w /\ a.id = Nil
        /\ issued' = issued /\ open' \subseteq open /\ (lost => lost')
        /\ a.status = "ok" => w.action \notin Starts
        /\ a.status = "gone" => w.action \in Uses /\ Target \notin open'
        /\ w.action = "CLOSE" /\ ~lost' => Target \notin open'
    <3>1. CASE Replies
      BY <1>1, <2>1, <3>1, RepliesAre DEF Answers
    <3>2. CASE Fails
      BY <1>1, <2>1, <3>2 DEF Fails, Answers
    <3>3. CASE Checks
      BY <1>1, <2>1, <3>3 DEF Checks, Answers, server, Starts
    <3> QED BY <1>6, <3>1, <3>2, <3>3
  <2>3. ASSUME w.action \in Uses \cup {"CLOSE"}, Target \notin open'
        PROVE  Gone(w.id)'
    <3> SUFFICES ASSUME NEW s \in open', s.id = w.id PROVE FALSE
      BY DEF Gone
    <3>1. s \in open /\ s.id # Nil /\ s = issued[w.id]
      BY <1>4, <2>2
    <3>2. s = [host |-> w.host, kind |-> w.kind, id |-> w.id]
      BY <1>2, <3>1 DEF Proper, Known
    <3> QED BY <1>1, <2>3, <3>2 DEF Target
  <2>4. ProperReply(a)'
    BY <2>2, <2>3 DEF ProperReply
  <2>5. OpenKnown'
    BY <2>2 DEF OpenKnown
  <2>6. lost' \/ (\A s \in open' : s \in open /\ ~lost)
    BY <2>2
  <2> QED BY <2>1, <2>2, <2>4, <2>5, <2>6, SendMinds
<1> QED BY <1>5, <1>6 DEF WorkerSend

-----------------------------------------------------------------------------
LEMMA ReapMinds ==
    ASSUME IInv, AInv, Reap
    PROVE  AInv'
<1> USE DEF AInv
<1>1. open' \subseteq open /\ UNCHANGED <<ui, link, issued, lost>>
  BY DEF Reap
<1>2. Told' = Told /\ UnderWay' = UnderWay
  BY <1>1 DEF link, Told, UnderWay
<1>3. \A q : Proper(q)' <=> Proper(q)
  BY <1>1 DEF Proper, Known, ui
<1>4. \A r : ProperReply(r) => ProperReply(r)'
  BY <1>1 DEF ProperReply, Known, Gone
<1>5. Way' /\ Replied'
  BY <1>2, <1>3, <1>4 DEF Way, Replied
<1>6. AllMinded'
  BY <1>1, <1>2 DEF AllMinded, Minded, Current, ui
<1>7. Held' /\ OpenKnown'
  BY <1>1 DEF Held, PathOf, Known, OpenKnown, ui
<1> QED BY <1>5, <1>6, <1>7

LEMMA InitAInv == LInit => AInv
<1> SUFFICES ASSUME LInit PROVE AInv
  OBVIOUS
<1>1. UnderWay = {} /\ Told = {}
  BY InitIInv, OneUnderWay DEF LInit, IInv, WayIs
<1>2. open = {} /\ session = Nil /\ job = Nil /\ screen = "app"
  BY DEF LInit
<1> QED BY <1>1, <1>2 DEF AInv, Held, OpenKnown, Way, Replied, AllMinded

LEMMA ResetMinds ==
    ASSUME IInv, AInv, Reset
    PROVE  AInv'
<1>1. LinkInv'
  BY ResetKeeps DEF IInv
<1>2. UnderWay' = {} /\ Told' = {}
  BY <1>1, OneUnderWayNext DEF Reset, WayIs
<1>3. session' = Nil /\ job' = Nil /\ screen' = "app" /\ lost' /\ UNCHANGED <<open, issued>>
  BY DEF Reset
<1> QED BY <1>2, <1>3 DEF AInv, Held, OpenKnown, Way, Replied, AllMinded

\* Every step keeps the two invariants.
LEMMA NextAInv == IInv /\ AInv /\ [LNext]_lvars => AInv'
<1> SUFFICES ASSUME IInv, AInv, [LNext]_lvars PROVE AInv'
  OBVIOUS
<1>1. ASSUME NEW p \in Pages, Navigate(p) PROVE AInv'
  BY <1>1, GoMinds DEF Navigate
<1>2. ASSUME NEW p \in Pages, Reshow(p) PROVE AInv'
  BY <1>2, ReshowMinds
<1>3. CASE Back
  BY <1>3, GoMinds DEF Back, Pages
<1>4. CASE MeshUI
  BY <1>4, MeshUIMinds
<1>5. CASE CheckHost \/ TerminalControl \/ DesktopInput
  BY <1>5, CheckHostMinds, TerminalControlMinds, DesktopInputMinds
<1>6. CASE SendInput
  BY <1>6, SendInputMinds
<1>7. ASSUME NEW h \in Hosts, CycleHost(h) PROVE AInv'
  BY <1>7, CycleHostMinds
<1>8. CASE Poll
  BY <1>8, PollMinds
<1>9. CASE Receive
  BY <1>9, ReceiveMinds
<1>10. CASE WorkerTake \/ WorkerSend \/ WorkerReply
  BY <1>10, WorkerTakeMinds, WorkerSendMinds, WorkerReplyMinds
<1>11. CASE Reap
  BY <1>11, ReapMinds
<1>12. CASE Reset
  BY <1>12, ResetMinds
<1>13. CASE UNCHANGED lvars
  <2>1. Told' = Told /\ UnderWay' = UnderWay
    BY <1>13 DEF lvars, link, Told, UnderWay
  <2>2. \A q : Proper(q)' <=> Proper(q)
    BY <1>13 DEF lvars, Proper, Known, ui, server
  <2>3. \A r : ProperReply(r)' <=> ProperReply(r)
    BY <1>13 DEF lvars, ProperReply, Known, Gone, server
  <2> QED BY <1>13, <2>1, <2>2, <2>3
    DEF lvars, ui, server, AInv, Held, PathOf, Known, OpenKnown, Way, Replied, AllMinded, Minded, Current
<1> QED
  BY <1>1, <1>2, <1>3, <1>4, <1>5, <1>6, <1>7, <1>8, <1>9, <1>10, <1>11, <1>12, <1>13 DEF LNext

\* A request that names something names it at the host and under the path where
\* it was opened.
THEOREM RequestsAreAddressed == LSpec => []RightAddress
<1>1. AInv => RightAddress
  BY DEF AInv, Way, Proper, Known, RightAddress
<1> QED BY <1>1, InitIInv, NextIInv, InitAInv, NextAInv, PTL DEF LSpec

\* Unless a reply or a close was lost, what lives on a companion is held by the
\* launcher, or is on its way to it, or its close is on the way.
THEOREM LinkMindsAll == LSpec => []NothingLeftBehind
<1>1. IInv /\ AInv => NothingLeftBehind
  <2> SUFFICES ASSUME IInv, AInv, ~lost, NEW s \in open
               PROVE  \/ s.id \in {session, job}
                      \/ answer # Nil /\ answer.id = s.id /\ Current(answer)
                      \/ \E i \in 1..Len(results) : results[i].id = s.id /\ Current(results[i])
                      \/ \E q \in UnderWay : q.action = "CLOSE" /\ q.id = s.id
    BY DEF NothingLeftBehind
  <2>1. Minded(s.id)
    BY DEF AInv, AllMinded
  <2>2. CASE \E r \in Told : r.id = s.id /\ Current(r)
    BY <2>2 DEF Told
  <2> QED BY <2>1, <2>2 DEF Minded
<1> QED BY <1>1, InitIInv, NextIInv, InitAInv, NextAInv, PTL DEF LSpec
=============================================================================
