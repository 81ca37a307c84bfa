---------------------------- MODULE BrowserClient ----------------------------
(***************************************************************************)
(* The page (Server/src/web/app.js), the requests it makes and the web     *)
(* socket that tells it to make them (Server/src/web.rs).                  *)
(*                                                                         *)
(* A request is sent, handled under the table's mutex, and only then, under*)
(* the mutex once more, answered with the state of the table: three steps, *)
(* and answers to different requests overtake each other.  Every change    *)
(* puts one message on the channel of each socket's session, which forgets *)
(* what does not fit; the session hangs up when it finds out.              *)
(*                                                                         *)
(* Of the table there is what the page tells apart: whether a hand runs or *)
(* a showdown is shown, which hand it is, who is seated, and who will keep *)
(* playing (modules TableOps and WebTable have the rest).  Players without *)
(* a page of the model, the rivals, come, act and go as they like.         *)
(***************************************************************************)
EXTENDS Integers, FiniteSets

CONSTANTS
  Pages, Rivals,
  None,
  Backlog,   \* the 128 of broadcast::channel, and what is on its way to the page
  MaxHands,  \* bounds: the hands, what users, rivals and the network do, what fails
  MaxMoves,
  MaxFailures

VARIABLES
  table,
  monitor,
  page,
  sock,     \* each page's web socket and what is on its way to it
  calls,    \* the requests that are not answered and received
  moves, failures

vars == <<table, monitor, page, sock, calls, moves, failures>>
bounds == <<moves, failures>>

Players == Pages \cup Rivals

View(p) == [phase |-> table.phase, hand |-> table.hand, me |-> p \in table.seated]

\* Leaving the start page or coming to it: a page as it is loaded.
Loaded ==
  [joined |-> FALSE, seen |-> FALSE, key |-> None, inFlight |-> FALSE, queued |-> FALSE,
   shown |-> None]

Closed == [state |-> "closed", backlog |-> 0]

Init ==
  /\ table = [phase |-> "rest", hand |-> 0, seated |-> {}, confirmed |-> {}]
  /\ monitor = "look"
  /\ page = [p \in Pages |-> Loaded] /\ sock = [p \in Pages |-> Closed] /\ calls = {}
  /\ moves = 0 /\ failures = 0

Call(p, kind) == [page |-> p, kind |-> kind, at |-> "sent", view |-> None]

\* One message more for each session, or one too many.
Notify ==
  sock' = [p \in Pages |->
             IF sock[p].state = "open" /\ sock[p].backlog <= Backlog
             THEN [sock[p] EXCEPT !.backlog = @ + 1] ELSE sock[p]]

UserMoves == moves < MaxMoves /\ moves' = moves + 1 /\ UNCHANGED failures

Fails ==
  /\ failures < MaxFailures /\ failures' = failures + 1
  /\ moves < MaxMoves /\ moves' = moves + 1

-----------------------------------------------------------------------------
(* The table, as far as the pages see it *)

\* A bet, a fold or a leave: the hand goes on or ends.
AfterAct(t) ==
  {t, [t EXCEPT !.phase = "showdown", !.confirmed = {}]}

AfterLeave(t, p) ==
  LET left == [t EXCEPT !.seated = @ \ {p}]
  IN IF t.phase = "running" THEN AfterAct(left) ELSE {left}

\* What a request makes of the table, or nothing if it is refused.
Outcomes(t, p, kind) ==
  CASE kind = "JOIN" -> IF p \in t.seated THEN {} ELSE {[t EXCEPT !.seated = @ \cup {p}]}
    [] kind = "LEAVE" -> IF p \in t.seated THEN AfterLeave(t, p) ELSE {}
    [] kind = "KEEP_PLAYING" ->
         IF p \in t.seated /\ t.phase = "showdown" THEN {[t EXCEPT !.confirmed = @ \cup {p}]} ELSE {}
    [] OTHER -> IF p \in t.seated /\ t.phase = "running" THEN AfterAct(t) ELSE {}

\* Only the first confirmation for a showdown: the second says nothing new.
RivalMoves ==
  \E p \in Rivals, kind \in {"JOIN", "LEAVE", "KEEP_PLAYING", "BET"} :
    /\ table' \in Outcomes(table, p, kind) /\ Notify
    /\ \/ kind = "KEEP_PLAYING" /\ table' # table /\ UNCHANGED bounds
       \/ kind # "KEEP_PLAYING" /\ UserMoves
    /\ UNCHANGED <<monitor, page, calls>>

TurnExpires ==
  /\ table.phase = "running"
  /\ \E p \in table.seated : table' \in AfterLeave(table, p)
  /\ Notify /\ UserMoves /\ UNCHANGED <<monitor, page, calls>>

EnoughToStart == Cardinality(table.seated) >= 2 /\ table.phase # "running"

Monitor(from, to) == monitor = from /\ monitor' = to /\ UNCHANGED <<page, calls, bounds>>

MonitorLook ==
  /\ Monitor("look", IF table.phase = "showdown" THEN "wait" ELSE "start")
  /\ EnoughToStart /\ UNCHANGED <<table, sock>>

\* After ten seconds without the lock.
MonitorPurge ==
  /\ Monitor("wait", "start") /\ Notify
  /\ table' = IF table.phase # "showdown" THEN table
              ELSE [table EXCEPT !.seated = @ \cap table.confirmed]

MonitorStart ==
  /\ Monitor("start", "look")
  /\ IF EnoughToStart /\ table.hand < MaxHands
       THEN Notify /\ table' = [table EXCEPT !.phase = "running", !.hand = @ + 1, !.confirmed = {}]
       ELSE UNCHANGED <<table, sock>>

-----------------------------------------------------------------------------
(* The requests *)

\* Handled, with a message to every session, or refused.
Handle(call) ==
  /\ call \in calls /\ call.at = "sent" /\ UNCHANGED <<monitor, page, bounds>>
  /\ LET outcomes == Outcomes(table, call.page, call.kind)
     IN IF call.kind = "REFRESH"
          THEN calls' = (calls \ {call}) \cup {[call EXCEPT !.at = "done"]} /\ UNCHANGED <<table, sock>>
          ELSE IF outcomes = {}
          THEN calls' = (calls \ {call}) \cup {[call EXCEPT !.at = "refused"]} /\ UNCHANGED <<table, sock>>
          ELSE /\ table' \in outcomes /\ Notify
               /\ calls' = (calls \ {call}) \cup {[call EXCEPT !.at = "done"]}

Answer(call) ==
  /\ call \in calls /\ call.at = "done"
  /\ calls' = (calls \ {call}) \cup {[call EXCEPT !.at = "answered", !.view = View(call.page)]}
  /\ UNCHANGED <<table, monitor, page, sock, bounds>>

\* The network loses the request or the answer to it.
Fail(call) ==
  /\ call \in calls /\ call.at \in {"sent", "done"} /\ Fails
  /\ calls' = (calls \ {call}) \cup {[call EXCEPT !.at = "refused"]}
  /\ UNCHANGED <<table, monitor, page, sock>>

-----------------------------------------------------------------------------
(* The page.  The operators take a page's state and the requests it makes. *)

Update(p, pg, made) ==
  page' = [page EXCEPT ![p] = pg] /\ calls' = made

\* requestRefresh, and refresh, which asks for nothing on the start page.
Refresh(p, pg, made) ==
  IF pg.inFlight THEN Update(p, [pg EXCEPT !.queued = TRUE], made)
  ELSE IF pg.joined THEN Update(p, [pg EXCEPT !.inFlight = TRUE], made \cup {Call(p, "REFRESH")})
  ELSE Update(p, [pg EXCEPT !.queued = FALSE], made)

\* mutant: a refresh that fails counts as under way (no finally)
FailedInFlight(p, pg, made) ==
  Update(p, pg, made)

\* When a refresh fails, the one that is queued waits for the next cause.
Failed(p, pg, made) ==
  Update(p, [pg EXCEPT !.inFlight = FALSE], made)

Running(pg, view) ==
  IF pg.joined /\ view.phase = "running"
  THEN [pg EXCEPT !.shown = view, !.seen = TRUE, !.key = None]
  ELSE [pg EXCEPT !.shown = view]

\* mutant: one confirmation lasts until the page sees a hand run
ConfirmsOnce(pg, view) ==
  /\ pg.joined /\ view.me /\ pg.seen
  /\ view.phase = "showdown" /\ pg.key = None

\* showdownId is the winner, the players and the round; here showdowns differ in it.
Confirms(pg, view) ==
  /\ pg.joined /\ view.me /\ pg.seen
  /\ view.phase = "showdown" /\ pg.key # view.hand

Rendered(pg, view) ==
  LET running == Running(pg, view)
  IN IF Confirms(running, view) THEN [running EXCEPT !.key = view.hand] ELSE running

\* The KEEP_PLAYING that rendering the view brings about.
Kept(p, pg, view) ==
  IF Confirms(Running(pg, view), view) THEN {Call(p, "KEEP_PLAYING")} ELSE {}

Busy(p) == \E call \in calls : call.page = p /\ call.kind \in {"JOIN", "LEAVE", "BET"}

Click(p, kind) ==
  /\ ~Busy(p) /\ page[p].joined = (kind # "JOIN")
  /\ calls' = calls \cup {Call(p, kind)} /\ UserMoves
  /\ UNCHANGED <<table, monitor, page, sock>>

Left(pg) == [pg EXCEPT !.joined = FALSE, !.seen = FALSE, !.key = None]

\* What the page does with an answer.
Receive(call) ==
  LET p    == call.page
      pg   == page[p]
      view == call.view
      rest == calls \ {call}
      shown == Rendered(pg, view)
      over  == [shown EXCEPT !.inFlight = FALSE]
      entered == [pg EXCEPT !.joined = TRUE, !.seen = FALSE, !.key = None]
  IN /\ call \in calls /\ call.at = "answered" /\ UNCHANGED <<table, monitor, sock, bounds>>
     /\ \/ /\ call.kind = "REFRESH" /\ pg.queued
           /\ Refresh(p, [over EXCEPT !.queued = FALSE], rest \cup Kept(p, pg, view))
        \/ /\ call.kind = "REFRESH" /\ ~pg.queued
           /\ Update(p, over, rest \cup Kept(p, pg, view))
        \/ /\ call.kind = "KEEP_PLAYING"
           /\ Refresh(p, shown, rest \cup Kept(p, pg, view))
        \/ /\ call.kind = "BET"
           /\ Update(p, shown, rest \cup Kept(p, pg, view))
        \/ /\ call.kind = "JOIN"
           /\ Update(p, Rendered(entered, view), rest \cup Kept(p, entered, view))
        \/ /\ call.kind = "LEAVE"
           /\ Update(p, Left(shown), rest \cup Kept(p, pg, view))

ReceiveError(call) ==
  LET p == call.page
      rest == calls \ {call}
  IN /\ call \in calls /\ call.at = "refused" /\ UNCHANGED <<table, monitor, sock, bounds>>
     /\ \/ call.kind = "REFRESH" /\ Failed(p, page[p], rest)
        \/ call.kind = "LEAVE" /\ Update(p, Left(page[p]), rest)
        \/ call.kind \in {"JOIN", "BET", "KEEP_PLAYING"} /\ Update(p, page[p], rest)

\* setInterval
Timer(p) ==
  Refresh(p, page[p], calls) /\ UNCHANGED <<table, monitor, sock, bounds>>

-----------------------------------------------------------------------------
(* The web socket *)

\* connectSocket; the session begins with a message of its own.
SocketOpens(p) ==
  /\ sock[p].state = "closed"
  /\ sock' = [sock EXCEPT ![p] = [state |-> "open", backlog |-> 1]]
  /\ Refresh(p, page[p], calls)
  /\ UNCHANGED <<table, monitor, bounds>>

\* websocket_session: the next message, or the end when some were forgotten.
SessionSends(p) ==
  /\ sock[p].state = "open" /\ sock[p].backlog \in 1 .. Backlog
  /\ sock' = [sock EXCEPT ![p].backlog = @ - 1]
  /\ Refresh(p, page[p], calls) /\ UNCHANGED <<table, monitor, bounds>>

SessionLags(p) ==
  /\ sock[p].state = "open" /\ sock[p].backlog > Backlog
  /\ sock' = [sock EXCEPT ![p].state = "over", ![p].backlog = 0]
  /\ UNCHANGED <<table, monitor, page, calls, bounds>>

SocketBreaks(p) ==
  /\ sock[p].state = "open" /\ Fails
  /\ sock' = [sock EXCEPT ![p] = [state |-> "over", backlog |-> 0]]
  /\ UNCHANGED <<table, monitor, page, calls>>

SocketCloses(p) ==
  /\ sock[p].state = "over"
  /\ sock' = [sock EXCEPT ![p] = Closed]
  /\ UNCHANGED <<table, monitor, page, calls, bounds>>

-----------------------------------------------------------------------------

Socket(p) ==
  SocketOpens(p) \/ SessionSends(p) \/ SessionLags(p) \/ SocketCloses(p)

Server == MonitorLook \/ MonitorPurge \/ MonitorStart

Serve(p) ==
  \E call \in calls :
    call.page = p /\ (Handle(call) \/ Answer(call) \/ Receive(call) \/ ReceiveError(call))

Next ==
  \/ RivalMoves \/ TurnExpires \/ Server
  \/ \E p \in Pages :
       \/ \E kind \in {"JOIN", "LEAVE", "BET"} : Click(p, kind)
       \/ Serve(p) \/ Socket(p) \/ SocketBreaks(p) \/ Timer(p)
  \/ \E call \in calls : Fail(call)

Spec == Init /\ [][Next]_vars

\* Requests are answered or fail, the timer goes on, sockets are opened and read.
\* Users do what they like.
FairSpec ==
  /\ Spec /\ WF_vars(Server)
  /\ \A p \in Pages : SF_vars(Serve(p)) /\ SF_vars(Timer(p)) /\ WF_vars(Socket(p))

-----------------------------------------------------------------------------

\* Answers that overtake each other, refreshes that fail and sockets that fall behind:
\* when the table comes to rest, a page that plays there shows what it is.
ShowsLatest ==
  <>[](\A p \in Pages : page[p].joined => page[p].shown = View(p))

\* A player whose page saw a hand run and shows the showdown is not sent away for not
\* confirming, if the ten seconds were enough for what the page asked and nothing failed:
\* a confirmation is never repeated.
KeptIfShown ==
  [][\A p \in Pages :
       /\ monitor = "wait" /\ monitor' = "start" /\ table.phase = "showdown" /\ failures = 0
       /\ page[p].joined /\ page[p].seen /\ page[p].shown = View(p)
       /\ p \in table.seated /\ ~\E call \in calls : call.page = p
       => p \in table'.seated]_vars
=============================================================================
