------------------------------ MODULE TcpClient ------------------------------
(***************************************************************************)
(* The terminal client (Client/src/lib.rs, Client/src/main.rs) and the     *)
(* threads of the server that answer it (Server/src/clienthandler.rs).     *)
(*                                                                         *)
(* The client is three threads.  main walks from the lobby's menu into a   *)
(* game and back, stopping and starting the two listeners on the way; the  *)
(* TCP listener polls the stream; the UDP listener answers a multicast     *)
(* [UPDATED] with the command UPDATE.  A command holds the mutex of the    *)
(* stream from its write until a blocking read without a timeout returns,  *)
(* and takes whatever that read brings for its answer.                     *)
(*                                                                         *)
(* Assumed of time, which the model has none of: the server is done with   *)
(* a connection before the client's next one to it joins (half a second    *)
(* and a user's choice lie between), and two seconds of sleep are enough   *)
(* for the server to answer and for the listener to drain the stream.      *)
(***************************************************************************)
EXTENDS Naturals, Sequences, Functions

CONSTANTS
  Games,    \* the games the server offers
  None,     \* the mutex is free
  Expires,  \* whether a turn may last longer than TURN_TIMEOUT
  Refuses,  \* whether a connection may be refused
  MaxInbox  \* bound: the server adds a message unasked only to a stream with less

ASSUME PlacesAssumption ==
  /\ "lobby" \notin Games
  /\ None \notin Games \cup {"main", "udp", "JOIN", "LEAVE", "BET", "UPDATE"}

VARIABLES
  main,         \* where the main thread is
  after,        \* where main goes on when stop_listeners returns
  goal,         \* the target of reconnect_to
  call,         \* the command main and the UDP listener are sending
  reply,        \* what main's last command read
  tcp, udp,     \* where the two listeners are
  running,
  reconnecting,
  listed,       \* available_games is not empty
  holder,       \* who holds the mutex of tcp_stream
  stream,       \* tcp_stream, with the bytes under way in both directions
  port,
  group,        \* the server whose multicasts udp_socket hears
  news,         \* an [UPDATED] waits in udp_socket
  handler       \* the server's thread at the other end of the stream

client == <<main, after, goal, call, reply, tcp, udp, running,
            reconnecting, listed, holder, port, group>>
vars == <<client, stream, news, handler>>

Lobby == "lobby"
Callers == {"main", "udp"}
Idle == [step |-> "idle", command |-> None]

Connection(place) == [at |-> place, state |-> "open", in |-> <<>>, out |-> <<>>]

Handler(place) == [at |-> IF place = Lobby THEN "greet" ELSE "serve",
                   joined |-> FALSE, seated |-> FALSE, turn |-> FALSE]

\* Client::new, then main's start_listeners and join.
Init ==
  /\ main = "joining" /\ after = "menu" /\ goal = Lobby
  /\ call = [t \in Callers |->
               IF t = "main" THEN [step |-> "write", command |-> "JOIN"] ELSE Idle]
  /\ reply = <<>> /\ tcp = "check" /\ udp = "check"
  /\ running = TRUE /\ reconnecting = FALSE /\ listed = FALSE /\ holder = None
  /\ stream = Connection(Lobby) /\ handler = Handler(Lobby)
  /\ port = Lobby /\ group = Lobby /\ news = FALSE

-----------------------------------------------------------------------------
(* send_command, by main or by the UDP listener *)

Dials(place) ==
  \/ stream' = Connection(place) /\ handler' = Handler(place)
  \/ Refuses /\ UNCHANGED <<stream, handler>>

Returns(t, bytes) ==
  /\ call' = [call EXCEPT ![t] = Idle]
  /\ holder' = None
  /\ reply' = IF t = "main" THEN bytes ELSE reply

\* The first write after the server closed still succeeds, and resets the stream.
Write(t) ==
  /\ call[t].step = "write" /\ holder = None
  /\ \/ /\ stream.state = "open"
        /\ stream' = [stream EXCEPT !.out = Append(@, call[t].command)]
        /\ holder' = t /\ call' = [call EXCEPT ![t].step = "read"]
     \/ /\ stream.state = "closed" /\ stream' = [stream EXCEPT !.state = "reset"]
        /\ holder' = t /\ call' = [call EXCEPT ![t].step = "read"]
     \/ /\ stream.state = "reset" /\ UNCHANGED <<stream, holder>>
        /\ call' = [call EXCEPT ![t].step = "redial"]
  /\ UNCHANGED <<main, after, goal, reply, tcp, udp, running, reconnecting,
                 listed, port, group, news, handler>>

Read(t) ==
  /\ call[t].step = "read"
  /\ \/ /\ stream.in # <<>> \/ stream.state # "open"
        /\ Returns(t, stream.in) /\ stream' = [stream EXCEPT !.in = <<>>]
     \/ /\ stream.state = "reset" /\ UNCHANGED <<stream, reply>>
        /\ holder' = None /\ call' = [call EXCEPT ![t].step = "redial"]
  /\ UNCHANGED <<main, after, goal, tcp, udp, running, reconnecting, listed,
                 port, group, news, handler>>

\* reconnect: a new stream to the same port.  Nobody joins again.
Redial(t) ==
  /\ call[t].step = "redial" /\ holder = None
  /\ Dials(port) /\ Returns(t, <<>>)
  /\ UNCHANGED <<main, after, goal, tcp, udp, running, reconnecting, listed,
                 port, group, news>>

Sends(t, command) ==
  call' = [call EXCEPT ![t] = [step |-> "write", command |-> command]]

-----------------------------------------------------------------------------
(* main *)

At(here) == main = here /\ call["main"] = Idle

Elsewhere == UNCHANGED <<reply, listed, holder, stream, news, handler>>

Goes(there) ==
  /\ main' = there /\ Elsewhere
  /\ UNCHANGED <<after, goal, call, tcp, udp, running, reconnecting, port, group>>

GoesSending(there, command) ==
  /\ main' = there /\ Sends("main", command) /\ Elsewhere
  /\ UNCHANGED <<after, tcp, udp, running, reconnecting, port, group>>

Stops(then) ==
  /\ main' = "halt" /\ after' = then /\ Elsewhere
  /\ UNCHANGED <<call, tcp, udp, running, port, group>>

Joined == At("joining") /\ Goes(IF goal = Lobby THEN "menu" ELSE "play")

\* take_lobby_input without a game to show, or without a valid choice.
GiveUp == At("menu") /\ Goes("asleep")

Choose(game) ==
  /\ At("menu") /\ listed
  /\ GoesSending("asked", game) /\ UNCHANGED goal

Exit == At("menu") /\ listed /\ Stops("end") /\ UNCHANGED <<goal, reconnecting>>

\* The text between the first [GAME_INFO] and the next one must be a JSON object.
GameInfo(bytes) ==
  {bytes[i] : i \in {k \in DOMAIN bytes :
     /\ bytes[k] \in Games /\ \A j \in 1 .. k - 1 : bytes[j] \notin Games
     /\ k = Len(bytes) \/ bytes[k + 1] \in Games}}

Answered ==
  /\ At("asked")
  /\ \/ \E game \in GameInfo(reply) :
          /\ holder = None /\ goal' = game
          /\ GoesSending("leavingLobby", "LEAVE")
     \/ (GameInfo(reply) = {} \/ stream.state = "reset") /\ Goes("asleep")

\* The sleep of two seconds: the server has answered by then, and the TCP
\* listener, if there is one, has read what it said.
Wake ==
  /\ At("asleep") /\ stream.out = <<>>
  /\ tcp = "none" \/ stream.in = <<>>
  /\ Goes("menu")

LeftLobby == At("leavingLobby") /\ Stops("dial") /\ UNCHANGED <<goal, reconnecting>>

Act(command) ==
  At("play") /\ GoesSending("acting", command) /\ UNCHANGED goal

Acted == At("acting") /\ Goes("play")

\* take_input's LEAVE, and main's own leave_game after it.
Leave == At("play") /\ GoesSending("leaving", "LEAVE") /\ UNCHANGED goal

LeaveAgain ==
  At("leaving") /\ GoesSending("leavingAgain", "LEAVE") /\ UNCHANGED goal

Left == At("leavingAgain") /\ Stops("dial") /\ goal' = Lobby /\ UNCHANGED reconnecting

\* stop_listeners: the flag, the two joins, the flag again.
Halt ==
  /\ At("halt") /\ running' = FALSE /\ main' = "joinTcp" /\ Elsewhere
  /\ UNCHANGED <<after, goal, call, tcp, udp, reconnecting, port, group>>

JoinTcp ==
  /\ At("joinTcp") /\ tcp \in {"none", "over"} /\ tcp' = "none"
  /\ main' = "joinUdp" /\ Elsewhere
  /\ UNCHANGED <<after, goal, call, udp, running, reconnecting, port, group>>

\* mutant: the flag stays down
JoinUdpOff ==
  /\ At("joinUdp") /\ udp \in {"none", "over"} /\ udp' = "none"
  /\ main' = after /\ Elsewhere
  /\ UNCHANGED <<after, goal, call, tcp, running, reconnecting, port, group>>

JoinUdp ==
  /\ At("joinUdp") /\ udp \in {"none", "over"} /\ udp' = "none"
  /\ running' = TRUE /\ main' = after /\ Elsewhere
  /\ UNCHANGED <<after, goal, call, tcp, reconnecting, port, group>>

\* reconnect_to, which stops the listeners that main has stopped already.
Dial == At("dial") /\ reconnecting' = TRUE /\ Stops("connect") /\ UNCHANGED goal

\* do_reconnect: everything that can fail, then the four assignments.
Connect ==
  /\ At("connect") /\ holder = None
  /\ \/ /\ stream' = Connection(goal) /\ handler' = Handler(goal)
        /\ main' = "setPort"
     \/ /\ Refuses /\ main' = "failed" /\ UNCHANGED <<stream, handler>>
  /\ UNCHANGED <<after, goal, call, reply, tcp, udp, running, reconnecting,
                 listed, holder, port, group, news>>

\* mutant: the port stays that of the server before
SetPortNot ==
  /\ At("setPort") /\ main' = "setGroup" /\ Elsewhere
  /\ UNCHANGED <<after, goal, call, tcp, udp, running, reconnecting, port, group>>

SetPort ==
  /\ At("setPort") /\ port' = goal /\ main' = "setGroup" /\ Elsewhere
  /\ UNCHANGED <<after, goal, call, tcp, udp, running, reconnecting, group>>

SetGroup ==
  /\ At("setGroup") /\ group' = goal /\ news' = FALSE /\ main' = "start"
  /\ UNCHANGED <<after, goal, call, reply, tcp, udp, running, reconnecting,
                 listed, holder, stream, port, handler>>

Started(listener) == IF listener = "none" THEN "check" ELSE listener

StartListeners ==
  /\ At("start") /\ tcp' = Started(tcp) /\ udp' = Started(udp)
  /\ main' = "connected" /\ Elsewhere
  /\ UNCHANGED <<after, goal, call, running, reconnecting, port, group>>

\* Back in main, which starts the listeners once more and joins.
Connected ==
  /\ At("connected") /\ reconnecting' = FALSE
  /\ tcp' = Started(tcp) /\ udp' = Started(udp)
  /\ main' = "joining" /\ Sends("main", "JOIN") /\ Elsewhere
  /\ UNCHANGED <<after, goal, running, port, group>>

Failed ==
  /\ At("failed") /\ reconnecting' = FALSE /\ goal' = Lobby
  /\ main' = IF goal = Lobby THEN "asleep" ELSE "dial"
  /\ Elsewhere /\ UNCHANGED <<after, call, tcp, udp, running, port, group>>

-----------------------------------------------------------------------------
(* The listeners *)

\* mutant: the listener does not look at the flag
TcpCheckNot ==
  /\ tcp = "check" /\ ~reconnecting /\ tcp' = "read"
  /\ UNCHANGED <<main, after, goal, call, reply, udp, running, reconnecting,
                 listed, holder, stream, port, group, news, handler>>

TcpCheck ==
  /\ tcp = "check" /\ (running => ~reconnecting)
  /\ tcp' = IF running THEN "read" ELSE "over"
  /\ UNCHANGED <<main, after, goal, call, reply, udp, running, reconnecting,
                 listed, holder, stream, port, group, news, handler>>

\* Whatever the stream holds is shown, and a list of games is kept.
TcpRead ==
  /\ tcp = "read" /\ holder = None
  /\ listed' = (listed \/ ("GAMES" \in Range(stream.in) /\ "UPDATE" \notin Range(stream.in)))
  /\ stream' = [stream EXCEPT !.in = <<>>]
  /\ tcp' = "check"
  /\ UNCHANGED <<main, after, goal, call, reply, udp, running, reconnecting,
                 holder, port, group, news, handler>>

UdpCheck ==
  /\ udp = "check" /\ (running => ~reconnecting)
  /\ udp' = IF running THEN "receive" ELSE "over"
  /\ UNCHANGED <<main, after, goal, call, reply, tcp, running, reconnecting,
                 listed, holder, stream, port, group, news, handler>>

UdpReceive ==
  /\ udp = "receive" /\ news' = FALSE
  /\ \/ /\ news /\ udp' = "update"
        /\ call' = [call EXCEPT !["udp"] = [step |-> "write", command |-> "UPDATE"]]
     \/ ~news /\ udp' = "check" /\ UNCHANGED call
  /\ UNCHANGED <<main, after, goal, reply, tcp, running, reconnecting,
                 listed, holder, stream, port, group, handler>>

Updated ==
  /\ udp = "update" /\ call["udp"] = Idle /\ udp' = "check"
  /\ UNCHANGED <<main, after, goal, call, reply, tcp, running, reconnecting,
                 listed, holder, stream, port, group, news, handler>>

-----------------------------------------------------------------------------
(* The server's end of the stream *)

Says(messages) == stream' = [stream EXCEPT !.in = @ \o messages, !.out = <<>>]

Closes(messages) ==
  /\ stream' = [stream EXCEPT !.in = @ \o messages, !.out = <<>>, !.state = "closed"]
  /\ handler' = [handler EXCEPT !.at = "gone", !.seated = FALSE, !.turn = FALSE]

Serving(place) == handler.at = "serve" /\ stream.at \in place

Greet ==
  /\ handler.at = "greet" /\ handler' = [handler EXCEPT !.at = "serve"]
  /\ stream' = [stream EXCEPT !.in = @ \o <<"WELCOME", "GAMES">>]
  /\ UNCHANGED <<client, news>>

\* handle_lobby_client reads line by line; a game's name is its [GAME_INFO] here.
LobbyAnswers ==
  /\ Serving({Lobby}) /\ stream.out # <<>>
  /\ LET line == Head(stream.out)
     IN stream' = [stream EXCEPT !.in = Append(@, IF line \in Games THEN line ELSE "ERROR"),
                                 !.out = Tail(@)]
  /\ UNCHANGED <<client, news, handler>>

\* start_lobby's thread tells every lobby client the games every ten seconds.
LobbyNotifies ==
  /\ Serving({Lobby}) /\ Len(stream.in \o stream.out) < MaxInbox
  /\ stream' = [stream EXCEPT !.in = Append(@, "GAMES")]
  /\ UNCHANGED <<client, news, handler>>

\* No client ever sends PONG, so the ping after a minute always fails.
LobbyPings == Serving({Lobby}) /\ Closes(<<"PING">>) /\ UNCHANGED <<client, news>>

\* What handle_game_client reads at once is one request, however many lines it is.
Requests(lines) == Serving(Games) /\ stream.out # <<>> /\ lines = stream.out

HandleJoin ==
  /\ Requests(<<"JOIN">>)
  /\ \/ /\ ~handler.seated /\ Says(<<"UPDATE", "JOINED">>)
        /\ handler' = [handler EXCEPT !.joined = TRUE, !.seated = TRUE]
     \/ Closes(<<"ERROR">>)
  /\ UNCHANGED <<client, news>>

HandleLeave ==
  /\ Requests(<<"LEAVE">>) /\ handler.joined
  /\ Closes(<<"REMOVED">>) /\ UNCHANGED <<client, news>>

\* player_send answers a player at the table; its Err is only logged.
HandleUpdate ==
  /\ Requests(<<"UPDATE">>) /\ handler.joined
  /\ Says(IF handler.seated THEN <<"UPDATE">> ELSE <<>>)
  /\ UNCHANGED <<client, news, handler>>

\* player_send writes to the player's stream, and the handler writes its result.
HandleBet ==
  /\ Requests(<<"BET">>) /\ handler.turn
  /\ \/ Says(<<"ERROR">>) /\ UNCHANGED handler
     \/ /\ Says(<<"UPDATE", "UPDATE">>)
        /\ handler' = [handler EXCEPT !.turn = FALSE]
  /\ UNCHANGED <<client, news>>

HandleOther ==
  /\ Requests(stream.out) /\ Says(<<"ERROR">>)
  /\ stream.out # <<"JOIN">>
  /\ stream.out = <<"BET">> => ~handler.turn
  /\ stream.out \in {<<"LEAVE">>, <<"UPDATE">>} => ~handler.joined
  /\ UNCHANGED <<client, news, handler>>

\* The others play: the turn comes, a round's multicast, the end of a hand.
TurnComes ==
  /\ Serving(Games) /\ handler.seated /\ ~handler.turn
  /\ handler' = [handler EXCEPT !.turn = TRUE] /\ UNCHANGED <<client, stream, news>>

Multicasts ==
  /\ group \in Games /\ ~news /\ news' = TRUE
  /\ UNCHANGED <<client, stream, handler>>

HandEnds ==
  /\ Serving(Games) /\ handler.seated /\ Len(stream.in \o stream.out) < MaxInbox
  /\ stream' = [stream EXCEPT !.in = Append(@, "UPDATE")]
  /\ handler' = [handler EXCEPT !.turn = FALSE] /\ UNCHANGED <<client, news>>

\* The monitor removes the player and multicasts; the connection stays.
TurnExpires ==
  /\ Expires /\ Serving(Games) /\ handler.turn
  /\ handler' = [handler EXCEPT !.seated = FALSE, !.turn = FALSE]
  /\ news' = (news \/ group = stream.at) /\ UNCHANGED <<client, stream>>

\* The ping of a player who has been silent for half a minute of his turn.
TurnPings ==
  Serving(Games) /\ handler.turn /\ Closes(<<"PING">>) /\ UNCHANGED <<client, news>>

-----------------------------------------------------------------------------

Main ==
  \/ Joined \/ Answered \/ Wake \/ LeftLobby \/ Acted \/ LeaveAgain \/ Left
  \/ Halt \/ JoinTcp \/ JoinUdp \/ Dial \/ Connect \/ SetPort \/ SetGroup
  \/ StartListeners \/ Connected \/ Failed

User ==
  \/ GiveUp \/ Exit \/ Leave
  \/ \E game \in Games : Choose(game)
  \/ \E command \in {"BET", "UPDATE"} : Act(command)

Sending(t) == Write(t) \/ Read(t) \/ Redial(t)

MainThread == Main \/ Sending("main")
TcpThread == TcpCheck \/ TcpRead
UdpThread == UdpCheck \/ UdpReceive \/ Updated \/ Sending("udp")

Handles ==
  \/ Greet \/ LobbyAnswers \/ HandleJoin \/ HandleLeave \/ HandleUpdate
  \/ HandleBet \/ HandleOther

Unasked ==
  \/ LobbyNotifies \/ LobbyPings \/ TurnComes \/ Multicasts \/ HandEnds
  \/ TurnExpires \/ TurnPings

Finished == main = "end" /\ UNCHANGED vars

Next ==
  MainThread \/ TcpThread \/ UdpThread \/ User \/ Handles \/ Unasked \/ Finished

Spec == Init /\ [][Next]_vars

\* Every thread goes on, and a mutex that is free again and again is had in the
\* end.  The users and what the server sends unasked are owed nothing.
FairSpec ==
  /\ Spec /\ WF_vars(Handles)
  /\ SF_vars(MainThread) /\ SF_vars(TcpThread) /\ SF_vars(UdpThread)

-----------------------------------------------------------------------------

Places == Games \cup {Lobby}
Commands == Games \cup {"JOIN", "LEAVE", "BET", "UPDATE"}
Messages == Games \cup {"WELCOME", "GAMES", "ERROR", "PING", "JOINED", "UPDATE", "REMOVED"}

MainStates ==
  {"joining", "menu", "asleep", "asked", "leavingLobby", "play", "acting", "leaving",
   "leavingAgain", "halt", "joinTcp", "joinUdp", "dial", "connect", "setPort",
   "setGroup", "start", "connected", "failed", "end"}

MainTypes ==
  /\ main \in MainStates /\ after \in {"menu", "dial", "connect", "end"}
  /\ goal \in Places
  /\ port \in Places /\ group \in Places

ListenerTypes ==
  /\ tcp \in {"none", "check", "read", "over"}
  /\ udp \in {"none", "check", "receive", "update", "over"}
  /\ running \in BOOLEAN /\ reconnecting \in BOOLEAN
  /\ listed \in BOOLEAN /\ news \in BOOLEAN

CallTypes ==
  /\ call \in [Callers -> [step : {"idle", "write", "read", "redial"},
                          command : Commands \cup {None}]]
  /\ holder \in Callers \cup {None}
  /\ \A t \in Callers :
       /\ call[t].step = "read" <=> holder = t
       /\ call[t].step = "idle" <=> call[t].command = None

Streams == [at : Places, state : {"open", "closed", "reset"},
            in : Seq(Messages), out : Seq(Commands)]

Handlers == [at : {"greet", "serve", "gone"},
             joined : BOOLEAN, seated : BOOLEAN, turn : BOOLEAN]

StreamTypes ==
  /\ stream \in Streams /\ reply \in Seq(Messages)
  /\ handler \in Handlers
  /\ stream.state = "closed" => handler.at = "gone"

\* Types; whoever reads an answer, and nobody else, holds the mutex of the stream;
\* a connection is closed by a handler that is gone.
TypeOK == MainTypes /\ ListenerTypes /\ CallTypes /\ StreamTypes

\* "Update all client state in a synchronized way": do_reconnect sets the stream,
\* the port and the socket one by one, and no listener ever sees some of them old.
OneServer ==
  tcp # "none" \/ udp # "none" => stream.at = port /\ group = port

\* Whoever plays is listening: neither listener is missing or on its way out.
Listening ==
  main \in {"play", "acting", "leaving"} =>
    tcp \in {"check", "read"} /\ udp \in {"check", "receive", "update"}

\* UPDATE is sent for a player whose turn expired: player_send fails, its Err is
\* only logged, and nothing answers the command (clienthandler.rs:164).
Unanswered == holder = "udp" /\ stream.state = "open" /\ handler.joined /\ ~handler.seated

\* Leaving a game leads back to the menu, and leaving the lobby into a game or back
\* to the menu: the commands are answered, both listeners end, and nobody holds the
\* stream for ever, but for the listener whose UPDATE nobody answers.
LeaveLeaves ==
  \/ /\ main = "leaving" ~> main = "menu"
     /\ main = "leavingLobby" ~> main \in {"play", "menu"}
  \/ <>[]Unanswered
=============================================================================
