---------------------------- MODULE ClientAndHands ----------------------------
(***************************************************************************)
(* Theorems about the two parts of the program that know of no table.      *)
(*                                                                         *)
(* TcpClient, for every set of games and with turns that expire and        *)
(* connections that are refused: the stream has one reader of answers at a *)
(* time, no listener sees half a reconnection, and whoever plays is        *)
(* listening.                                                              *)
(*                                                                         *)
(* HandRank, for hands of every length: Ord for HandRank is an order, and  *)
(* hands that are not the same cards never tie.                            *)
(***************************************************************************)
EXTENDS TcpClient, TwoHands, FiniteSetTheorems, SequenceTheorems, WellFoundedInduction, TLAPS

\* Between stop_listeners and start_listeners there is no listener, and the three
\* halves of a reconnection follow each other.
Deaf ==
  /\ main \in {"connect", "setPort", "setGroup", "start", "failed"} =>
       tcp = "none" /\ udp = "none"
  /\ main = "joinUdp" => tcp = "none"

Halfway ==
  /\ main = "setPort" => stream.at = goal
  /\ main = "setGroup" => stream.at = goal /\ port = goal
  /\ main \notin {"setPort", "setGroup"} => stream.at = port /\ group = port

\* A thread sends only where its program does.
Alone ==
  /\ call["main"].step # "idle" =>
       main \in {"joining", "asked", "leavingLobby", "acting", "leaving", "leavingAgain"}
  /\ call["udp"].step # "idle" => udp = "update"

\* The flag is down while main joins the listeners, and only then one may be over.
Flag ==
  /\ running <=> main \notin {"joinTcp", "joinUdp"}
  /\ tcp = "over" => main = "joinTcp"
  /\ udp = "over" => main \in {"joinTcp", "joinUdp"}

Awake ==
  main \in {"connected", "joining", "play", "acting", "leaving", "leavingAgain"} =>
    tcp # "none" /\ udp # "none"

IInv == TypeOK /\ Deaf /\ Halfway /\ Alone /\ Flag /\ Awake

LEMMA Fresh ==
  ASSUME NEW place \in Places
  PROVE  /\ Connection(place) \in Streams
         /\ Connection(place).at = place /\ Connection(place).state = "open"
         /\ Handler(place) \in Handlers
BY DEF Connection, Handler, Streams, Handlers

\* Bytes come and go without another effect on the stream.
LEMMA Bytes ==
  ASSUME NEW s \in Streams, NEW messages \in Seq(Messages), NEW commands \in Seq(Commands),
         NEW state \in {"open", "closed", "reset"}
  PROVE  /\ [s EXCEPT !.in = messages] \in Streams
         /\ [s EXCEPT !.out = commands] \in Streams
         /\ [s EXCEPT !.state = state] \in Streams
         /\ [s EXCEPT !.in = messages, !.out = commands] \in Streams
         /\ [s EXCEPT !.in = messages, !.out = commands, !.state = state] \in Streams
         /\ s.in \o messages \in Seq(Messages)
<1>1. s.in \in Seq(Messages)
  BY DEF Streams
<1>2. s.in \o messages \in Seq(Messages)
  BY <1>1, ConcatProperties
<1> QED BY <1>2 DEF Streams

\* A command begins with a free thread.
LEMMA Sent ==
  ASSUME CallTypes, NEW t \in Callers, NEW command \in Commands,
         call[t] = Idle, Sends(t, command), UNCHANGED holder
  PROVE  /\ CallTypes' /\ call'[t].step = "write"
         /\ \A u \in Callers \ {t} : call'[u] = call[u]
<1>1. command # None
  BY PlacesAssumption DEF Commands
<1> QED BY <1>1 DEF CallTypes, Idle, Sends

LEMMA InitIInv == Init => IInv
<1> SUFFICES ASSUME Init PROVE IInv
  OBVIOUS
<1>1. MainTypes
  BY DEF Init, MainTypes, MainStates, Places
<1>2. ListenerTypes
  BY DEF Init, ListenerTypes
<1>3. call["main"] = [step |-> "write", command |-> "JOIN"] /\ call["udp"] = Idle
  BY DEF Init, Callers
<1>4. CallTypes
  <2>1. "JOIN" \in Commands /\ None \notin {"JOIN", "main", "udp"}
    BY PlacesAssumption DEF Commands
  <2> QED BY <1>3, <2>1, PlacesAssumption DEF Init, CallTypes, Callers, Idle
<1>5. StreamTypes
  BY Fresh DEF Init, StreamTypes, Lobby, Places
<1>6. Deaf /\ Halfway /\ Flag /\ Awake
  BY DEF Init, Deaf, Halfway, Flag, Awake, Connection
<1>7. Alone
  BY <1>3 DEF Init, Alone, Idle
<1> QED BY <1>1, <1>2, <1>4, <1>5, <1>6, <1>7 DEF IInv, TypeOK

\* The steps of main that call no command, and those that start one.
LEMMA MainSteps == IInv /\ (Main \/ User) => IInv'
<1> SUFFICES ASSUME IInv, Main \/ User PROVE IInv'
  OBVIOUS
<1> USE PlacesAssumption
    DEF IInv, TypeOK, MainTypes, ListenerTypes, CallTypes, StreamTypes, Deaf, Halfway, Alone,
        Flag, Awake, At, Elsewhere, Idle, MainStates, Places, Callers
<1>1. CASE Joined
  BY <1>1 DEF Joined, Goes
<1>2. CASE Wake
  BY <1>2 DEF Wake, Goes
<1>3. CASE Acted
  BY <1>3 DEF Acted, Goes
<1>4. CASE GiveUp
  BY <1>4 DEF GiveUp, Goes
<1>5. CASE LeftLobby
  BY <1>5 DEF LeftLobby, Stops
<1>6. CASE Exit
  BY <1>6 DEF Exit, Stops
<1>7. CASE Left
  BY <1>7 DEF Left, Stops
<1>8. CASE Dial
  BY <1>8 DEF Dial, Stops
<1>9. CASE Halt
  <2>1. MainTypes'
    BY <1>9 DEF Halt
  <2>4. ListenerTypes'
    BY <1>9 DEF Halt
  <2>2. CallTypes' /\ StreamTypes'
    BY <1>9 DEF Halt
  <2>3. (Deaf /\ Halfway /\ Alone /\ Flag /\ Awake)'
    BY <1>9 DEF Halt
  <2> QED BY <2>1, <2>2, <2>3, <2>4
<1>10. CASE JoinTcp
  BY <1>10 DEF JoinTcp
<1>11. CASE JoinUdp
  BY <1>11 DEF JoinUdp
<1>12. CASE SetPort
  BY <1>12 DEF SetPort
<1>13. CASE SetGroup
  <2>1. MainTypes' /\ ListenerTypes'
    BY <1>13 DEF SetGroup
  <2>2. CallTypes' /\ StreamTypes'
    BY <1>13 DEF SetGroup
  <2>3. (Deaf /\ Halfway /\ Alone /\ Flag /\ Awake)'
    BY <1>13 DEF SetGroup
  <2> QED BY <2>1, <2>2, <2>3
<1>14. CASE StartListeners
  <2>1. TypeOK'
    BY <1>14 DEF StartListeners, Started
  <2>2. (Deaf /\ Halfway /\ Alone /\ Flag /\ Awake)'
    BY <1>14 DEF StartListeners, Started
  <2> QED BY <2>1, <2>2
<1>15. CASE Failed
  <2>1. MainTypes' /\ ListenerTypes'
    BY <1>15 DEF Failed
  <2>2. CallTypes' /\ StreamTypes'
    BY <1>15 DEF Failed
  <2>3. (Deaf /\ Halfway /\ Alone /\ Flag /\ Awake)'
    BY <1>15 DEF Failed
  <2> QED BY <2>1, <2>2, <2>3
<1>16. CASE Connect
  <2>1. StreamTypes'
    BY <1>16, Fresh DEF Connect
  <2>2. MainTypes' /\ ListenerTypes' /\ CallTypes'
    BY <1>16 DEF Connect
  <2>3. (Deaf /\ Halfway /\ Alone /\ Flag /\ Awake)'
    BY <1>16, Fresh DEF Connect
  <2> QED BY <2>1, <2>2, <2>3
<1>17. CASE Connected
  <2>1. MainTypes' /\ ListenerTypes'
    BY <1>17 DEF Connected, Started
  <2>2. CallTypes' /\ StreamTypes'
    BY <1>17 DEF Connected, Sends, Commands
  <2>3. (Deaf /\ Halfway /\ Alone /\ Flag /\ Awake)'
    BY <1>17 DEF Connected, Sends, Started
  <2> QED BY <2>1, <2>2, <2>3
<1>18. CASE Leave
  BY <1>18, Sent DEF Leave, GoesSending, Commands
<1>19. CASE LeaveAgain
  BY <1>19 DEF LeaveAgain, GoesSending, Sends, Commands
<1>20. CASE Answered
  <2>1. CASE Goes("asleep")
    BY <1>20, <2>1 DEF Answered, Goes
  <2>2. ASSUME NEW game \in GameInfo(reply), goal' = game,
               GoesSending("leavingLobby", "LEAVE")
        PROVE  IInv'
    <3>1. game \in Games
      BY <2>2 DEF GameInfo
    <3>2. MainTypes' /\ ListenerTypes' /\ StreamTypes'
      BY <1>20, <2>2, <3>1 DEF Answered, GoesSending
    <3>3. CallTypes'
      BY <1>20, <2>2 DEF Answered, GoesSending, Sends, Commands
    <3>4. (Deaf /\ Halfway /\ Alone /\ Flag /\ Awake)'
      BY <1>20, <2>2 DEF Answered, GoesSending, Sends
    <3> QED BY <3>2, <3>3, <3>4
  <2> QED BY <1>20, <2>1, <2>2 DEF Answered
<1>21. ASSUME NEW game \in Games, Choose(game) PROVE IInv'
  BY <1>21 DEF Choose, GoesSending, Sends, Commands
<1>22. ASSUME NEW command \in {"BET", "UPDATE"}, Act(command) PROVE IInv'
  BY <1>22 DEF Act, GoesSending, Sends, Commands
<1> QED
  BY <1>1, <1>2, <1>3, <1>4, <1>5, <1>6, <1>7, <1>8, <1>9, <1>10, <1>11, <1>12, <1>13,
     <1>14, <1>15, <1>16, <1>17, <1>18, <1>19, <1>20, <1>21, <1>22 DEF Main, User

\* send_command, whoever calls it.
LEMMA CallSteps ==
  ASSUME IInv, NEW t \in Callers, Sending(t)
  PROVE  IInv'
<1> USE PlacesAssumption
    DEF IInv, TypeOK, MainTypes, ListenerTypes, CallTypes, StreamTypes, Deaf, Halfway, Alone,
        Flag, Awake, Callers
<1>1. CASE Write(t)
  <2>1. MainTypes' /\ ListenerTypes'
    BY <1>1 DEF Write
  <2>2. CallTypes'
    BY <1>1 DEF Write
  <2>3. call[t].command \in Commands
    BY <1>1 DEF Write
  <2>4. Append(stream.out, call[t].command) \in Seq(Commands)
    BY <2>3 DEF Streams
  <2>5. StreamTypes' /\ stream'.at = stream.at
    <3>1. CASE stream' = [stream EXCEPT !.out = Append(@, call[t].command)]
      <4>1. stream' \in Streams /\ stream'.at = stream.at /\ stream'.state = stream.state
        BY <2>4, <3>1, Bytes DEF Streams
      <4> QED BY <1>1, <4>1 DEF Write
    <3>2. CASE stream' = [stream EXCEPT !.state = "reset"]
      <4>1. stream' \in Streams /\ stream'.at = stream.at /\ stream'.state = "reset"
        BY <3>2, Bytes DEF Streams
      <4> QED BY <1>1, <4>1 DEF Write
    <3>3. CASE UNCHANGED stream
      BY <1>1, <3>3 DEF Write
    <3> QED BY <1>1, <3>1, <3>2, <3>3 DEF Write
  <2>6. (Deaf /\ Halfway /\ Alone /\ Flag /\ Awake)'
    BY <1>1, <2>5 DEF Write
  <2> QED BY <2>1, <2>2, <2>5, <2>6
<1>2. CASE Read(t)
  <2>1. MainTypes' /\ ListenerTypes'
    BY <1>2 DEF Read
  <2>2. CallTypes'
    <3>0. holder = t
      <4>1. call[t].step = "read"
        BY <1>2 DEF Read
      <4>2. \A u \in Callers : call[u].step = "read" <=> holder = u
        OBVIOUS
      <4> QED BY <4>1, <4>2
    <3>3. None # "main" /\ None # "udp"
      OBVIOUS
    <3>1. CASE Returns(t, stream.in)
      <4>1. call' = [call EXCEPT ![t] = Idle] /\ holder' = None
        BY <3>1 DEF Returns
      <4> QED BY <3>0, <3>3, <4>1 DEF Idle
    <3>2. CASE holder' = None /\ call' = [call EXCEPT ![t].step = "redial"]
      BY <3>0, <3>2, <3>3
    <3> QED BY <1>2, <3>1, <3>2 DEF Read
  <2>3. stream.in \in Seq(Messages) /\ <<>> \in Seq(Messages)
    BY DEF Streams
  <2>4. StreamTypes' /\ stream'.at = stream.at
    <3>1. CASE Returns(t, stream.in) /\ stream' = [stream EXCEPT !.in = <<>>]
      <4>1. stream' \in Streams /\ stream'.at = stream.at /\ stream'.state = stream.state
        BY <2>3, <3>1, Bytes DEF Streams
      <4>2. reply' \in Seq(Messages)
        BY <2>3, <3>1 DEF Returns
      <4> QED BY <1>2, <4>1, <4>2 DEF Read
    <3>2. CASE UNCHANGED <<stream, reply>>
      BY <1>2, <3>2 DEF Read
    <3> QED BY <1>2, <3>1, <3>2 DEF Read
  <2>5. (Deaf /\ Halfway /\ Alone /\ Flag /\ Awake)'
    BY <1>2, <2>4 DEF Read, Returns, Idle
  <2> QED BY <2>1, <2>2, <2>4, <2>5
<1>3. CASE Redial(t)
  <2>1. MainTypes' /\ ListenerTypes'
    BY <1>3 DEF Redial
  <2>2. CallTypes'
    BY <1>3 DEF Redial, Returns, Idle
  <2>3. StreamTypes'
    BY <1>3, Fresh DEF Redial, Returns, Dials
  <2>4. (Deaf /\ Halfway /\ Alone /\ Flag /\ Awake)'
    BY <1>3, Fresh DEF Redial, Returns, Dials, Idle
  <2> QED BY <2>1, <2>2, <2>3, <2>4
<1> QED BY <1>1, <1>2, <1>3 DEF Sending

LEMMA ListenerSteps == IInv /\ (TcpThread \/ UdpThread) => IInv'
<1> SUFFICES ASSUME IInv, TcpThread \/ UdpThread PROVE IInv'
  OBVIOUS
<1> USE PlacesAssumption
    DEF IInv, TypeOK, MainTypes, ListenerTypes, CallTypes, StreamTypes, Deaf, Halfway, Alone,
        Flag, Awake, Idle, Callers
<1>1. CASE TcpCheck
  BY <1>1 DEF TcpCheck
<1>2. CASE TcpRead
  <2>1. StreamTypes' /\ stream'.at = stream.at
    <3>1. <<>> \in Seq(Messages)
      OBVIOUS
    <3>2. stream' \in Streams /\ stream'.at = stream.at /\ stream'.state = stream.state
      BY <1>2, <3>1, Bytes DEF TcpRead, Streams
    <3> QED BY <1>2, <3>2 DEF TcpRead
  <2>2. MainTypes' /\ ListenerTypes' /\ CallTypes'
    BY <1>2 DEF TcpRead
  <2>3. (Deaf /\ Halfway /\ Alone /\ Flag /\ Awake)'
    BY <1>2, <2>1 DEF TcpRead
  <2> QED BY <2>1, <2>2, <2>3
<1>3. CASE UdpCheck
  BY <1>3 DEF UdpCheck
<1>4. CASE UdpReceive
  <2>1. MainTypes' /\ ListenerTypes' /\ StreamTypes'
    BY <1>4 DEF UdpReceive
  <2>2. CallTypes'
    BY <1>4 DEF UdpReceive, Commands
  <2>3. (Deaf /\ Halfway /\ Alone /\ Flag /\ Awake)'
    BY <1>4 DEF UdpReceive
  <2> QED BY <2>1, <2>2, <2>3
<1>5. CASE Updated
  BY <1>5 DEF Updated
<1>6. CASE Sending("udp")
  BY <1>6, CallSteps
<1> QED BY <1>1, <1>2, <1>3, <1>4, <1>5, <1>6 DEF TcpThread, UdpThread

\* The server's threads touch the stream and their own state alone.
LEMMA ServerSteps == IInv /\ (Handles \/ Unasked) => IInv'
<1> SUFFICES ASSUME IInv, Handles \/ Unasked PROVE IInv'
  OBVIOUS
<1> DEFINE Kept == StreamTypes' /\ news' \in BOOLEAN /\ stream'.at = stream.at
<1>1. UNCHANGED client
  BY DEF Handles, Unasked, Greet, LobbyAnswers, HandleJoin, HandleLeave, HandleUpdate, HandleBet,
         HandleOther, LobbyNotifies, LobbyPings, TurnComes, Multicasts, HandEnds, TurnExpires,
         TurnPings
<1>2. /\ stream \in Streams /\ handler \in Handlers /\ reply' = reply /\ reply \in Seq(Messages)
      /\ news \in BOOLEAN
      /\ stream.state = "closed" => handler.at = "gone"
  BY <1>1 DEF IInv, TypeOK, StreamTypes, ListenerTypes, client
<1>3. ASSUME NEW messages \in Seq(Messages), Says(messages)
      PROVE  stream' \in Streams /\ stream'.at = stream.at /\ stream'.state = stream.state
  <2>1. stream.in \o messages \in Seq(Messages) /\ <<>> \in Seq(Commands)
    BY <1>2, ConcatProperties DEF Streams
  <2>2. PICK bytes \in Seq(Messages) : bytes = stream.in \o messages
    BY <2>1
  <2>3. stream' = [stream EXCEPT !.in = bytes, !.out = <<>>]
    BY <1>3, <2>2 DEF Says
  <2> QED BY <1>2, <2>1, <2>3 DEF Streams
<1>4. ASSUME NEW messages \in Seq(Messages), Closes(messages), UNCHANGED news
      PROVE  Kept
  <2>1. stream' \in Streams /\ stream'.at = stream.at
    <3>1. stream.in \o messages \in Seq(Messages) /\ <<>> \in Seq(Commands)
      BY <1>2, ConcatProperties DEF Streams
    <3>2. PICK bytes \in Seq(Messages) : bytes = stream.in \o messages
      BY <3>1
    <3>3. stream' = [stream EXCEPT !.in = bytes, !.out = <<>>, !.state = "closed"]
      BY <1>4, <3>2 DEF Closes
    <3> QED BY <1>2, <3>1, <3>3 DEF Streams
  <2>2. handler' \in Handlers /\ handler'.at = "gone"
    BY <1>2, <1>4 DEF Closes, Handlers
  <2> QED BY <1>2, <1>4, <2>1, <2>2 DEF StreamTypes
<1>5. ASSUME NEW message \in Messages
      PROVE  /\ <<message>> \in Seq(Messages) /\ <<message, message>> \in Seq(Messages)
             /\ Append(stream.in, message) \in Seq(Messages)
  BY <1>2 DEF Streams
<1>6. Kept
  <2>1. CASE Greet
    <3>1. stream.in \o <<"WELCOME", "GAMES">> \in Seq(Messages)
      BY <1>2 DEF Streams, Messages
    <3>2. stream' \in Streams /\ stream'.at = stream.at /\ stream'.state = stream.state
      BY <1>2, <2>1, <3>1, Bytes DEF Greet, Streams
    <3>3. handler' \in Handlers /\ stream.state # "closed"
      BY <1>2, <2>1 DEF Greet, Handlers
    <3> QED BY <1>2, <2>1, <3>2, <3>3 DEF Greet, StreamTypes
  <2>2. CASE LobbyAnswers
    <3>1. Head(stream.out) \in Commands /\ Tail(stream.out) \in Seq(Commands)
      BY <1>2, <2>2 DEF LobbyAnswers, Streams
    <3>2. (IF Head(stream.out) \in Games THEN Head(stream.out) ELSE "ERROR") \in Messages
      BY DEF Messages
    <3>3. stream' \in Streams /\ stream'.at = stream.at /\ stream'.state = stream.state
      BY <1>2, <1>5, <2>2, <3>1, <3>2, Bytes DEF LobbyAnswers, Streams
    <3> QED BY <1>2, <2>2, <3>3 DEF LobbyAnswers, StreamTypes
  <2>3. CASE HandleJoin
    <3>1. <<"UPDATE", "JOINED">> \in Seq(Messages) /\ <<"ERROR">> \in Seq(Messages)
      BY DEF Messages
    <3>2. CASE Closes(<<"ERROR">>)
      BY <1>4, <2>3, <3>1, <3>2 DEF HandleJoin
    <3>3. CASE /\ Says(<<"UPDATE", "JOINED">>)
               /\ handler' = [handler EXCEPT !.joined = TRUE, !.seated = TRUE]
      <4>1. handler' \in Handlers /\ handler'.at = handler.at
        BY <1>2, <3>3 DEF Handlers
      <4> QED BY <1>2, <1>3, <2>3, <3>1, <3>3, <4>1 DEF HandleJoin, StreamTypes
    <3> QED BY <2>3, <3>2, <3>3 DEF HandleJoin
  <2>4. CASE HandleLeave
    BY <1>4, <1>5, <2>4 DEF HandleLeave, Messages
  <2>5. CASE HandleUpdate
    <3>1. <<"UPDATE">> \in Seq(Messages) /\ <<>> \in Seq(Messages)
      BY <1>5 DEF Messages
    <3>2. CASE handler.seated
      BY <1>2, <1>3, <2>5, <3>1, <3>2 DEF HandleUpdate, StreamTypes
    <3>3. CASE ~handler.seated
      BY <1>2, <1>3, <2>5, <3>1, <3>3 DEF HandleUpdate, StreamTypes
    <3> QED BY <3>2, <3>3
  <2>6. CASE HandleBet
    <3>1. <<"UPDATE", "UPDATE">> \in Seq(Messages) /\ <<"ERROR">> \in Seq(Messages)
      BY <1>5 DEF Messages
    <3>2. handler' \in Handlers /\ handler'.at = handler.at
      BY <1>2, <2>6 DEF HandleBet, Handlers
    <3> QED BY <1>2, <1>3, <2>6, <3>1, <3>2 DEF HandleBet, StreamTypes
  <2>7. CASE HandleOther
    <3>1. <<"ERROR">> \in Seq(Messages)
      BY <1>5 DEF Messages
    <3> QED BY <1>2, <1>3, <2>7, <3>1 DEF HandleOther, StreamTypes
  <2>8. CASE LobbyNotifies
    <3>1. Append(stream.in, "GAMES") \in Seq(Messages)
      BY <1>5 DEF Messages
    <3>2. stream' \in Streams /\ stream'.at = stream.at /\ stream'.state = stream.state
      BY <1>2, <2>8, <3>1, Bytes DEF LobbyNotifies, Streams
    <3> QED BY <1>2, <2>8, <3>2 DEF LobbyNotifies, StreamTypes
  <2>9. CASE LobbyPings
    BY <1>4, <1>5, <2>9 DEF LobbyPings, Messages
  <2>10. CASE TurnComes
    <3>1. handler' \in Handlers /\ handler'.at = handler.at
      BY <1>2, <2>10 DEF TurnComes, Handlers
    <3> QED BY <1>2, <2>10, <3>1 DEF TurnComes, StreamTypes
  <2>11. CASE Multicasts
    BY <1>2, <2>11 DEF Multicasts, StreamTypes
  <2>12. CASE HandEnds
    <3>1. Append(stream.in, "UPDATE") \in Seq(Messages)
      BY <1>5 DEF Messages
    <3>2. stream' \in Streams /\ stream'.at = stream.at /\ stream'.state = stream.state
      BY <1>2, <2>12, <3>1, Bytes DEF HandEnds, Streams
    <3>3. handler' \in Handlers /\ handler'.at = handler.at
      BY <1>2, <2>12 DEF HandEnds, Handlers
    <3> QED BY <1>2, <2>12, <3>2, <3>3 DEF HandEnds, StreamTypes
  <2>13. CASE TurnExpires
    <3>1. handler' \in Handlers /\ handler'.at = handler.at
      BY <1>2, <2>13 DEF TurnExpires, Handlers
    <3>2. news' \in BOOLEAN
      BY <2>13 DEF TurnExpires
    <3> QED BY <1>2, <2>13, <3>1, <3>2 DEF TurnExpires, StreamTypes
  <2>14. CASE TurnPings
    BY <1>4, <1>5, <2>14 DEF TurnPings, Messages
  <2> QED
    BY <2>1, <2>2, <2>3, <2>4, <2>5, <2>6, <2>7, <2>8, <2>9, <2>10, <2>11, <2>12, <2>13, <2>14
    DEF Handles, Unasked
<1>7. (Deaf /\ Halfway /\ Alone /\ Flag /\ Awake)'
  BY <1>1, <1>6 DEF IInv, client, Deaf, Halfway, Alone, Flag, Awake
<1>8. MainTypes' /\ ListenerTypes' /\ CallTypes'
  BY <1>1, <1>6 DEF IInv, TypeOK, client, MainTypes, ListenerTypes, CallTypes
<1> QED BY <1>6, <1>7, <1>8 DEF IInv, TypeOK

LEMMA NextIInv == IInv /\ [Next]_vars => IInv'
<1> SUFFICES ASSUME IInv, [Next]_vars PROVE IInv'
  OBVIOUS
<1>1. CASE MainThread
  BY <1>1, MainSteps, CallSteps DEF MainThread, Callers
<1>2. CASE TcpThread \/ UdpThread
  BY <1>2, ListenerSteps
<1>3. CASE User
  BY <1>3, MainSteps
<1>4. CASE Handles \/ Unasked
  BY <1>4, ServerSteps
<1>5. CASE UNCHANGED vars
  BY <1>5 DEF vars, client, IInv, TypeOK, MainTypes, ListenerTypes, CallTypes, StreamTypes,
              Deaf, Halfway, Alone, Flag, Awake
<1> QED BY <1>1, <1>2, <1>3, <1>4, <1>5 DEF Next, Finished

LEMMA Invariant == Spec => []IInv
BY InitIInv, NextIInv, PTL DEF Spec

\* One thread at a time reads an answer from the stream, and it is the thread that
\* holds the stream's mutex (send_command, Client/src/lib.rs:213).
THEOREM ClientTypes == Spec => []TypeOK
<1>1. IInv => TypeOK
  BY DEF IInv
<1> QED BY Invariant, <1>1, PTL

\* No listener runs while do_reconnect replaces the stream, the port and the socket
\* (Client/src/lib.rs:808), nor while a command's reconnect does.
THEOREM NobodySeesHalfAReconnection == Spec => []OneServer
<1>1. IInv => OneServer
  BY DEF IInv, Deaf, Halfway, OneServer
<1> QED BY Invariant, <1>1, PTL

\* Both listeners run for whoever plays, whatever stop_listeners and the two
\* start_listeners of a reconnection did before (Client/src/lib.rs:832, 871).
THEOREM PlayersListen == Spec => []Listening
<1>1. IInv => Listening
  BY DEF IInv, TypeOK, ListenerTypes, Flag, Awake, Listening
<1> QED BY Invariant, <1>1, PTL

-----------------------------------------------------------------------------
(* Numbers.                                                                 *)

\* A nonempty set of naturals has a least element.
LEMMA LeastNumber ==
  ASSUME NEW T, T \subseteq Nat, T # {}
  PROVE  \E x \in T : \A y \in T : x <= y
<1>1. PICK x \in T : \A y \in T : ~ (<<y, x>> \in OpToRel(<, Nat))
  BY NatLessThanWellFounded, WFMin, Zenon
<1>2. \A y \in T : y < x => <<y, x>> \in OpToRel(<, Nat)
  BY Zenon DEF OpToRel
<1>3. \A y \in T : ~ (y < x)
  BY <1>1, <1>2, Zenon
<1> QED
  BY <1>3

-----------------------------------------------------------------------------
(* The order of hands.                                                      *)

\* Vec<u8> is in a strict total order.
LEMMA VecOrder ==
  ASSUME NEW s \in Seq(Nat), NEW t \in Seq(Nat)
  PROVE  /\ ~VecLess(s, s)
         /\ VecLess(s, t) => ~VecLess(t, s)
         /\ s # t => VecLess(s, t) \/ VecLess(t, s)
<1>1. /\ Len(s) \in Nat /\ Len(t) \in Nat
      /\ \A i \in 1..Len(s) : s[i] \in Nat
      /\ \A i \in 1..Len(t) : t[i] \in Nat
  OBVIOUS
<1>2. ~VecLess(s, s)
  BY <1>1 DEF VecLess
<1>3. VecLess(s, t) => ~VecLess(t, s)
  <2> SUFFICES ASSUME VecLess(s, t), VecLess(t, s) PROVE FALSE
    OBVIOUS
  <2>1. PICK i \in 1..Len(t) : /\ \A j \in 1..(i - 1) : j <= Len(s) /\ s[j] = t[j]
                               /\ i <= Len(s) => s[i] < t[i]
    BY Zenon DEF VecLess
  <2>2. PICK k \in 1..Len(s) : /\ \A j \in 1..(k - 1) : j <= Len(t) /\ t[j] = s[j]
                               /\ k <= Len(t) => t[k] < s[k]
    BY Zenon DEF VecLess
  <2>3. CASE i < k
    BY <1>1, <2>1, <2>2, <2>3
  <2>4. CASE k < i
    BY <1>1, <2>1, <2>2, <2>4
  <2>5. CASE i = k
    BY <1>1, <2>1, <2>2, <2>5
  <2> QED
    BY <1>1, <2>3, <2>4, <2>5
<1>4. s # t => VecLess(s, t) \/ VecLess(t, s)
  <2> SUFFICES ASSUME s # t PROVE VecLess(s, t) \/ VecLess(t, s)
    OBVIOUS
  <2> DEFINE Same(j) == j \in 1..Len(s) /\ j \in 1..Len(t) /\ s[j] = t[j]
             D == {i \in 1..Len(s) \cup 1..Len(t) : ~Same(i)}
  <2>1. D \subseteq Nat
    BY <1>1
  <2>2. D # {}
    <3>1. Len(s) = Len(t) => \E i \in 1..Len(s) : s[i] # t[i]
      BY SeqEqual
    <3>2. CASE Len(s) = Len(t)
      <4>1. PICK i \in 1..Len(s) : s[i] # t[i]
        BY <3>1, <3>2
      <4> QED
        BY <4>1
    <3>3. CASE Len(s) < Len(t)
      <4>1. Len(t) \in D
        BY <1>1, <3>3
      <4> QED
        BY <1>1, <4>1
    <3>4. CASE Len(t) < Len(s)
      <4>1. Len(s) \in D
        BY <1>1, <3>4
      <4> QED
        BY <1>1, <4>1
    <3> QED
      BY <1>1, <3>2, <3>3, <3>4
  <2>3. PICK i \in D : \A j \in D : i <= j
    <3> HIDE DEF D
    <3> QED
      BY <2>1, <2>2, LeastNumber
  <2>4. /\ i \in Nat \ {0} /\ (i <= Len(s) \/ i <= Len(t)) /\ ~Same(i)
        /\ \A j \in 1..(i - 1) : Same(j)
    BY <1>1, <2>3
  <2>5. /\ \A j \in 1..(i - 1) : j <= Len(s) /\ s[j] = t[j]
        /\ \A j \in 1..(i - 1) : j <= Len(t) /\ t[j] = s[j]
    BY <2>4
  <2>6. CASE i <= Len(t) /\ (i <= Len(s) => s[i] < t[i])
    <3>1. i \in 1..Len(t)
      BY <1>1, <2>4, <2>6
    <3> QED
      BY <2>5, <2>6, <3>1, Zenon DEF VecLess
  <2>7. CASE i <= Len(s) /\ (i <= Len(t) => t[i] < s[i])
    <3>1. i \in 1..Len(s)
      BY <1>1, <2>4, <2>7
    <3> QED
      BY <2>5, <2>7, <3>1, Zenon DEF VecLess
  <2> QED
    BY <1>1, <2>4, <2>6, <2>7
<1> QED
  BY <1>2, <1>3, <1>4

LEMMA VecTransitive ==
  ASSUME NEW s \in Seq(Nat), NEW t \in Seq(Nat), NEW u \in Seq(Nat),
         VecLess(s, t), VecLess(t, u)
  PROVE  VecLess(s, u)
<1>1. /\ Len(s) \in Nat /\ Len(t) \in Nat /\ Len(u) \in Nat
      /\ \A i \in 1..Len(s) : s[i] \in Nat
      /\ \A i \in 1..Len(t) : t[i] \in Nat
      /\ \A i \in 1..Len(u) : u[i] \in Nat
  OBVIOUS
<1>2. PICK i \in 1..Len(t) : /\ \A j \in 1..(i - 1) : j <= Len(s) /\ s[j] = t[j]
                             /\ i <= Len(s) => s[i] < t[i]
  BY Zenon DEF VecLess
<1>3. PICK k \in 1..Len(u) : /\ \A j \in 1..(k - 1) : j <= Len(t) /\ t[j] = u[j]
                             /\ k <= Len(t) => t[k] < u[k]
  BY Zenon DEF VecLess
<1> DEFINE m == IF i < k THEN i ELSE k
<1>4. m \in 1..Len(u)
  BY <1>1
<1>5. \A j \in 1..(m - 1) : j <= Len(s) /\ s[j] = u[j]
  <2>0. i \in Nat /\ k \in Nat /\ m \in Nat
    BY <1>2, <1>3
  <2> SUFFICES ASSUME NEW j \in 1..(m - 1) PROVE j <= Len(s) /\ s[j] = u[j]
    OBVIOUS
  <2>1. j \in 1..(i - 1) /\ j \in 1..(k - 1)
    BY <2>0
  <2> QED
    BY <1>2, <1>3, <2>1
<1>6. m <= Len(s) => s[m] < u[m]
  <2>0. i \in Nat /\ k \in Nat
    BY <1>1
  <2>1. CASE i < k
    <3>1. m = i /\ i \in 1..(k - 1)
      BY <2>0, <2>1
    <3>2. t[i] = u[i]
      BY <1>3, <3>1
    <3> QED
      BY <1>2, <3>1, <3>2
  <2>2. CASE k < i
    <3>1. m = k /\ k \in 1..(i - 1)
      BY <2>0, <2>2
    <3>2. k <= Len(t)
      BY <1>1, <2>0, <2>2
    <3>3. s[k] = t[k]
      BY <1>2, <3>1
    <3> QED
      BY <1>3, <3>1, <3>2, <3>3
  <2>3. CASE i = k
    <3>1. m = i /\ k <= Len(t) /\ i \in 1..Len(u)
      BY <1>1, <2>0, <2>3
    <3>2. m <= Len(s) => s[i] < t[i]
      BY <1>2, <3>1
    <3>3. t[i] < u[i]
      BY <1>3, <2>3, <3>1
    <3>4. m <= Len(s) => i \in 1..Len(s)
      BY <1>1, <2>0, <3>1
    <3>5. m <= Len(s) => s[i] \in Nat /\ t[i] \in Nat /\ u[i] \in Nat
      BY <1>1, <3>1, <3>4
    <3>6. \A x, y, z \in Nat : x < y /\ y < z => x < z
      OBVIOUS
    <3> HIDE DEF m
    <3> QED
      BY <2>3, <3>1, <3>2, <3>3, <3>5, <3>6, Zenon
  <2> QED
    BY <2>0, <2>1, <2>2, <2>3
<1> HIDE DEF m
<1> QED
  BY <1>4, <1>5, <1>6 DEF VecLess

\* What a HandRank is made of, and the order of its parts.
HandRanks ==
  [category : Nat, made : Seq(Nat), kickers : Seq(Nat), cards : Seq(Nat)]

LEMMA ReversedNumbers ==
  ASSUME NEW s \in Seq(Nat)
  PROVE  Reverse(s) \in Seq(Nat)
<1>1. Len(s) \in Nat /\ \A i \in 1..Len(s) : s[i] \in Nat
  OBVIOUS
<1>2. Reverse(s) \in [1..Len(s) -> Nat]
  BY <1>1 DEF Reverse
<1> QED
  BY <1>1, <1>2, IsASeq

LEMMA PartsType ==
  ASSUME NEW r \in HandRanks
  PROVE  /\ DOMAIN Parts(r) = 1..4 /\ Len(Parts(r)) = 4
         /\ \A i \in 1..4 : Parts(r)[i] \in Seq(Nat)
         /\ Parts(r)[4] = r.cards
<1>1. Reverse(r.kickers) \in Seq(Nat)
  BY ReversedNumbers DEF HandRanks
<1> QED
  BY <1>1 DEF Parts, HandRanks

\* The first part that differs decides.
LEMMA FirstPartDecides ==
  ASSUME NEW r \in HandRanks, NEW s \in HandRanks
  PROVE  RankLess(r, s) <=>
           \E i \in 1..4 : /\ \A j \in 1..(i - 1) : Parts(r)[j] = Parts(s)[j]
                           /\ VecLess(Parts(r)[i], Parts(s)[i])
<1>1. ASSUME NEW i \in 1..4
      PROVE  SubSeq(Parts(r), 1, i - 1) = SubSeq(Parts(s), 1, i - 1)
               <=> \A j \in 1..(i - 1) : Parts(r)[j] = Parts(s)[j]
  <2>1. ASSUME NEW q \in HandRanks
        PROVE  /\ SubSeq(Parts(q), 1, i - 1) \in Seq(Seq(Nat))
               /\ Len(SubSeq(Parts(q), 1, i - 1)) = i - 1
               /\ \A j \in 1..(i - 1) : SubSeq(Parts(q), 1, i - 1)[j] = Parts(q)[j]
    <3>1. \A j \in 1..(i - 1) : Parts(q)[j] \in Seq(Nat)
      <4>1. \A j \in 1..4 : Parts(q)[j] \in Seq(Nat)
        BY <2>1, PartsType
      <4>2. \A j \in 1..(i - 1) : j \in 1..4
        OBVIOUS
      <4> QED
        BY <4>1, <4>2
    <3> HIDE DEF HandRanks
    <3>2. 1 \in Int /\ i - 1 \in Int /\ (1 <= i - 1 \/ i - 1 = 0)
      OBVIOUS
    <3>3. /\ SubSeq(Parts(q), 1, i - 1) \in Seq(Seq(Nat))
          /\ Len(SubSeq(Parts(q), 1, i - 1)) = IF 1 <= i - 1 THEN (i - 1) - 1 + 1 ELSE 0
          /\ \A j \in 1..((i - 1) - 1 + 1) :
               SubSeq(Parts(q), 1, i - 1)[j] = Parts(q)[1 + j - 1]
      BY <3>1, <3>2, SubSeqProperties
    <3>4. (i - 1) - 1 + 1 = i - 1 /\ \A j \in 1..(i - 1) : 1 + j - 1 = j
      OBVIOUS
    <3> QED
      BY <3>2, <3>3, <3>4
  <2> DEFINE a == SubSeq(Parts(r), 1, i - 1)
             b == SubSeq(Parts(s), 1, i - 1)
  <2>2. /\ a \in Seq(Seq(Nat)) /\ b \in Seq(Seq(Nat)) /\ Len(a) = i - 1 /\ Len(b) = i - 1
        /\ \A j \in 1..(i - 1) : a[j] = Parts(r)[j] /\ b[j] = Parts(s)[j]
    BY <2>1
  <2> HIDE DEF a, b
  <2>3. a = b <=> \A j \in 1..(i - 1) : a[j] = b[j]
    BY <2>2, SeqEqual
  <2>4. a = b <=> \A j \in 1..(i - 1) : Parts(r)[j] = Parts(s)[j]
    BY <2>2, <2>3
  <2> QED
    BY <2>4 DEF a, b
<1>2. DOMAIN Parts(r) = 1..4
  BY PartsType
<1> QED
  BY <1>1, <1>2, Zenon DEF RankLess

\* HandRank::cmp is a strict total order of what it compares: whatever hands there
\* are, one of them is the best, and it is the only one unless another has the same
\* cards (hand.rs:213).
THEOREM RanksAreOrdered ==
  ASSUME NEW r \in HandRanks, NEW s \in HandRanks, NEW t \in HandRanks
  PROVE  /\ ~RankLess(r, r)
         /\ RankLess(r, s) => ~RankLess(s, r)
         /\ RankLess(r, s) /\ RankLess(s, t) => RankLess(r, t)
         /\ r.cards # s.cards => RankLess(r, s) \/ RankLess(s, r)
<1> DEFINE Before(q, u, i) == /\ \A j \in 1..(i - 1) : Parts(q)[j] = Parts(u)[j]
                              /\ VecLess(Parts(q)[i], Parts(u)[i])
<1>1. \A q, u \in {r, s, t} : RankLess(q, u) <=> \E i \in 1..4 : Before(q, u, i)
  BY FirstPartDecides
<1>2. \A q \in {r, s, t}, i \in 1..4 : Parts(q)[i] \in Seq(Nat)
  BY PartsType
<1>3. ASSUME NEW q \in {r, s, t}, NEW u \in {r, s, t}, NEW i \in 1..4, Before(q, u, i)
      PROVE  Parts(q)[i] # Parts(u)[i]
  BY <1>2, <1>3, VecOrder
<1>4. ~RankLess(r, r)
  BY <1>1, <1>3
<1>5. ASSUME RankLess(r, s), RankLess(s, r)
      PROVE  FALSE
  <2>1. PICK i \in 1..4 : Before(r, s, i)
    BY <1>1, <1>5
  <2>2. PICK k \in 1..4 : Before(s, r, k)
    BY <1>1, <1>5
  <2>3. i # k
    BY <1>2, <2>1, <2>2, VecOrder
  <2>4. Parts(r)[i] # Parts(s)[i] /\ Parts(s)[k] # Parts(r)[k]
    BY <1>3, <2>1, <2>2
  <2> QED
    BY <2>1, <2>2, <2>3, <2>4
<1>6. ASSUME RankLess(r, s), RankLess(s, t)
      PROVE  RankLess(r, t)
  <2>1. PICK i \in 1..4 : Before(r, s, i)
    BY <1>1, <1>6
  <2>2. PICK k \in 1..4 : Before(s, t, k)
    BY <1>1, <1>6
  <2>3. CASE i < k
    <3>1. Before(r, t, i)
      BY <2>1, <2>2, <2>3
    <3> QED
      BY <1>1, <3>1
  <2>4. CASE k < i
    <3>1. Before(r, t, k)
      BY <2>1, <2>2, <2>4
    <3> QED
      BY <1>1, <3>1
  <2>5. CASE i = k
    <3>1. VecLess(Parts(r)[i], Parts(t)[i])
      BY <1>2, <2>1, <2>2, <2>5, VecTransitive
    <3>2. Before(r, t, i)
      BY <2>1, <2>2, <2>5, <3>1
    <3> QED
      BY <1>1, <3>2
  <2> QED
    BY <2>3, <2>4, <2>5
<1>7. ASSUME r.cards # s.cards
      PROVE  RankLess(r, s) \/ RankLess(s, r)
  <2> DEFINE D == {i \in 1..4 : Parts(r)[i] # Parts(s)[i]}
  <2>1. D \subseteq Nat /\ 4 \in D
    <3>1. 1..4 \subseteq Nat /\ 4 \in 1..4
      OBVIOUS
    <3>2. Parts(r)[4] = r.cards /\ Parts(s)[4] = s.cards
      BY DEF Parts
    <3>3. D \subseteq Nat
      BY <3>1
    <3>4. 4 \in D
      BY <1>7, <3>1, <3>2
    <3> QED
      BY <3>3, <3>4
  <2>2. PICK i \in D : \A j \in D : i <= j
    <3> HIDE DEF D
    <3> QED
      BY <2>1, LeastNumber
  <2>3. \A j \in 1..(i - 1) : Parts(r)[j] = Parts(s)[j] /\ Parts(s)[j] = Parts(r)[j]
    BY <2>2
  <2>4. VecLess(Parts(r)[i], Parts(s)[i]) \/ VecLess(Parts(s)[i], Parts(r)[i])
    BY <1>2, <2>2, VecOrder
  <2> QED
    BY <1>1, <2>2, <2>3, <2>4
<1> QED
  BY <1>4, <1>5, <1>6, <1>7

-----------------------------------------------------------------------------
(* What a hand is evaluated as.                                             *)

\* Sorting and filtering move elements, those of a higher weight to an earlier
\* place, and invent none.
LEMMA ArrangedPlaces ==
  ASSUME NEW S, NEW s \in Seq(S), NEW I \in SUBSET DOMAIN s,
         NEW weight, \A i \in I : weight[i] \in Int
  PROVE  /\ Cardinality(I) \in Nat /\ DOMAIN Arranged(s, I, weight) = 1..Cardinality(I)
         /\ \E place \in [I -> 1..Cardinality(I)] :
              /\ \A i, k \in I : place[i] = place[k] => i = k
              /\ \A n \in 1..Cardinality(I) : \E i \in I : place[i] = n
              /\ \A i, k \in I : weight[k] > weight[i] => place[k] < place[i]
              /\ \A i \in I : Arranged(s, I, weight)[place[i]] = s[i]
<1> DEFINE Earlier(j, i) == weight[j] > weight[i] \/ (weight[j] = weight[i] /\ j < i)
           Before(i) == {j \in I : Earlier(j, i)}
           places == {<<i, Cardinality(Before(i)) + 1>> : i \in I}
           c == Cardinality(I)
           place == [i \in I |-> Cardinality(Before(i)) + 1]
<1>1. IsFiniteSet(I) /\ c \in Nat /\ I \subseteq Int
  <2>1. DOMAIN s = 1..Len(s) /\ Len(s) \in Nat
    OBVIOUS
  <2>2. IsFiniteSet(1..Len(s))
    BY <2>1, FS_Interval
  <2>3. IsFiniteSet(I)
    BY <2>1, <2>2, FS_Subset
  <2> QED
    BY <2>1, <2>3, FS_CardinalityType
<1>2. \A i \in I : /\ IsFiniteSet(Before(i)) /\ Cardinality(Before(i)) \in Nat
                   /\ Cardinality(Before(i)) < c
  <2> SUFFICES ASSUME NEW i \in I
               PROVE  /\ IsFiniteSet(Before(i)) /\ Cardinality(Before(i)) \in Nat
                      /\ Cardinality(Before(i)) < c
    OBVIOUS
  <2>1. Before(i) \subseteq I /\ i \notin Before(i)
    BY <1>1
  <2> HIDE DEF Before
  <2>2. IsFiniteSet(Before(i)) /\ Cardinality(Before(i)) <= c
        /\ (c = Cardinality(Before(i)) => I = Before(i))
    BY <1>1, <2>1, FS_Subset
  <2>3. Cardinality(Before(i)) \in Nat
    BY <2>2, FS_CardinalityType
  <2> QED
    BY <1>1, <2>1, <2>2, <2>3
<1>3. ASSUME NEW i \in I, NEW k \in I, Earlier(k, i)
      PROVE  Cardinality(Before(k)) < Cardinality(Before(i))
  <2>1. Before(k) \subseteq Before(i) /\ k \in Before(i) /\ k \notin Before(k)
    BY <1>1, <1>3
  <2> HIDE DEF Before
  <2>2. /\ Cardinality(Before(k)) <= Cardinality(Before(i))
        /\ Cardinality(Before(i)) = Cardinality(Before(k)) => Before(i) = Before(k)
    BY <1>2, <2>1, FS_Subset
  <2> QED
    BY <1>2, <2>1, <2>2
<1>4. place \in [I -> 1..c]
  <2> HIDE DEF Before
  <2> QED
    BY <1>1, <1>2
<1>5. \A i, k \in I : place[i] = place[k] => i = k
  <2> SUFFICES ASSUME NEW i \in I, NEW k \in I, place[i] = place[k], i # k PROVE FALSE
    OBVIOUS
  <2>1. Earlier(i, k) \/ Earlier(k, i)
    BY <1>1
  <2> HIDE DEF Before, Earlier
  <2> QED
    BY <1>2, <1>3, <2>1
<1>6. \A n \in 1..c : \E i \in I : place[i] = n
  <2> HIDE DEF place, c
  <2>1. place \in Injection(I, 1..c)
    BY <1>4, <1>5 DEF Injection, IsInjective
  <2>2. IsFiniteSet(1..c) /\ Cardinality(1..c) = c
    BY <1>1, FS_Interval
  <2>3. place \in Surjection(I, 1..c)
    BY <2>1, <2>2, FS_Injection DEF c
  <2> QED
    BY <2>3 DEF Surjection
<1>8. Arranged(s, I, weight) = [n \in 1..c |-> s[CHOOSE i \in I : <<i, n>> \in places]]
  BY Zenon DEF Arranged
<1>13. \A i \in I : (CHOOSE k \in I : <<k, place[i]>> \in places) = i
  <2> SUFFICES ASSUME NEW i \in I PROVE (CHOOSE k \in I : <<k, place[i]>> \in places) = i
    OBVIOUS
  <2> HIDE DEF Before
  <2>1. <<i, place[i]>> \in places
    OBVIOUS
  <2>2. \A k \in I : <<k, place[i]>> \in places => place[k] = place[i]
    OBVIOUS
  <2> HIDE DEF places, place
  <2> QED
    BY <1>5, <2>1, <2>2
<1>14. \A i, k \in I : weight[k] > weight[i] => place[k] < place[i]
  <2> SUFFICES ASSUME NEW i \in I, NEW k \in I, weight[k] > weight[i]
               PROVE  place[k] < place[i]
    OBVIOUS
  <2>1. Earlier(k, i)
    OBVIOUS
  <2> HIDE DEF Before, Earlier
  <2> QED
    BY <1>2, <1>3, <2>1
<1> HIDE DEF places, c, place
<1>15. \A i \in I : Arranged(s, I, weight)[place[i]] = s[i]
  BY <1>4, <1>8, <1>13
<1>16. DOMAIN Arranged(s, I, weight) = 1..c
  BY <1>8
<1> QED
  BY <1>1, <1>4, <1>5, <1>6, <1>14, <1>15, <1>16 DEF c

LEMMA ArrangedElements ==
  ASSUME NEW S, NEW s \in Seq(S), NEW I \in SUBSET DOMAIN s,
         NEW weight, \A i \in I : weight[i] \in Int
  PROVE  /\ Arranged(s, I, weight) \in Seq(S)
         /\ Cardinality(I) \in Nat /\ Len(Arranged(s, I, weight)) = Cardinality(I)
         /\ \A n \in 1..Cardinality(I) : \E i \in I : Arranged(s, I, weight)[n] = s[i]
         /\ \A i \in I : \E n \in 1..Cardinality(I) : Arranged(s, I, weight)[n] = s[i]
<1> DEFINE A == Arranged(s, I, weight)
           c == Cardinality(I)
<1>0. /\ Cardinality(I) \in Nat /\ DOMAIN Arranged(s, I, weight) = 1..Cardinality(I)
      /\ \E place \in [I -> 1..Cardinality(I)] :
           /\ \A i, k \in I : place[i] = place[k] => i = k
           /\ \A n \in 1..Cardinality(I) : \E i \in I : place[i] = n
           /\ \A i, k \in I : weight[k] > weight[i] => place[k] < place[i]
           /\ \A i \in I : Arranged(s, I, weight)[place[i]] = s[i]
  BY ArrangedPlaces
<1>1. c \in Nat /\ DOMAIN A = 1..c
  BY <1>0
<1>2. PICK place \in [I -> 1..c] :
        /\ \A n \in 1..c : \E i \in I : place[i] = n
        /\ \A i \in I : A[place[i]] = s[i]
  BY <1>0, Zenon
<1> HIDE DEF A, c
<1>3. \A n \in 1..c : \E i \in I : A[n] = s[i]
  BY <1>2
<1>4. \A i \in I : \E n \in 1..c : A[n] = s[i]
  BY <1>2
<1>5. A = [n \in 1..c |-> A[n]]
  BY <1>1 DEF A, Arranged
<1>6. \A n \in 1..c : A[n] \in S
  BY <1>3
<1>7. A \in [1..c -> S]
  BY <1>5, <1>6
<1>8. A \in Seq(S) /\ Len(A) = c
  BY <1>1, <1>7, IsASeq, LenProperties
<1> QED
  BY <1>1, <1>3, <1>4, <1>8 DEF A, c

\* The greatest of some numbers.
LEMMA GreatestNumber ==
  ASSUME NEW n \in Nat, NEW T, T \subseteq 0..n, T # {}
  PROVE  Max(T) \in T /\ \A x \in T : Max(T) >= x
<1> DEFINE D == {n - x : x \in T}
<1>0. \A x \in T : x \in 0..n /\ n - x \in Nat
  OBVIOUS
<1>1. D \subseteq Nat /\ D # {}
  BY <1>0
<1>2. PICK d \in D : \A e \in D : d <= e
  <2> HIDE DEF D
  <2> QED
    BY <1>1, LeastNumber
<1>3. PICK x \in T : d = n - x
  BY <1>2
<1>4. \A y \in T : x >= y
  <2> SUFFICES ASSUME NEW y \in T PROVE x >= y
    OBVIOUS
  <2>1. n - y \in D
    OBVIOUS
  <2> HIDE DEF D
  <2>2. n - x <= n - y
    BY <1>2, <1>3, <2>1
  <2>3. x \in 0..n /\ y \in 0..n
    BY <1>0
  <2> QED
    BY <2>2, <2>3
<1> QED
  BY <1>4 DEF Max

\* The byte of a card.
Byte == 0..255

LEMMA ValuesType ==
  ASSUME NEW h \in Seq(Byte)
  PROVE  /\ Values(h) \in Seq(0..15) /\ Len(Values(h)) = Len(h)
         /\ \A i \in 1..Len(h) : Value(h[i]) \in 0..15 /\ Suit(h[i]) \in 0..3
<1>1. Len(h) \in Nat /\ \A i \in 1..Len(h) : h[i] \in Byte
  OBVIOUS
<1>2. \A c \in Byte : c % 16 \in 0..15 /\ (c \div 16) % 4 \in 0..3
  BY DEF Byte
<1>3. \A i \in 1..Len(h) : Value(h[i]) \in 0..15 /\ Suit(h[i]) \in 0..3
  BY <1>1, <1>2 DEF Value, Suit
<1>4. Values(h) \in [1..Len(h) -> 0..15]
  BY <1>3 DEF Values
<1>5. Values(h) \in Seq(0..15)
  BY <1>1, <1>4, IsASeq
<1>6. Len(Values(h)) = Len(h)
  BY <1>1, <1>4, <1>5
<1> QED
  BY <1>3, <1>5, <1>6

LEMMA DescendingType ==
  ASSUME NEW values \in Seq(0..15)
  PROVE  Descending(values) \in Seq(Nat)
<1>1. DOMAIN values = 1..Len(values) /\ \A i \in DOMAIN values : values[i] \in Int
  OBVIOUS
<1>2. Arranged(values, DOMAIN values, values) \in Seq(0..15)
  BY <1>1, ArrangedElements
<1>3. 0..15 \subseteq Nat
  OBVIOUS
<1> QED
  BY <1>2, <1>3, SeqMonotonic, Zenon DEF Descending

LEMMA WithoutType ==
  ASSUME NEW values \in Seq(0..15), NEW named
  PROVE  Without(values, named) \in Seq(Nat)
<1> DEFINE I == {i \in DOMAIN values : ~Contains(named, values[i])}
           weight == [i \in DOMAIN values |-> 0]
<1>1. I \in SUBSET DOMAIN values /\ \A i \in I : weight[i] \in Int
  OBVIOUS
<1> HIDE DEF I, weight
<1>2. Arranged(values, I, weight) \in Seq(0..15)
  BY <1>1, ArrangedElements
<1>4. 0..15 \subseteq Nat
  OBVIOUS
<1>3. Arranged(values, I, weight) \in Seq(Nat)
  BY <1>2, <1>4, SeqMonotonic, Zenon
<1> QED
  BY <1>3, Zenon DEF Without, Picked, I, weight

LEMMA ByCountType ==
  ASSUME NEW values \in Seq(0..15)
  PROVE  ByCount(values) \in Seq(0..15)
<1> DEFINE counts == CountValues(values)
           firsts == {i \in DOMAIN values : \A j \in 1..(i - 1) : values[j] # values[i]}
           weight == [i \in firsts |-> 16 * counts[values[i]] + values[i]]
<1>1. ASSUME NEW i \in firsts
      PROVE  weight[i] \in Int
  <2>1. values[i] \in ToSet(values) /\ values[i] \in 0..15
    BY DEF ToSet
  <2>2. counts[values[i]] = Cardinality({k \in DOMAIN values : values[k] = values[i]})
    BY <2>1 DEF CountValues
  <2>3. IsFiniteSet(DOMAIN values)
    BY FS_Interval
  <2>4. {k \in DOMAIN values : values[k] = values[i]} \in SUBSET DOMAIN values
    OBVIOUS
  <2>5. counts[values[i]] \in Nat
    BY <2>2, <2>3, <2>4, FS_Subset, FS_CardinalityType
  <2> HIDE DEF counts, firsts
  <2>6. weight[i] = 16 * counts[values[i]] + values[i]
    OBVIOUS
  <2>7. \A x \in Nat, y \in 0..15 : 16 * x + y \in Int
    OBVIOUS
  <2> HIDE DEF weight
  <2> QED
    BY <2>1, <2>5, <2>6, <2>7, Zenon
<1>2. firsts \in SUBSET DOMAIN values
  OBVIOUS
<1> HIDE DEF firsts, weight
<1>3. Arranged(values, firsts, weight) \in Seq(0..15)
  BY <1>1, <1>2, ArrangedElements
<1> QED
  BY <1>3, Zenon DEF ByCount, firsts, weight, counts

\* check_straight returns a number.
LEMMA StraightType ==
  ASSUME NEW values \in Seq(0..15)
  PROVE  StraightHigh(values) \in Nat
<1> DEFINE present == {High(v) : v \in ToSet(values)}
           T == {NoStraight} \cup {h \in present : (h - 4)..h \subseteq present}
<1>1. \A v \in ToSet(values) : v \in 0..15
  BY DEF ToSet
<1>2. present \subseteq 0..16
  BY <1>1 DEF High
<1> HIDE DEF present
<1>3. T \subseteq 0..16 /\ T # {}
  <2>1. {h \in present : (h - 4)..h \subseteq present} \subseteq 0..16
    BY <1>2, Zenon
  <2>2. NoStraight \in 0..16
    BY DEF NoStraight
  <2> QED
    BY <2>1, <2>2
<1>4. Max(T) \in Nat
  <2> HIDE DEF T
  <2>1. Max(T) \in T
    BY <1>3, GreatestNumber
  <2>2. Max(T) \in 0..16
    BY <1>3, <2>1, Zenon
  <2> QED
    BY <2>2
<1>5. StraightAceHigh(values) = Max(T)
  BY Zenon DEF StraightAceHigh, present
<1> QED
  BY <1>4, <1>5 DEF StraightHigh

\* A test that evaluate makes of the counts looks at values that are there.
LEMMA RankType ==
  ASSUME NEW h \in Seq(Byte), h # <<>>
  PROVE  Rank(h) \in HandRanks
<1> DEFINE values   == Values(h)
           counts   == CountValues(values)
           byCount  == ByCount(values)
           Times(i) == IF i \in DOMAIN byCount THEN counts[byCount[i]] ELSE 0
           straight == StraightHigh(values)
           shows    == Shows(IsFlush(h), straight, Times(1), Times(2))
           category == Max({c \in 1..10 : shows[c]})
           named    == SubSeq(byCount, 1, Named[category])
           made     == [i \in DOMAIN named |-> High(named[i])]
           chosen   == CASE category \in {5, 9} -> <<straight>>
                         [] category = 3 -> Descending(made)
                         [] OTHER -> made
           kickers  == CASE category \in {1, 6} -> Descending(values)
                         [] category \in {2, 3, 4, 8} -> Without(values, named)
                         [] OTHER -> <<>>
<1>1. values \in Seq(0..15) /\ byCount \in Seq(0..15) /\ straight \in Nat
  BY ValuesType, ByCountType, StraightType
<1> HIDE DEF values, byCount, straight
<1>2. category \in 1..10 /\ shows[category]
  <2> DEFINE T == {c \in 1..10 : shows[c]}
  <2>1. shows[1]
    BY DEF Shows
  <2>2. T \subseteq 0..16 /\ T # {}
    <3> HIDE DEF shows
    <3> QED
      BY <2>1
  <2> HIDE DEF T
  <2>3. Max(T) \in T
    BY <2>2, GreatestNumber
  <2> HIDE DEF shows
  <2> QED
    BY <2>3 DEF T
<1>3. Named[category] \in 0..2
      /\ (Named[category] >= 1 => 1 \in DOMAIN byCount)
      /\ (Named[category] = 2 => 2 \in DOMAIN byCount)
  <2> HIDE DEF category, Times
  <2>0. /\ shows[2] <=> Times(1) = 2
        /\ shows[3] <=> Times(1) = 2 /\ Times(2) = 2
        /\ shows[4] <=> Times(1) = 3
        /\ shows[7] <=> Times(1) = 3 /\ Times(2) = 2
        /\ shows[8] <=> Times(1) = 4
    BY DEF Shows
  <2> HIDE DEF shows
  <2>1. category \in {2, 4, 8} => Times(1) # 0
    BY <1>2, <2>0
  <2>2. category \in {3, 7} => Times(1) # 0 /\ Times(2) # 0
    BY <1>2, <2>0
  <2>3. \A i \in {1, 2} : Times(i) # 0 => i \in DOMAIN byCount
    BY DEF Times
  <2>4. CASE category \in {2, 4, 8}
    BY <2>1, <2>3, <2>4 DEF Named
  <2>5. CASE category \in {3, 7}
    BY <2>2, <2>3, <2>5 DEF Named
  <2>6. CASE category \in {1, 5, 6, 9, 10}
    BY <2>6 DEF Named
  <2> QED
    BY <1>2, <2>4, <2>5, <2>6
<1> HIDE DEF category
<1>4. named \in Seq(0..15)
  <2> DEFINE n == Named[category]
  <2>1. n \in Int /\ 1 \in Int
    BY <1>3
  <2>2. \A i \in 1..n : byCount[i] \in 0..15
    <3>1. \A i \in DOMAIN byCount : byCount[i] \in 0..15
      BY <1>1
    <3>2. \A i \in 1..n : i = 1 \/ (i = 2 /\ n = 2)
      BY <1>3
    <3> QED
      BY <1>3, <3>1, <3>2
  <2> HIDE DEF n
  <2>3. SubSeq(byCount, 1, n) \in Seq(0..15)
    BY <2>1, <2>2, SubSeqProperties
  <2> QED
    BY <2>3 DEF n
<1> HIDE DEF named
<1>5. made \in Seq(0..15)
  <2>1. \A i \in DOMAIN named : named[i] \in 0..15
    BY <1>4
  <2> DEFINE k == Len(named)
  <2>2. made \in [1..k -> 0..15] /\ k \in Nat
    BY <1>4, <2>1 DEF High
  <2> HIDE DEF made, k
  <2>3. made \in Seq(0..15)
    BY <2>2
  <2> QED
    BY <2>3
<1> HIDE DEF made
<1>6. chosen \in Seq(Nat)
  <2>1. Descending(made) \in Seq(Nat)
    BY <1>5, DescendingType
  <2>2. made \in Seq(Nat) /\ <<straight>> \in Seq(Nat)
    <3>1. 0..15 \subseteq Nat
      OBVIOUS
    <3>2. made \in Seq(Nat)
      BY <1>5, <3>1, SeqMonotonic, Zenon
    <3> QED
      BY <1>1, <3>2
  <2> QED
    BY <2>1, <2>2
<1>7. kickers \in Seq(Nat)
  <2>1. Descending(values) \in Seq(Nat) /\ Without(values, named) \in Seq(Nat)
    BY <1>1, DescendingType, WithoutType
  <2> QED
    BY <2>1
<1>8. SortedCards(h) \in Seq(Nat)
  <2> DEFINE weight == [i \in DOMAIN h |-> 4 * Value(h[i]) + Suit(h[i])]
  <2>1. \A i \in DOMAIN h : weight[i] \in Int
    <3>1. \A i \in 1..Len(h) : Value(h[i]) \in 0..15 /\ Suit(h[i]) \in 0..3
      BY ValuesType
    <3> QED
      BY <3>1
  <2> HIDE DEF weight
  <2>2. Arranged(h, DOMAIN h, weight) \in Seq(Byte)
    BY <2>1, ArrangedElements
  <2>3. Arranged(h, DOMAIN h, weight) \in Seq(Nat)
    <3>1. Byte \subseteq Nat
      BY DEF Byte
    <3> QED
      BY <2>2, <3>1, SeqMonotonic, Zenon
  <2> QED
    BY <2>3, Zenon DEF SortedCards, weight
<1>9. Rank(h) = [category |-> category, made |-> chosen, kickers |-> kickers,
                    cards |-> SortedCards(h)]
  BY Zenon DEF Rank, values, counts, byCount, Times, straight, shows, category, named, made
<1> HIDE DEF chosen, kickers
<1> QED
  BY <1>2, <1>6, <1>7, <1>8, <1>9 DEF HandRanks

\* The cards of a rank are those of the hand.
LEMMA RankCards ==
  ASSUME NEW h \in Seq(Byte), h # <<>>
  PROVE  ToSet(Rank(h).cards) = ToSet(h)
<1> DEFINE weight == [i \in DOMAIN h |-> 4 * Value(h[i]) + Suit(h[i])]
           sorted == Arranged(h, DOMAIN h, weight)
           c      == Cardinality(DOMAIN h)
<1>1. \A i \in DOMAIN h : weight[i] \in Int
  <2>1. \A i \in 1..Len(h) : Value(h[i]) \in 0..15 /\ Suit(h[i]) \in 0..3
    BY ValuesType
  <2> QED
    BY <2>1
<1>2. Rank(h).cards = sorted
  BY DEF Rank, SortedCards
<1> HIDE DEF weight
<1>3. /\ sorted \in Seq(Byte) /\ Len(sorted) = c
      /\ \A n \in 1..c : \E i \in DOMAIN h : sorted[n] = h[i]
      /\ \A i \in DOMAIN h : \E n \in 1..c : sorted[n] = h[i]
  <2> DEFINE D == DOMAIN h
  <2>1. D \in SUBSET DOMAIN h /\ \A i \in D : weight[i] \in Int
    BY <1>1
  <2> HIDE DEF D
  <2>2. /\ Arranged(h, D, weight) \in Seq(Byte)
        /\ Len(Arranged(h, D, weight)) = Cardinality(D)
    BY <2>1, ArrangedElements
  <2>3. \A n \in 1..Cardinality(D) : \E i \in D : Arranged(h, D, weight)[n] = h[i]
    BY <2>1, ArrangedElements
  <2>4. \A i \in D : \E n \in 1..Cardinality(D) : Arranged(h, D, weight)[n] = h[i]
    BY <2>1, ArrangedElements
  <2> QED
    BY <2>2, <2>3, <2>4, Zenon DEF D
<1> HIDE DEF sorted
<1>4. DOMAIN sorted = 1..c
  BY <1>3
<1>5. ASSUME NEW x \in ToSet(sorted) PROVE x \in ToSet(h)
  BY <1>3, <1>4, <1>5 DEF ToSet
<1>6. ASSUME NEW x \in ToSet(h) PROVE x \in ToSet(sorted)
  BY <1>3, <1>4, <1>6 DEF ToSet
<1> QED
  BY <1>2, <1>5, <1>6

\* Two hands that are not the same cards never tie, in any game: those of Texas
\* hold 'em share the board and differ in the cards of the players (hand.rs:213).
THEOREM DistinctHandsNeverTie ==
  ASSUME NEW a \in Seq(Byte), NEW b \in Seq(Byte), a # <<>>, b # <<>>, ToSet(a) # ToSet(b)
  PROVE  RankLess(Evaluate(a), Evaluate(b)) # RankLess(Evaluate(b), Evaluate(a))
<1> DEFINE r == Rank(a)
           s == Rank(b)
<1>1. Evaluate(a) = r /\ Evaluate(b) = s
  BY DEF Evaluate
<1>2. r \in HandRanks /\ s \in HandRanks
  BY RankType
<1>3. ToSet(r.cards) = ToSet(a) /\ ToSet(s.cards) = ToSet(b)
  BY RankCards
<1> HIDE DEF r, s
<1>4. r.cards # s.cards
  BY <1>3
<1>5. ~(RankLess(r, s) <=> RankLess(s, r))
  BY <1>2, <1>4, RanksAreOrdered
<1>6. RankLess(r, s) \in BOOLEAN /\ RankLess(s, r) \in BOOLEAN
  BY DEF RankLess
<1> QED
  BY <1>1, <1>5, <1>6

-----------------------------------------------------------------------------
(* Five cards.                                                              *)

\* Cards as Deck::new makes them: thirteen values, and no card twice.
RealCards(S) ==
  /\ S \subseteq Byte /\ \A c \in S : Value(c) \in 1..13 /\ Suit(c) \in 0..3
  /\ \A c, d \in S : Value(c) = Value(d) /\ Suit(c) = Suit(d) => c = d

\* The cards of a value, and how many they are.
OfOneValue(S, v) == {c \in S : Value(c) = v}

Times(S, v) == Cardinality(OfOneValue(S, v))

LEMMA FourSuits == IsFiniteSet(0..3) /\ Cardinality(0..3) = 4
<1> DEFINE low  == 0
           high == 3
<1>1. low \in Int /\ high \in Int /\ low = 0 /\ high = 3
  OBVIOUS
<1> HIDE DEF low, high
<1>2. /\ IsFiniteSet(low..high)
      /\ Cardinality(low..high) = IF low > high THEN 0 ELSE high - low + 1
  BY <1>1, FS_Interval
<1> QED
  BY <1>1, <1>2

\* Five numbers are equal in one of seven ways, and not all of them are.
Equal(x, y) == IF x = y THEN 1 ELSE 0

Equals(a, b, c, d, e, x) == Equal(a, x) + Equal(b, x) + Equal(c, x) + Equal(d, x) + Equal(e, x)

\* What is known of five numbers that have so many equal pairs.
ShapeOf(a, b, c, d, e, shape) ==
  /\ shape \in {5, 7, 9, 11, 13, 17}
  /\ shape > 5 => \E v : Equals(a, b, c, d, e, v) >= 2
  /\ shape > 9 => \E v : Equals(a, b, c, d, e, v) >= 3
  /\ shape > 13 => \E v : Equals(a, b, c, d, e, v) >= 4
  /\ shape = 9 => \E v, w :
       v # w /\ Equals(a, b, c, d, e, v) >= 2 /\ Equals(a, b, c, d, e, w) >= 2
  /\ shape = 13 => \E v, w :
       v # w /\ Equals(a, b, c, d, e, v) >= 3 /\ Equals(a, b, c, d, e, w) >= 2
  /\ \A v : /\ Equals(a, b, c, d, e, v) >= 2 => shape >= 7
            /\ Equals(a, b, c, d, e, v) >= 3 => shape >= 11
            /\ Equals(a, b, c, d, e, v) >= 4 => shape >= 17
  /\ \A v, w : v # w =>
       /\ Equals(a, b, c, d, e, v) + Equals(a, b, c, d, e, w) <= 5
       /\ Equals(a, b, c, d, e, v) >= 2 /\ Equals(a, b, c, d, e, w) >= 2 => shape >= 9
       /\ Equals(a, b, c, d, e, v) >= 3 /\ Equals(a, b, c, d, e, w) >= 2 => shape >= 13
  /\ \A u, v, w : u # v /\ v # w /\ u # w =>
       Equals(a, b, c, d, e, u) + Equals(a, b, c, d, e, v) + Equals(a, b, c, d, e, w) <= 5

LEMMA FiveNumbers ==
  ASSUME NEW a \in Int, NEW b \in Int, NEW c \in Int, NEW d \in Int, NEW e \in Int,
         NEW shape,
         shape = Equals(a, b, c, d, e, a) + Equals(a, b, c, d, e, b) + Equals(a, b, c, d, e, c)
                 + Equals(a, b, c, d, e, d) + Equals(a, b, c, d, e, e),
         Equals(a, b, c, d, e, a) <= 4
  PROVE  ShapeOf(a, b, c, d, e, shape)
<1>1. /\ shape \in {5, 7, 9, 11, 13, 17}
  BY SMTT(60) DEF Equals, Equal
<1>2. /\ shape > 5 => \E v \in {a, b, c, d, e} : Equals(a, b, c, d, e, v) >= 2
  BY SMTT(60) DEF Equals, Equal
<1>3. shape > 9 => \E v \in {a, b, c, d, e} : Equals(a, b, c, d, e, v) >= 3
  BY SMTT(60) DEF Equals, Equal
<1>4. shape > 13 => \E v \in {a, b, c, d, e} : Equals(a, b, c, d, e, v) >= 4
  BY SMTT(60) DEF Equals, Equal
<1>5. shape = 9 => \E v, w \in {a, b, c, d, e} :
              v # w /\ Equals(a, b, c, d, e, v) >= 2 /\ Equals(a, b, c, d, e, w) >= 2
  BY SMTT(60) DEF Equals, Equal
<1>6. shape = 13 => \E v, w \in {a, b, c, d, e} :
              v # w /\ Equals(a, b, c, d, e, v) >= 3 /\ Equals(a, b, c, d, e, w) >= 2
  BY SMTT(60) DEF Equals, Equal
<1>7. ASSUME NEW v
      PROVE  /\ Equals(a, b, c, d, e, v) >= 2 => shape >= 7
             /\ Equals(a, b, c, d, e, v) >= 3 => shape >= 11
             /\ Equals(a, b, c, d, e, v) >= 4 => shape >= 17
  BY SMTT(60) DEF Equals, Equal
<1>8. ASSUME NEW v, NEW w, v # w
      PROVE   /\ Equals(a, b, c, d, e, v) + Equals(a, b, c, d, e, w) <= 5
              /\ Equals(a, b, c, d, e, v) >= 2 /\ Equals(a, b, c, d, e, w) >= 2 => shape >= 9
              /\ Equals(a, b, c, d, e, v) >= 3 /\ Equals(a, b, c, d, e, w) >= 2 => shape >= 13
  BY <1>8, SMTT(60) DEF Equals, Equal
<1>9. ASSUME NEW u, NEW v, NEW w, u # v, v # w, u # w
      PROVE  Equals(a, b, c, d, e, u) + Equals(a, b, c, d, e, v) + Equals(a, b, c, d, e, w) <= 5
  BY <1>9, SMTT(60) DEF Equals, Equal
<1> HIDE DEF Equals
<1> QED
  BY <1>1, <1>2, <1>3, <1>4, <1>5, <1>6, <1>7, <1>8, <1>9 DEF ShapeOf

\* One card more to count.
Bit(c, T) == IF c \in T THEN 1 ELSE 0

LEMMA OneMore ==
  ASSUME NEW X, NEW T, NEW c, IsFiniteSet(X), c \notin X
  PROVE  /\ IsFiniteSet(X \cup {c})
         /\ Cardinality((X \cup {c}) \cap T) = Cardinality(X \cap T) + Bit(c, T)
<1>1. IsFiniteSet(X \cup {c})
  BY FS_AddElement
<1>2. IsFiniteSet(X \cap T) /\ Cardinality(X \cap T) \in Nat
  BY FS_Subset, FS_CardinalityType
<1>3. CASE c \in T
  <2>1. (X \cup {c}) \cap T = (X \cap T) \cup {c} /\ c \notin X \cap T
    BY <1>3
  <2> QED
    BY <1>1, <1>2, <1>3, <2>1, FS_AddElement DEF Bit
<1>4. CASE c \notin T
  <2>1. (X \cup {c}) \cap T = X \cap T
    BY <1>4
  <2>2. Bit(c, T) = 0 /\ Cardinality(X \cap T) + 0 = Cardinality(X \cap T)
    BY <1>2, <1>4 DEF Bit
  <2> QED
    BY <1>1, <2>1, <2>2
<1> QED
  BY <1>3, <1>4

\* Five cards one by one.
LEMMA FiveCards ==
  ASSUME NEW S, IsFiniteSet(S), Cardinality(S) = 5
  PROVE  \E f \in [1..5 -> S] :
           /\ S = {f[1], f[2], f[3], f[4], f[5]}
           /\ \A i, j \in 1..5 : f[i] = f[j] => i = j
           /\ \A T : Cardinality(S \cap T) =
                       Bit(f[1], T) + Bit(f[2], T) + Bit(f[3], T) + Bit(f[4], T) + Bit(f[5], T)
<1>1. PICK f : f \in Bijection(1..5, S)
  BY FS_CardinalityType DEF ExistsBijection
<1>2. /\ f \in [1..5 -> S] /\ \A i, j \in 1..5 : f[i] = f[j] => i = j
      /\ \A x \in S : \E i \in 1..5 : f[i] = x
  BY <1>1 DEF Bijection, Injection, Surjection, IsInjective
<1> DEFINE a == f[1]
           b == f[2]
           c == f[3]
           d == f[4]
           e == f[5]
<1>3. a \in S /\ b \in S /\ c \in S /\ d \in S /\ e \in S
  BY <1>2
<1>4. S = {a, b, c, d, e}
  <2>1. \A x \in S : x \in {a, b, c, d, e}
    <3> SUFFICES ASSUME NEW x \in S PROVE x \in {a, b, c, d, e}
      OBVIOUS
    <3>1. PICK i \in 1..5 : f[i] = x
      BY <1>2
    <3>2. i = 1 \/ i = 2 \/ i = 3 \/ i = 4 \/ i = 5
      OBVIOUS
    <3> QED
      BY <3>1, <3>2
  <2> QED
    BY <1>3, <2>1
<1>5. /\ a # b /\ a # c /\ a # d /\ a # e /\ b # c /\ b # d /\ b # e
      /\ c # d /\ c # e /\ d # e
  BY <1>2
<1> HIDE DEF a, b, c, d, e
<1>7. ASSUME NEW T
      PROVE  Cardinality(S \cap T) = Bit(a, T) + Bit(b, T) + Bit(c, T) + Bit(d, T) + Bit(e, T)
  <2>1. IsFiniteSet({}) /\ Cardinality({} \cap T) = 0
    BY FS_EmptySet
  <2>2. IsFiniteSet({a}) /\ Cardinality({a} \cap T) = Bit(a, T)
    <3>1. {} \cup {a} = {a} /\ a \notin {}
      OBVIOUS
    <3>2. IsFiniteSet({a}) /\ Cardinality({a} \cap T) = 0 + Bit(a, T)
      BY <2>1, <3>1, OneMore
    <3> QED
      BY <3>2 DEF Bit
  <2>3. IsFiniteSet({a, b}) /\ Cardinality({a, b} \cap T) = Bit(a, T) + Bit(b, T)
    <3>1. {a} \cup {b} = {a, b} /\ b \notin {a}
      BY <1>5
    <3> QED
      BY <2>2, <3>1, OneMore
  <2>4. /\ IsFiniteSet({a, b, c})
        /\ Cardinality({a, b, c} \cap T) = Bit(a, T) + Bit(b, T) + Bit(c, T)
    <3>1. {a, b} \cup {c} = {a, b, c} /\ c \notin {a, b}
      BY <1>5
    <3> QED
      BY <2>3, <3>1, OneMore
  <2>5. /\ IsFiniteSet({a, b, c, d})
        /\ Cardinality({a, b, c, d} \cap T) = Bit(a, T) + Bit(b, T) + Bit(c, T) + Bit(d, T)
    <3> DEFINE X == {a, b, c}
    <3>1. X \cup {d} = {a, b, c, d} /\ d \notin X
      BY <1>5
    <3> HIDE DEF X
    <3>2. /\ IsFiniteSet(X \cup {d})
          /\ Cardinality((X \cup {d}) \cap T) = Cardinality(X \cap T) + Bit(d, T)
      BY <2>4, <3>1, OneMore DEF X
    <3> QED
      BY <2>4, <3>1, <3>2 DEF X
  <2>6. Cardinality({a, b, c, d, e} \cap T)
          = Bit(a, T) + Bit(b, T) + Bit(c, T) + Bit(d, T) + Bit(e, T)
    <3> DEFINE X == {a, b, c, d}
    <3>1. X \cup {e} = {a, b, c, d, e} /\ e \notin X
      BY <1>5
    <3> HIDE DEF X
    <3>2. Cardinality((X \cup {e}) \cap T) = Cardinality(X \cap T) + Bit(e, T)
      BY <2>5, <3>1, OneMore DEF X
    <3> QED
      BY <2>5, <3>1, <3>2 DEF X
  <2> QED
    BY <1>4, <2>6
<1> QED
  BY <1>2, <1>4, <1>7 DEF a, b, c, d, e

\* One row more of pairs to count.
LEMMA RowMore ==
  ASSUME NEW X, NEW c, NEW D, IsFiniteSet(X), IsFiniteSet(D), X \cap ({c} \X D) = {}
  PROVE  /\ IsFiniteSet(X \cup ({c} \X D))
         /\ Cardinality(X \cup ({c} \X D)) = Cardinality(X) + Cardinality(D)
<1>1. IsFiniteSet({c}) /\ Cardinality({c}) = 1 /\ Cardinality(D) \in Nat /\ Cardinality(X) \in Nat
  BY FS_Singleton, FS_CardinalityType
<1>2. IsFiniteSet({c} \X D) /\ Cardinality({c} \X D) = 1 * Cardinality(D)
  BY <1>1, FS_Product
<1>3. /\ IsFiniteSet(X \cup ({c} \X D))
      /\ Cardinality(X \cup ({c} \X D)) =
           Cardinality(X) + Cardinality({c} \X D) - Cardinality(X \cap ({c} \X D))
  BY <1>2, FS_Union
<1>4. Cardinality(X \cap ({c} \X D)) = 0
  BY FS_EmptySet
<1> QED
  BY <1>1, <1>2, <1>3, <1>4

\* The shape of five cards says how often their values occur.
LEMMA Shapes ==
  ASSUME NEW S, RealCards(S), IsFiniteSet(S), Cardinality(S) = 5
  PROVE  /\ Shape(S) \in {5, 7, 9, 11, 13, 17}
         /\ \A v : Times(S, v) \in 0..4
         /\ Shape(S) > 5 => \E v : Times(S, v) >= 2
         /\ Shape(S) > 9 => \E v : Times(S, v) >= 3
         /\ Shape(S) > 13 => \E v : Times(S, v) >= 4
         /\ Shape(S) = 9 => \E v, w : v # w /\ Times(S, v) >= 2 /\ Times(S, w) >= 2
         /\ Shape(S) = 13 => \E v, w : v # w /\ Times(S, v) >= 3 /\ Times(S, w) >= 2
         /\ \A v : /\ Times(S, v) >= 2 => Shape(S) >= 7
                   /\ Times(S, v) >= 3 => Shape(S) >= 11
                   /\ Times(S, v) >= 4 => Shape(S) >= 17
         /\ \A v, w : v # w =>
              /\ Times(S, v) + Times(S, w) <= 5
              /\ Times(S, v) >= 2 /\ Times(S, w) >= 2 => Shape(S) >= 9
              /\ Times(S, v) >= 3 /\ Times(S, w) >= 2 => Shape(S) >= 13
         /\ \A u, v, w : u # v /\ v # w /\ u # w => Times(S, u) + Times(S, v) + Times(S, w) <= 5
<1>1. PICK f \in [1..5 -> S] :
        /\ S = {f[1], f[2], f[3], f[4], f[5]}
        /\ \A i, j \in 1..5 : f[i] = f[j] => i = j
        /\ \A T : Cardinality(S \cap T) =
                    Bit(f[1], T) + Bit(f[2], T) + Bit(f[3], T) + Bit(f[4], T) + Bit(f[5], T)
  BY FiveCards
<1> DEFINE a == f[1]
           b == f[2]
           c == f[3]
           d == f[4]
           e == f[5]
<1>2. /\ a # b /\ a # c /\ a # d /\ a # e /\ b # c /\ b # d /\ b # e
      /\ c # d /\ c # e /\ d # e
      /\ a \in S /\ b \in S /\ c \in S /\ d \in S /\ e \in S
  BY <1>1
<1>8. /\ S = {a, b, c, d, e}
      /\ \A T : Cardinality(S \cap T) =
                  Bit(a, T) + Bit(b, T) + Bit(c, T) + Bit(d, T) + Bit(e, T)
  BY <1>1
<1> HIDE DEF a, b, c, d, e
<1> DEFINE m(v) == Equals(Value(a), Value(b), Value(c), Value(d), Value(e), v)
<1>3. \A v : Times(S, v) = m(v)
  <2> SUFFICES ASSUME NEW v PROVE Times(S, v) = m(v)
    OBVIOUS
  <2>1. S \cap OfOneValue(S, v) = OfOneValue(S, v)
    BY DEF OfOneValue
  <2>2. \A x \in S : Bit(x, OfOneValue(S, v)) = Equal(Value(x), v)
    BY DEF Bit, Equal, OfOneValue
  <2> QED
    BY <1>2, <1>8, <2>1, <2>2 DEF Times, Equals
<1>4. \A v : Times(S, v) \in 0..4
  <2> SUFFICES ASSUME NEW v PROVE Times(S, v) \in 0..4
    OBVIOUS
  <2> DEFINE F == OfOneValue(S, v)
             g == [x \in F |-> Suit(x)]
  <2>2. g \in Injection(F, 0..3)
    BY DEF RealCards, OfOneValue, Injection, IsInjective
  <2> HIDE DEF F, g
  <2>3. IsFiniteSet(0..3) /\ Cardinality(0..3) = 4
    BY FourSuits
  <2>4. IsFiniteSet(F) /\ Cardinality(F) <= 4
    BY <2>2, <2>3, FS_Injection
  <2>5. Cardinality(F) \in Nat
    BY <2>4, FS_CardinalityType
  <2> QED
    BY <2>4, <2>5 DEF Times, F
<1>5. Shape(S) = m(Value(a)) + m(Value(b)) + m(Value(c)) + m(Value(d)) + m(Value(e))
  <2> DEFINE Row(x) == {x} \X OfOneValue(S, Value(x))
             P == {cd \in S \X S : Value(cd[1]) = Value(cd[2])}
  <2>1. P = (((({} \cup Row(a)) \cup Row(b)) \cup Row(c)) \cup Row(d)) \cup Row(e)
    <3>1. \A x \in S : Row(x) \subseteq P
      BY DEF OfOneValue
    <3>2. \A p \in P : p \in Row(p[1]) /\ p[1] \in S
      BY DEF OfOneValue
    <3> HIDE DEF P, Row
    <3>3. \A p \in P : p \in Row(a) \/ p \in Row(b) \/ p \in Row(c) \/ p \in Row(d) \/ p \in Row(e)
      BY <1>8, <3>2
    <3> QED
      BY <1>2, <3>1, <3>3
  <2>2. \A x, y \in S : x # y => Row(x) \cap Row(y) = {}
    OBVIOUS
  <2>3. \A v : IsFiniteSet(OfOneValue(S, v))
    BY FS_Subset DEF OfOneValue
  <2>4. ASSUME NEW X, NEW x \in S, IsFiniteSet(X), X \cap Row(x) = {}
        PROVE  /\ IsFiniteSet(X \cup Row(x))
               /\ Cardinality(X \cup Row(x)) = Cardinality(X) + m(Value(x))
    <3> DEFINE D == OfOneValue(S, Value(x))
    <3>1. Cardinality(D) = m(Value(x)) /\ IsFiniteSet(D) /\ X \cap ({x} \X D) = {}
      BY <1>3, <2>3, <2>4 DEF Times
    <3> HIDE DEF D
    <3>2. /\ IsFiniteSet(X \cup ({x} \X D))
          /\ Cardinality(X \cup ({x} \X D)) = Cardinality(X) + Cardinality(D)
      BY ZenonT(40), <2>4, <3>1, RowMore
    <3> QED
      BY <3>1, <3>2 DEF D
  <2>5. \A x \in S : m(Value(x)) \in Nat
    BY <1>3, <1>4
  <2>6. IsFiniteSet({}) /\ Cardinality({}) = 0
    BY FS_EmptySet
  <2> DEFINE X1 == {} \cup Row(a)
             X2 == X1 \cup Row(b)
             X3 == X2 \cup Row(c)
             X4 == X3 \cup Row(d)
             X5 == X4 \cup Row(e)
  <2>7. X1 \cap Row(b) = {} /\ X2 \cap Row(c) = {} /\ X3 \cap Row(d) = {} /\ X4 \cap Row(e) = {}
    <3> HIDE DEF Row
    <3> QED
      BY <1>2, <2>2
  <2> HIDE DEF Row, m
  <2>8. IsFiniteSet(X1) /\ Cardinality(X1) = m(Value(a))
    <3>1. {} \cap Row(a) = {}
      OBVIOUS
    <3>2. IsFiniteSet(X1) /\ Cardinality(X1) = 0 + m(Value(a))
      BY <1>2, <2>4, <2>6, <3>1
    <3> QED
      BY <1>2, <2>5, <3>2
  <2> HIDE DEF X1
  <2>9. IsFiniteSet(X2) /\ Cardinality(X2) = m(Value(a)) + m(Value(b))
    BY <1>2, <2>4, <2>7, <2>8
  <2> HIDE DEF X2
  <2>10. IsFiniteSet(X3) /\ Cardinality(X3) = m(Value(a)) + m(Value(b)) + m(Value(c))
    BY <1>2, <2>4, <2>7, <2>9
  <2> HIDE DEF X3
  <2>11. /\ IsFiniteSet(X4)
         /\ Cardinality(X4) = m(Value(a)) + m(Value(b)) + m(Value(c)) + m(Value(d))
    BY <1>2, <2>4, <2>7, <2>10
  <2> HIDE DEF X4
  <2>12. Cardinality(X5)
           = m(Value(a)) + m(Value(b)) + m(Value(c)) + m(Value(d)) + m(Value(e))
    BY <1>2, <2>4, <2>7, <2>11
  <2> QED
    BY <2>1, <2>12 DEF Shape, X1, X2, X3, X4, P
<1>6. Value(a) \in Int /\ Value(b) \in Int /\ Value(c) \in Int /\ Value(d) \in Int /\ Value(e) \in Int
  BY <1>2 DEF RealCards
<1>7. m(Value(a)) <= 4
  BY <1>3, <1>4
<1>9. ShapeOf(Value(a), Value(b), Value(c), Value(d), Value(e), Shape(S))
  <2> HIDE DEF Equals
  <2> QED
    BY <1>5, <1>6, <1>7, FiveNumbers
<1> DEFINE n == Shape(S)
<1>10. n = Shape(S) /\ \A v : Times(S, v) = m(v)
  BY <1>3
<1> HIDE DEF RealCards, m, n
<1>11. ShapeOf(Value(a), Value(b), Value(c), Value(d), Value(e), n)
  BY <1>9, <1>10
<1> QED
  BY <1>4, <1>10, <1>11 DEF ShapeOf, m

\* Among five cards or more there are five that include any given few.
LEMMA FiveOf ==
  ASSUME NEW T, IsFiniteSet(T), Cardinality(T) >= 5, NEW X \in SUBSET T, Cardinality(X) <= 5
  PROVE  \E S \in SUBSET T : X \subseteq S /\ IsFiniteSet(S) /\ Cardinality(S) = 5
<1> DEFINE Sets == {Y \in SUBSET T : X \subseteq Y /\ Cardinality(Y) <= 5}
           N == {5 - Cardinality(Y) : Y \in Sets}
<1>1. \A Y \in SUBSET T : IsFiniteSet(Y) /\ Cardinality(Y) \in Nat
  BY FS_Subset, FS_CardinalityType
<1>2. X \in Sets /\ \A Y \in Sets : 5 - Cardinality(Y) \in Nat
  BY <1>1
<1>3. N \subseteq Nat /\ N # {}
  <2> HIDE DEF Sets
  <2> QED
    BY <1>2
<1>4. PICK n \in N : \A k \in N : n <= k
  <2> HIDE DEF N
  <2> QED
    BY <1>3, LeastNumber
<1>5. PICK Y \in Sets : n = 5 - Cardinality(Y)
  BY <1>4
<1>6. Y \in SUBSET T /\ X \subseteq Y /\ Cardinality(Y) <= 5 /\ Cardinality(Y) \in Nat
  BY <1>1, <1>5
<1>7. ASSUME Cardinality(Y) < 5
      PROVE  FALSE
  <2>1. Cardinality(T) \in Nat /\ Y # T
    BY <1>1, <1>7
  <2>2. PICK c \in T : c \notin Y
    BY <1>6, <2>1
  <2>3. Y \cup {c} \in SUBSET T /\ Cardinality(Y \cup {c}) = Cardinality(Y) + 1
    BY <1>1, <1>6, <2>2, FS_AddElement
  <2>4. Y \cup {c} \in Sets
    BY <1>6, <1>7, <2>3
  <2>5. 5 - Cardinality(Y \cup {c}) \in N
    BY <2>4
  <2> QED
    BY <1>4, <1>5, <1>6, <2>3, <2>5
<1> QED
  BY <1>1, <1>6, <1>7

\* What each category wants, as Shows has it of a hand.
Fits(S, c) ==
  \/ c = 1
  \/ c = 2 /\ Shape(S) = 7
  \/ c = 3 /\ Shape(S) = 9
  \/ c = 4 /\ Shape(S) = 11
  \/ c = 5 /\ Straights(S) # {}
  \/ c = 6 /\ OneSuit(S)
  \/ c = 7 /\ Shape(S) = 13
  \/ c = 8 /\ Shape(S) = 17
  \/ c = 9 /\ Straights(S) # {} /\ OneSuit(S)
  \/ c = 10 /\ Straights(S) = {14} /\ OneSuit(S)

LEMMA RuleCategoryFits ==
  ASSUME NEW S
  PROVE  /\ RuleCategory(S) \in 1..10 /\ Fits(S, RuleCategory(S))
         /\ \A c \in 1..10 : Fits(S, c) => c <= RuleCategory(S)
<1> DEFINE shape    == Shape(S)
           straight == Straights(S)
           flush    == OneSuit(S)
           Rule(c) == CASE c = 2 -> shape = 7   [] c = 3 -> shape = 9   [] c = 4 -> shape = 11
                        [] c = 7 -> shape = 13  [] c = 8 -> shape = 17
                        [] c = 5 -> straight # {}
                        [] c = 6 -> flush
                        [] c = 9 -> straight # {} /\ flush
                        [] c = 10 -> straight = {14} /\ flush
           R == {1} \cup {c \in 2..10 : Rule(c)}
<1>1. \A c \in 2..10 : Rule(c) <=> Fits(S, c)
  <2> SUFFICES ASSUME NEW c \in 2..10 PROVE Rule(c) <=> Fits(S, c)
    OBVIOUS
  <2>1. \/ c = 2 \/ c = 3 \/ c = 4 \/ c = 5 \/ c = 6 \/ c = 7 \/ c = 8 \/ c = 9 \/ c = 10
    OBVIOUS
  <2>5. /\ Rule(2) <=> shape = 7
        /\ Rule(3) <=> shape = 9
        /\ Rule(4) <=> shape = 11
        /\ Rule(5) <=> straight # {}
        /\ Rule(6) <=> flush
        /\ Rule(7) <=> shape = 13
        /\ Rule(8) <=> shape = 17
        /\ Rule(9) <=> straight # {} /\ flush
        /\ Rule(10) <=> straight = {14} /\ flush
    BY DEF OneSuit
  <2> HIDE DEF Rule
  <2> QED
    BY <2>1, <2>5 DEF Fits
<1>2. Fits(S, 1)
  BY DEF Fits
<1> HIDE DEF Rule
<1>3. R = {c \in 1..10 : Fits(S, c)}
  <2> HIDE DEF Rule
  <2>1. \A c \in 1..10 : c = 1 \/ c \in 2..10
    OBVIOUS
  <2>2. \A c \in 2..10 : c \in 1..10
    OBVIOUS
  <2> QED
    BY <1>1, <1>2, <2>1, <2>2
<1>4. RuleCategory(S) = Max(R)
  BY DEF RuleCategory, Rule
<1> HIDE DEF R
<1>5. R \subseteq 0..16 /\ R # {}
  BY <1>2, <1>3
<1>6. Max(R) \in R /\ \A c \in R : Max(R) >= c
  BY <1>5, GreatestNumber
<1> QED
  BY <1>3, <1>4, <1>6

\* Cards in a row: one for each value.
LEMMA RowOfFive ==
  ASSUME NEW T, NEW g \in 6..14, (g - 4)..g \subseteq HighValues(T)
  PROVE  \E S \in SUBSET T : /\ IsFiniteSet(S) /\ Cardinality(S) = 5
                             /\ HighValues(S) = (g - 4)..g
<1> DEFINE V == (g - 4)..g
           pick == [w \in V |-> CHOOSE c \in T : High(Value(c)) = w]
           S == {pick[w] : w \in V}
<1>1. \A w \in V : pick[w] \in T /\ High(Value(pick[w])) = w
  BY DEF HighValues
<1>2. IsFiniteSet(V) /\ Cardinality(V) = 5
  <2>1. g - 4 \in Int /\ g \in Int /\ ~ (g - 4 > g) /\ g - (g - 4) + 1 = 5
    OBVIOUS
  <2> QED
    BY <2>1, FS_Interval
<1>3. S \subseteq T /\ HighValues(S) = V
  <2> HIDE DEF V
  <2> HIDE DEF pick
  <2> QED
    BY <1>1 DEF HighValues
<1>4. pick \in Bijection(V, S)
  <2> DEFINE D == V
  <2> HIDE DEF D
  <2>1. \A w \in D : pick[w] \in S
    BY DEF D
  <2>2. pick = [w \in D |-> pick[w]]
    BY DEF D
  <2> HIDE DEF pick
  <2>3. pick \in [D -> S]
    BY <2>1, <2>2
  <2>4. \A x, y \in D : pick[x] = pick[y] => x = y
    BY <1>1 DEF D
  <2>5. \A s \in S : \E w \in D : pick[w] = s
    BY DEF D
  <2> HIDE DEF S
  <2>6. pick \in Bijection(D, S)
    BY <2>3, <2>4, <2>5 DEF Bijection, Injection, Surjection, IsInjective
  <2> QED
    BY <2>6 DEF D
<1> HIDE DEF S, V
<1>5. IsFiniteSet(S) /\ Cardinality(S) = 5
  BY <1>2, <1>4, FS_Bijection DEF ExistsBijection
<1> QED
  BY <1>3, <1>5 DEF V

\* Two straights are not of the same values.
LEMMA OneStraight ==
  ASSUME NEW S, NEW g \in 5..14, HighValues(S) = Run(g)
  PROVE  Straights(S) = {g}
<1>1. \A f \in 5..14 : Run(f) = Run(g) => f = g
  <2> SUFFICES ASSUME NEW f \in 5..14, Run(f) = Run(g), f # g PROVE FALSE
    OBVIOUS
  <2>1. CASE f = 5 \/ g = 5
    <3>1. 14 \in Run(5) /\ 2 \in Run(5) /\ \A k \in 6..14 : Run(k) = (k - 4)..k
      BY DEF Run
    <3>2. \A k \in 6..14 : ~ (14 \in (k - 4)..k /\ 2 \in (k - 4)..k)
      OBVIOUS
    <3> QED
      BY <2>1, <3>1, <3>2
  <2>2. CASE f # 5 /\ g # 5
    <3>1. Run(f) = (f - 4)..f /\ Run(g) = (g - 4)..g
      BY <2>2 DEF Run
    <3>3. f \in (f - 4)..f /\ g \in (g - 4)..g
      OBVIOUS
    <3>2. f \in (g - 4)..g /\ g \in (f - 4)..f
      BY <3>1, <3>3
    <3> QED
      BY <3>2
  <2> QED
    BY <2>1, <2>2
<1> QED
  BY <1>1 DEF Straights

\* check_flush compares neighbours.
LEMMA FlushSuits ==
  ASSUME NEW h \in Seq(Byte), IsFlush(h)
  PROVE  \A i \in 1..Len(h) : Suit(h[i]) = Suit(h[1])
<1> DEFINE N == {i \in 1..Len(h) : Suit(h[i]) # Suit(h[1])}
<1>1. SUFFICES ASSUME N # {} PROVE FALSE
  OBVIOUS
<1>2. PICK n \in N : \A k \in N : n <= k
  <2>1. N \subseteq Nat
    OBVIOUS
  <2> HIDE DEF N
  <2> QED
    BY <1>1, <2>1, LeastNumber
<1>3. n \in 2..Len(h) /\ n - 1 \in 1..Len(h)
  OBVIOUS
<1>4. Suit(h[n - 1]) = Suit(h[1])
  BY <1>2, <1>3
<1> QED
  BY <1>3, <1>4 DEF IsFlush

LEMMA FlushOfFive ==
  ASSUME NEW h \in Seq(Byte), NEW S \in SUBSET ToSet(h), S # {}
  PROVE  /\ IsFlush(h) => OneSuit(S)
         /\ OneSuit(ToSet(h)) => IsFlush(h)
<1>1. ASSUME IsFlush(h)
      PROVE  OneSuit(S)
  <2>1. \A c \in S : Suit(c) = Suit(h[1])
    BY <1>1, FlushSuits DEF ToSet
  <2>2. {Suit(c) : c \in S} = {Suit(h[1])}
    BY <2>1
  <2> QED
    BY <2>2, FS_Singleton DEF OneSuit
<1>2. ASSUME OneSuit(ToSet(h))
      PROVE  IsFlush(h)
  <2> DEFINE suits == {Suit(c) : c \in ToSet(h)}
  <2>1. \A i \in 1..Len(h) : Suit(h[i]) \in suits
    BY DEF ToSet
  <2>2. IsFiniteSet(suits)
    <3>1. \A i \in 1..Len(h) : Suit(h[i]) \in 0..3
      BY ValuesType
    <3>2. suits \in SUBSET (0..3)
      BY <3>1 DEF ToSet
    <3> QED
      BY <3>2, FourSuits, FS_Subset
  <2> HIDE DEF suits
  <2>3. \E s : suits = {s}
    BY <1>2, <2>2, FS_Singleton DEF OneSuit, suits
  <2>4. \A i \in 2..Len(h) : i \in 1..Len(h) /\ i - 1 \in 1..Len(h)
    OBVIOUS
  <2> QED
    BY <2>1, <2>3, <2>4 DEF IsFlush
<1> QED
  BY <1>1, <1>2

-----------------------------------------------------------------------------
(* What a hand shows.                                                       *)

\* Cards as they are dealt: none comes twice.
NoneTwice(h) == \A i, k \in 1..Len(h) : h[i] = h[k] => i = k

RealHand(h) == h \in Seq(Byte) /\ h # <<>> /\ RealCards(ToSet(h)) /\ NoneTwice(h)

\* How often the most frequent value of a hand occurs, and the next.
Most(h, i) ==
  LET counts  == CountValues(Values(h))
      byCount == ByCount(Values(h))
  IN IF i \in DOMAIN byCount THEN counts[byCount[i]] ELSE 0

\* A hand is as many cards as it is long.
LEMMA HandCards ==
  ASSUME NEW h, RealHand(h)
  PROVE  /\ Len(h) \in Nat \ {0} /\ IsFiniteSet(ToSet(h)) /\ Cardinality(ToSet(h)) = Len(h)
         /\ \A v : /\ Times(ToSet(h), v) = Cardinality({i \in 1..Len(h) : Value(h[i]) = v})
                   /\ Times(ToSet(h), v) \in Nat
<1>1. Len(h) \in Nat \ {0} /\ DOMAIN h = 1..Len(h)
  BY DEF RealHand
<1>2. IsFiniteSet(1..Len(h)) /\ Cardinality(1..Len(h)) = Len(h)
  BY <1>1, FS_Interval
<1>3. ASSUME NEW I \in SUBSET (1..Len(h))
      PROVE  /\ IsFiniteSet({h[i] : i \in I})
             /\ Cardinality({h[i] : i \in I}) = Cardinality(I)
  <2> DEFINE D == {h[i] : i \in I}
             f == [i \in I |-> h[i]]
  <2>1. f \in Bijection(I, D)
    BY DEF RealHand, NoneTwice, Bijection, Injection, Surjection, IsInjective
  <2> HIDE DEF D, f
  <2>2. IsFiniteSet(I)
    BY <1>2, FS_Subset
  <2>3. IsFiniteSet(D) /\ Cardinality(D) = Cardinality(I)
    BY <2>1, <2>2, FS_Bijection DEF ExistsBijection
  <2> QED
    BY <2>3 DEF D
<1>4. ToSet(h) = {h[i] : i \in 1..Len(h)}
  BY <1>1 DEF ToSet
<1>5. ASSUME NEW v
      PROVE  /\ Times(ToSet(h), v) = Cardinality({i \in 1..Len(h) : Value(h[i]) = v})
             /\ Times(ToSet(h), v) \in Nat
  <2> DEFINE I == {i \in 1..Len(h) : Value(h[i]) = v}
  <2>1. OfOneValue(ToSet(h), v) = {h[i] : i \in I}
    BY <1>4 DEF OfOneValue
  <2>2. I \in SUBSET (1..Len(h))
    OBVIOUS
  <2> HIDE DEF I
  <2>3. IsFiniteSet({h[i] : i \in I}) /\ Cardinality({h[i] : i \in I}) = Cardinality(I)
    BY <1>3, <2>2
  <2>4. Times(ToSet(h), v) = Cardinality(I) /\ Times(ToSet(h), v) \in Nat
    BY <2>1, <2>3, FS_CardinalityType DEF Times
  <2> QED
    BY <2>4 DEF I
<1>6. IsFiniteSet(ToSet(h)) /\ Cardinality(ToSet(h)) = Len(h)
  BY <1>2, <1>3, <1>4
<1> QED
  BY <1>1, <1>5, <1>6

\* The values by count: each once, and none before one that occurs more often.
LEMMA ByCountOrder ==
  ASSUME NEW h, RealHand(h)
  PROVE  LET values == Values(h)
             B      == ByCount(values)
             m      == Cardinality({i \in DOMAIN values : \A j \in 1..(i - 1) : values[j] # values[i]})
         IN /\ m \in Nat \ {0} /\ DOMAIN B = 1..m
            /\ \A i \in 1..m : CountValues(values)[B[i]] = Times(ToSet(h), B[i])
            /\ \A i, k \in 1..m : i < k => /\ B[i] # B[k]
                                           /\ Times(ToSet(h), B[k]) <= Times(ToSet(h), B[i])
            /\ \A i \in 1..m : Times(ToSet(h), B[i]) >= 1
            /\ \A v : Times(ToSet(h), v) > 0 => \E i \in 1..m : B[i] = v
<1> DEFINE values == Values(h)
           firsts == {i \in DOMAIN values : \A j \in 1..(i - 1) : values[j] # values[i]}
           m      == Cardinality(firsts)
           B      == ByCount(values)
           counts == CountValues(values)
           weight == [i \in firsts |-> 16 * counts[values[i]] + values[i]]
           times(v) == Times(ToSet(h), v)
<1>1. /\ h \in Seq(Byte) /\ Len(h) \in Nat \ {0}
      /\ values \in Seq(0..15) /\ Len(values) = Len(h) /\ DOMAIN values = 1..Len(h)
      /\ \A i \in 1..Len(h) : values[i] = Value(h[i]) /\ values[i] \in 0..15
  BY HandCards, ValuesType DEF RealHand, Values
<1>2. /\ \A v : times(v) \in Nat
      /\ \A v : times(v) = Cardinality({i \in 1..Len(h) : values[i] = v})
  <2> SUFFICES ASSUME NEW v
               PROVE  /\ times(v) \in Nat
                      /\ times(v) = Cardinality({i \in 1..Len(h) : values[i] = v})
    OBVIOUS
  <2> HIDE DEF values
  <2>1. {i \in 1..Len(h) : values[i] = v} = {i \in 1..Len(h) : Value(h[i]) = v}
    BY <1>1
  <2>2. /\ times(v) = Cardinality({i \in 1..Len(h) : Value(h[i]) = v})
        /\ times(v) \in Nat
    BY HandCards
  <2> QED
    BY <2>1, <2>2
<1>3. \A i \in 1..Len(h) : counts[values[i]] = times(values[i]) /\ values[i] \in ToSet(values)
  <2> HIDE DEF values, times
  <2> QED
    BY <1>1, <1>2 DEF CountValues, ToSet
<1>4. ASSUME NEW v, times(v) > 0
      PROVE  \E i \in firsts : values[i] = v
  <2> DEFINE I == {i \in 1..Len(h) : values[i] = v}
  <2>1. I # {} /\ I \subseteq Nat
    <3>1. Cardinality(I) > 0
      BY <1>2, <1>4
    <3> HIDE DEF values
    <3> QED
      BY <3>1, FS_EmptySet
  <2>2. PICK i \in I : \A k \in I : i <= k
    <3> HIDE DEF I
    <3> QED
      BY <2>1, LeastNumber
  <2> HIDE DEF values
  <2>3. i \in firsts
    BY <1>1, <2>2
  <2> QED
    BY <2>2, <2>3
<1>5. ASSUME NEW i \in firsts
      PROVE  times(values[i]) >= 1
  <2> HIDE DEF values
  <2> DEFINE I == {k \in 1..Len(h) : values[k] = values[i]}
  <2>0. IsFiniteSet(1..Len(h))
    BY <1>1, FS_Interval
  <2>1. i \in I /\ IsFiniteSet(I)
    <3>1. I \in SUBSET (1..Len(h)) /\ i \in I
      BY <1>1
    <3> HIDE DEF I
    <3> QED
      BY <2>0, <3>1, FS_Subset
  <2> HIDE DEF I
  <2>2. Cardinality(I) # 0
    BY <2>1, FS_EmptySet
  <2>3. times(values[i]) = Cardinality(I) /\ times(values[i]) \in Nat
    BY <1>2 DEF I
  <2> QED
    BY <2>2, <2>3
<1>6. \A i, k \in firsts : i # k => values[i] # values[k]
  <2> HIDE DEF values
  <2> QED
    BY <1>1
<1>7. \A i \in firsts : weight[i] = 16 * times(values[i]) + values[i] /\ weight[i] \in Int
  <2> HIDE DEF values, times
  <2>1. \A i \in firsts : i \in 1..Len(h)
    BY <1>1
  <2>2. \A i \in firsts : /\ counts[values[i]] = times(values[i]) /\ times(values[i]) \in Nat
                          /\ values[i] \in 0..15
    BY <1>1, <1>2, <1>3, <2>1
  <2> HIDE DEF firsts, counts
  <2>3. \A i \in firsts : weight[i] = 16 * counts[values[i]] + values[i]
    OBVIOUS
  <2> HIDE DEF weight
  <2> QED
    BY <2>2, <2>3
<1>8. firsts \in SUBSET DOMAIN values
  OBVIOUS
<1>9. B = Arranged(values, firsts, weight)
  BY Zenon DEF ByCount, firsts, weight, counts
<1> HIDE DEF values, firsts, B, counts, weight, times
<1>10. /\ m \in Nat /\ DOMAIN B = 1..m
       /\ \E place \in [firsts -> 1..m] :
            /\ \A i, k \in firsts : place[i] = place[k] => i = k
            /\ \A n \in 1..m : \E i \in firsts : place[i] = n
            /\ \A i, k \in firsts : weight[k] > weight[i] => place[k] < place[i]
            /\ \A i \in firsts : B[place[i]] = values[i]
  <2>1. values \in Seq(0..15) /\ \A i \in firsts : weight[i] \in Int
    BY <1>1, <1>7
  <2>2. /\ Cardinality(firsts) \in Nat
        /\ DOMAIN Arranged(values, firsts, weight) = 1..Cardinality(firsts)
        /\ \E place \in [firsts -> 1..Cardinality(firsts)] :
             /\ \A i, k \in firsts : place[i] = place[k] => i = k
             /\ \A n \in 1..Cardinality(firsts) : \E i \in firsts : place[i] = n
             /\ \A i, k \in firsts : weight[k] > weight[i] => place[k] < place[i]
             /\ \A i \in firsts : Arranged(values, firsts, weight)[place[i]] = values[i]
    BY <1>8, <2>1, ArrangedPlaces
  <2> QED
    BY <1>9, <2>2
<1>11. PICK place \in [firsts -> 1..m] :
            /\ \A i, k \in firsts : place[i] = place[k] => i = k
            /\ \A n \in 1..m : \E i \in firsts : place[i] = n
            /\ \A i, k \in firsts : weight[k] > weight[i] => place[k] < place[i]
            /\ \A i \in firsts : B[place[i]] = values[i]
  BY <1>10
<1>12. m # 0
  <2>1. times(values[1]) > 0
    <3>1. 1 \in firsts
      BY <1>1 DEF firsts
    <3> QED
      BY <1>2, <1>5, <3>1
  <2>2. PICK i \in firsts : TRUE
    BY <1>4, <2>1
  <2> QED
    BY <1>10, <1>11, <2>2
<1>13. \A n \in 1..m : counts[B[n]] = times(B[n]) /\ times(B[n]) >= 1
  <2>1. \A i \in firsts : i \in 1..Len(h)
    BY <1>1, <1>8
  <2> QED
    BY <1>3, <1>5, <1>11, <2>1
<1>14. ASSUME NEW n \in 1..m, NEW k \in 1..m, n < k
       PROVE  B[n] # B[k] /\ times(B[k]) <= times(B[n])
  <2>1. PICK i \in firsts, j \in firsts : place[i] = n /\ place[j] = k
    BY <1>11
  <2>2. B[n] = values[i] /\ B[k] = values[j] /\ i # j
    BY <1>10, <1>11, <1>14, <2>1
  <2>3. ~ (weight[j] > weight[i])
    BY <1>10, <1>11, <1>14, <2>1
  <2>4. /\ times(values[i]) \in Nat /\ times(values[j]) \in Nat
        /\ values[i] \in 0..15 /\ values[j] \in 0..15
    BY <1>1, <1>2, <1>8
  <2>5. times(values[j]) <= times(values[i])
    BY <1>7, <2>3, <2>4
  <2> QED
    BY <1>6, <2>2, <2>5
<1>15. \A v : times(v) > 0 => \E n \in 1..m : B[n] = v
  BY <1>4, <1>11
<1> QED
  BY <1>10, <1>12, <1>13, <1>14, <1>15 DEF values, firsts, B, counts, times

LEMMA MostCounts ==
  ASSUME NEW h, RealHand(h)
  PROVE  /\ Most(h, 1) \in Nat /\ Most(h, 2) \in Nat /\ Most(h, 1) >= Most(h, 2)
         /\ \E a, b : /\ a # b /\ Most(h, 1) = Times(ToSet(h), a)
                      /\ Most(h, 2) = Times(ToSet(h), b)
                      /\ \A v : /\ Times(ToSet(h), v) <= Most(h, 1)
                                /\ v # a => Times(ToSet(h), v) <= Most(h, 2)
                      /\ LET B == ByCount(Values(h))
                         IN /\ 1 \in DOMAIN B /\ a = B[1]
                            /\ Most(h, 2) > 0 => 2 \in DOMAIN B /\ b = B[2]
<1> DEFINE values == Values(h)
           B      == ByCount(values)
           m      == Cardinality({i \in DOMAIN values : \A j \in 1..(i - 1) : values[j] # values[i]})
           times(v) == Times(ToSet(h), v)
<1>1. /\ m \in Nat \ {0} /\ DOMAIN B = 1..m
      /\ \A i \in 1..m : CountValues(values)[B[i]] = times(B[i])
      /\ \A i, k \in 1..m : i < k => B[i] # B[k] /\ times(B[k]) <= times(B[i])
      /\ \A i \in 1..m : times(B[i]) >= 1
      /\ \A v : times(v) > 0 => \E i \in 1..m : B[i] = v
  BY ByCountOrder
<1>2. \A v : times(v) \in Nat
  BY HandCards
<1>3. \A i : Most(h, i) = IF i \in DOMAIN B THEN CountValues(values)[B[i]] ELSE 0
  BY DEF Most
<1> HIDE DEF values, m, B, times
<1>4. Most(h, 1) = times(B[1]) /\ 1 \in 1..m
  BY <1>1, <1>3
<1>5. \A v : times(v) <= times(B[1])
  <2> SUFFICES ASSUME NEW v PROVE times(v) <= times(B[1])
    OBVIOUS
  <2>1. CASE times(v) = 0
    BY <1>2, <2>1
  <2>2. CASE times(v) > 0
    <3>1. PICK i \in 1..m : B[i] = v
      BY <1>1, <2>2
    <3>2. i = 1 \/ 1 < i
      OBVIOUS
    <3> QED
      BY <1>1, <1>2, <1>4, <3>1, <3>2
  <2> QED
    BY <1>2, <2>1, <2>2
<1>6. CASE m = 1
  <2>1. Most(h, 2) = 0
    BY <1>1, <1>3, <1>6
  <2>2. \A v : v # B[1] => times(v) = 0
    <3> SUFFICES ASSUME NEW v, v # B[1], times(v) # 0 PROVE FALSE
      OBVIOUS
    <3>1. times(v) > 0
      BY <1>2
    <3>2. PICK i \in 1..m : B[i] = v
      BY <1>1, <3>1
    <3> QED
      BY <1>6, <3>2
  <2>3. PICK b : b # B[1]
    <3>1. 0 # B[1] \/ 1 # B[1]
      OBVIOUS
    <3> QED
      BY <3>1
  <2>4. times(b) = 0
    BY <2>2, <2>3
  <2> QED
    BY <1>1, <1>2, <1>4, <1>5, <2>1, <2>2, <2>3, <2>4 DEF times, B, values
<1>7. CASE m > 1
  <2>1. 2 \in 1..m /\ Most(h, 2) = times(B[2]) /\ B[1] # B[2] /\ times(B[2]) <= times(B[1])
    BY <1>1, <1>3, <1>4, <1>7
  <2>2. ASSUME NEW v, v # B[1]
        PROVE  times(v) <= times(B[2])
    <3>1. CASE times(v) = 0
      BY <1>2, <3>1
    <3>2. CASE times(v) > 0
      <4>1. PICK i \in 1..m : B[i] = v
        BY <1>1, <3>2
      <4>2. i = 2 \/ 2 < i
        BY <2>2, <4>1
      <4> QED
        BY <1>1, <1>2, <2>1, <4>1, <4>2
    <3> QED
      BY <1>2, <3>1, <3>2
  <2> QED
    BY <1>1, <1>2, <1>4, <1>5, <2>1, <2>2 DEF times, B, values
<1> QED
  BY <1>1, <1>6, <1>7

\* The tests of evaluate, in the terms of Fits.
Seen(h, c) ==
  \/ c = 1
  \/ c = 2 /\ Most(h, 1) = 2
  \/ c = 3 /\ Most(h, 1) = 2 /\ Most(h, 2) = 2
  \/ c = 4 /\ Most(h, 1) = 3
  \/ c = 5 /\ StraightHigh(Values(h)) # NoStraight
  \/ c = 6 /\ IsFlush(h)
  \/ c = 7 /\ Most(h, 1) = 3 /\ Most(h, 2) = 2
  \/ c = 8 /\ Most(h, 1) = 4
  \/ c = 9 /\ IsFlush(h) /\ StraightHigh(Values(h)) # NoStraight
  \/ c = 10 /\ IsFlush(h) /\ StraightHigh(Values(h)) = 14

LEMMA CategorySeen ==
  ASSUME NEW h
  PROVE  /\ Rank(h).category \in 1..10 /\ Seen(h, Rank(h).category)
         /\ \A c \in 1..10 : Seen(h, c) => c <= Rank(h).category
<1> DEFINE straight == StraightHigh(Values(h))
           shows == Shows(IsFlush(h), straight, Most(h, 1), Most(h, 2))
           T == {c \in 1..10 : shows[c]}
<1>1. Rank(h).category = Max(T)
  BY DEF Rank, Most
<1>2. \A c \in 1..10 : shows[c] <=> Seen(h, c)
  <2> SUFFICES ASSUME NEW c \in 1..10 PROVE shows[c] <=> Seen(h, c)
    OBVIOUS
  <2>1. \/ c = 1 \/ c = 2 \/ c = 3 \/ c = 4 \/ c = 5 \/ c = 6 \/ c = 7 \/ c = 8 \/ c = 9 \/ c = 10
    OBVIOUS
  <2>2. /\ shows[1] <=> TRUE
        /\ shows[2] <=> Most(h, 1) = 2
        /\ shows[3] <=> Most(h, 1) = 2 /\ Most(h, 2) = 2
        /\ shows[4] <=> Most(h, 1) = 3
        /\ shows[5] <=> straight # NoStraight
        /\ shows[7] <=> Most(h, 1) = 3 /\ Most(h, 2) = 2
        /\ shows[8] <=> Most(h, 1) = 4
    BY DEF Shows
  <2>3. /\ shows[6] <=> IsFlush(h)
        /\ shows[9] <=> IsFlush(h) /\ straight # NoStraight
        /\ shows[10] <=> IsFlush(h) /\ straight = 14
    BY DEF Shows, IsFlush
  <2> HIDE DEF shows
  <2> QED
    BY <2>1, <2>2, <2>3 DEF Seen
<1>3. Seen(h, 1)
  BY DEF Seen
<1> HIDE DEF shows
<1>4. T \subseteq 0..16 /\ T # {}
  BY <1>2, <1>3
<1> HIDE DEF T
<1>5. Max(T) \in T /\ \A c \in T : Max(T) >= c
  BY <1>4, GreatestNumber
<1> QED
  BY <1>1, <1>2, <1>5 DEF T

\* Sorting numbers moves the higher ones forward.
LEMMA DescendingPlaces ==
  ASSUME NEW values \in Seq(0..15)
  PROVE  /\ DOMAIN Descending(values) = 1..Len(values)
         /\ Descending(values) = [m \in 1..Len(values) |-> Descending(values)[m]]
         /\ \E place \in [1..Len(values) -> 1..Len(values)] :
              /\ \A i, k \in 1..Len(values) : place[i] = place[k] => i = k
              /\ \A m \in 1..Len(values) : \E i \in 1..Len(values) : place[i] = m
              /\ \A i, k \in 1..Len(values) : values[k] > values[i] => place[k] < place[i]
              /\ \A i \in 1..Len(values) : Descending(values)[place[i]] = values[i]
<1> DEFINE I == 1..Len(values)
           n == Cardinality(I)
           D == Descending(values)
           weight == values
<1>1. I = DOMAIN values /\ I \in SUBSET DOMAIN values /\ \A i \in I : weight[i] \in Int
  OBVIOUS
<1>2. n = Len(values) /\ 1..n = I
  <2>1. Len(values) \in Nat
    OBVIOUS
  <2>2. Cardinality(1..Len(values)) = Len(values)
    <3> DEFINE low  == 1
               high == Len(values)
    <3>1. low \in Int /\ high \in Int /\ low = 1 /\ high = Len(values) /\ high >= 0
      BY <2>1
    <3> HIDE DEF low, high
    <3>2. IsFiniteSet(low..high) /\ Cardinality(low..high) = IF low > high THEN 0 ELSE high - low + 1
      BY <3>1, FS_Interval
    <3> QED
      BY <3>1, <3>2
  <2> QED
    BY <2>2
<1>3. D = Arranged(values, I, weight)
  BY <1>1 DEF Descending
<1>4. D = [m \in 1..n |-> D[m]]
  BY <1>3 DEF Arranged
<1> HIDE DEF I, n, D, weight
<1>5. /\ DOMAIN Arranged(values, I, weight) = 1..n
      /\ \E place \in [I -> 1..n] :
           /\ \A i, k \in I : place[i] = place[k] => i = k
           /\ \A m \in 1..n : \E i \in I : place[i] = m
           /\ \A i, k \in I : weight[k] > weight[i] => place[k] < place[i]
           /\ \A i \in I : Arranged(values, I, weight)[place[i]] = values[i]
  BY <1>1, ArrangedPlaces DEF n
<1>6. PICK place \in [I -> 1..n] :
           /\ \A i, k \in I : place[i] = place[k] => i = k
           /\ \A m \in 1..n : \E i \in I : place[i] = m
           /\ \A i, k \in I : weight[k] > weight[i] => place[k] < place[i]
           /\ \A i \in I : D[place[i]] = values[i]
  BY <1>3, <1>5
<1>7. /\ place \in [I -> I]
      /\ \A i, k \in I : place[i] = place[k] => i = k
      /\ \A m \in I : \E i \in I : place[i] = m
      /\ \A i, k \in I : values[k] > values[i] => place[k] < place[i]
      /\ \A i \in I : D[place[i]] = values[i]
  BY <1>2, <1>6 DEF weight
<1>8. DOMAIN D = I /\ D = [m \in I |-> D[m]]
  BY <1>2, <1>4
<1> QED
  BY <1>7, <1>8 DEF I, D

\* The wheel is sorted as five to ace, and nothing else is.
LEMMA LowestStraight ==
  ASSUME NEW values \in Seq(0..15)
  PROVE  Descending(values) = <<5, 4, 3, 2, 1>>
           <=> Len(values) = 5 /\ ToSet(values) = 1..5
<1> DEFINE D == Descending(values)
           n == Len(values)
<1>1. DOMAIN values = 1..n /\ n \in Nat /\ \A i \in DOMAIN values : values[i] \in Int
  OBVIOUS
<1>2. n = Len(values)
  OBVIOUS
<1>3. DOMAIN D = 1..n
  BY DescendingPlaces
<1>4. PICK place \in [1..n -> 1..n] :
           /\ \A i, k \in 1..n : place[i] = place[k] => i = k
           /\ \A m \in 1..n : \E i \in 1..n : place[i] = m
           /\ \A i, k \in 1..n : values[k] > values[i] => place[k] < place[i]
           /\ \A i \in 1..n : D[place[i]] = values[i]
  BY DescendingPlaces
<1>5. ToSet(values) = {D[m] : m \in 1..n}
  <2> HIDE DEF D, n
  <2>1. ASSUME NEW x \in ToSet(values) PROVE x \in {D[m] : m \in 1..n}
    <3>1. PICK i \in 1..n : x = values[i]
      BY <1>1, <2>1 DEF ToSet
    <3> QED
      BY <1>4, <3>1
  <2>2. ASSUME NEW m \in 1..n PROVE D[m] \in ToSet(values)
    BY <1>1, <1>4, <2>2 DEF ToSet
  <2> QED
    BY <2>1, <2>2
<1>6. D = [m \in 1..n |-> D[m]]
  BY DescendingPlaces
<1> HIDE DEF D, n
<1>7. ASSUME D = <<5, 4, 3, 2, 1>>
      PROVE  Len(values) = 5 /\ ToSet(values) = 1..5
  <2>1. 1..n = 1..5
    BY <1>3, <1>7
  <2>2. n = 5
    BY <1>1, <1>2, <2>1
  <2>3. D[1] = 5 /\ D[2] = 4 /\ D[3] = 3 /\ D[4] = 2 /\ D[5] = 1
    BY <1>7
  <2>4. \A m \in 1..5 : D[m] \in 1..5 /\ \E k \in 1..5 : D[k] = m
    <3>1. \A m \in 1..5 : m = 1 \/ m = 2 \/ m = 3 \/ m = 4 \/ m = 5
      OBVIOUS
    <3> QED
      BY <2>3, <3>1
  <2> QED
    BY <1>2, <1>5, <2>2, <2>4
<1>8. ASSUME Len(values) = 5, ToSet(values) = 1..5
      PROVE  D = <<5, 4, 3, 2, 1>>
  <2>1. n = 5
    BY <1>2, <1>8
  <2>2. \A m \in 1..5 : D[m] \in 1..5
    BY <1>5, <1>8, <2>1
  <2>3. \A x \in 1..5 : \E m \in 1..5 : D[m] = x
    BY <1>5, <1>8, <2>1
  <2>4. ASSUME NEW m \in 1..5, NEW k \in 1..5, m < k
        PROVE  D[m] >= D[k]
    <3>1. PICK i \in 1..n, j \in 1..n : place[i] = m /\ place[j] = k
      BY <1>4, <2>1
    <3>2. D[m] = values[i] /\ D[k] = values[j] /\ values[i] \in Int /\ values[j] \in Int
      BY <1>1, <1>4, <3>1
    <3>3. ~ (values[j] > values[i])
      BY <1>1, <1>4, <2>1, <2>4, <3>1
    <3> QED
      BY <3>2, <3>3
  <2>5. D[1] = 5 /\ D[2] = 4 /\ D[3] = 3 /\ D[4] = 2 /\ D[5] = 1
    <3>1. \A m \in 1..5 : m = 1 \/ m = 2 \/ m = 3 \/ m = 4 \/ m = 5
      OBVIOUS
    <3>2. D[1] >= D[2] /\ D[2] >= D[3] /\ D[3] >= D[4] /\ D[4] >= D[5]
      BY <2>4
    <3>3. /\ D[1] \in 1..5 /\ D[2] \in 1..5 /\ D[3] \in 1..5 /\ D[4] \in 1..5 /\ D[5] \in 1..5
      BY <2>2
    <3>4. \A x \in {1, 2, 3, 4, 5} :
            D[1] = x \/ D[2] = x \/ D[3] = x \/ D[4] = x \/ D[5] = x
      BY <2>3, <3>1
    <3> QED
      BY <3>2, <3>3, <3>4
  <2> QED
    BY <1>6, <2>1, <2>5
<1> QED
  BY <1>7, <1>8 DEF D

\* What check_straight finds, and what it does not miss among five cards.
LEMMA StraightSeen ==
  ASSUME NEW h, RealHand(h)
  PROVE  LET straight == StraightHigh(Values(h))
             T == ToSet(h)
         IN /\ straight # NoStraight =>
                 \/ straight = 5 /\ Len(h) = 5 /\ HighValues(T) = Run(5)
                 \/ straight \in 6..14 /\ (straight - 4)..straight \subseteq HighValues(T)
            /\ Len(h) = 5 => \A g \in 5..14 : HighValues(T) = Run(g) => straight = g
<1> DEFINE values == Values(h)
           present == {High(v) : v \in ToSet(values)}
           T == ToSet(h)
           R == {NoStraight} \cup {g \in present : (g - 4)..g \subseteq present}
           straight == StraightHigh(values)
           low == Descending(values) = <<5, 4, 3, 2, 1>>
<1>1. /\ h \in Seq(Byte) /\ values \in Seq(0..15) /\ Len(values) = Len(h)
      /\ ToSet(values) = {Value(c) : c \in T}
      /\ \A v \in ToSet(values) : v \in 1..13
  <2>1. /\ h \in Seq(Byte) /\ values \in Seq(0..15) /\ Len(values) = Len(h)
        /\ \A i \in 1..Len(h) : values[i] = Value(h[i])
    BY ValuesType DEF RealHand, Values
  <2> HIDE DEF values
  <2>2. ToSet(values) = {Value(c) : c \in T}
    BY <2>1 DEF ToSet
  <2>3. \A c \in T : Value(c) \in 1..13
    BY DEF RealHand, RealCards
  <2> QED
    BY <2>1, <2>2, <2>3
<1>2. present = HighValues(T)
  BY <1>1 DEF HighValues
<1>3. present \subseteq 2..14
  <2> HIDE DEF values
  <2>1. \A v \in 1..13 : High(v) \in 2..14
    BY DEF High
  <2>2. \A v \in ToSet(values) : High(v) \in 2..14
    BY <1>1, <2>1
  <2> QED
    BY <2>2
<1>4. straight = IF low THEN 5 ELSE Max(R)
  BY Zenon DEF StraightHigh, StraightAceHigh
<1>5. low <=> Len(h) = 5 /\ ToSet(values) = 1..5
  BY <1>1, LowestStraight
<1>6. low => HighValues(T) = Run(5)
  <2> SUFFICES ASSUME low PROVE HighValues(T) = Run(5)
    OBVIOUS
  <2>1. present = {High(v) : v \in 1..5}
    BY <1>5
  <2>2. {High(v) : v \in 1..5} = {14, 2, 3, 4, 5}
    <3>1. \A v \in 1..5 : v = 1 \/ v = 2 \/ v = 3 \/ v = 4 \/ v = 5
      OBVIOUS
    <3>2. High(1) = 14 /\ High(2) = 2 /\ High(3) = 3 /\ High(4) = 4 /\ High(5) = 5
      BY DEF High
    <3> QED
      BY <3>1, <3>2
  <2> QED
    BY <1>2, <2>1, <2>2 DEF Run
<1>7. Len(h) = 5 /\ HighValues(T) = Run(5) => low
  <2> SUFFICES ASSUME Len(h) = 5, HighValues(T) = Run(5) PROVE ToSet(values) = 1..5
    BY <1>5
  <2>1. present = {2, 3, 4, 5, 14}
    BY <1>2 DEF Run
  <2> DEFINE V == ToSet(values)
  <2>2. /\ \A v \in V : v \in 1..13 /\ High(v) \in {2, 3, 4, 5, 14}
        /\ \A w \in {2, 3, 4, 5, 14} : \E v \in V : High(v) = w
    BY <1>1, <2>1
  <2> HIDE DEF V
  <2>3. \A v \in V : v \in 1..5
    BY <2>2 DEF High
  <2>4. \A v \in 1..5 : v \in V
    <3> SUFFICES ASSUME NEW v \in 1..5 PROVE v \in V
      OBVIOUS
    <3>1. High(v) \in {2, 3, 4, 5, 14}
      BY DEF High
    <3>2. PICK u \in V : High(u) = High(v)
      BY <2>2, <3>1
    <3> QED
      BY <2>2, <2>3, <3>2 DEF High
  <2> QED
    BY <2>3, <2>4 DEF V
<1> HIDE DEF values, present, straight, low, T
<1>8. R \subseteq 0..16 /\ R # {}
  <2> DEFINE rows == {g \in present : (g - 4)..g \subseteq present}
  <2>1. rows \subseteq present
    OBVIOUS
  <2> HIDE DEF rows
  <2>2. rows \subseteq 0..16
    BY <1>3, <2>1
  <2>3. R = {NoStraight} \cup rows
    BY DEF rows
  <2> HIDE DEF R
  <2> QED
    BY <2>2, <2>3 DEF NoStraight
<1>9. Max(R) \in R /\ \A g \in R : Max(R) >= g
  <2> HIDE DEF R
  <2> QED
    BY <1>8, GreatestNumber
<1>10. \A g \in R : g = NoStraight \/ (g \in 6..14 /\ (g - 4)..g \subseteq present)
  <2> SUFFICES ASSUME NEW g \in R, g # NoStraight
               PROVE  g \in 6..14 /\ (g - 4)..g \subseteq present
    OBVIOUS
  <2>1. g \in 2..14 /\ (g - 4)..g \subseteq present
    BY <1>3
  <2>2. g - 4 \in (g - 4)..g
    BY <2>1
  <2>3. g - 4 \in 2..14
    BY <1>3, <2>1, <2>2
  <2> QED
    BY <2>1, <2>3
<1>11. straight # NoStraight =>
         \/ straight = 5 /\ Len(h) = 5 /\ HighValues(T) = Run(5)
         \/ straight \in 6..14 /\ (straight - 4)..straight \subseteq HighValues(T)
  BY <1>2, <1>4, <1>5, <1>6, <1>9, <1>10
<1>12. ASSUME Len(h) = 5, NEW g \in 5..14, HighValues(T) = Run(g)
       PROVE  straight = g
  <2>1. CASE g = 5
    BY <1>4, <1>7, <1>12, <2>1
  <2>2. CASE g # 5
    <3>1. present = (g - 4)..g /\ g \in 6..14 /\ g \in (g - 4)..g
      BY <1>2, <1>12, <2>2 DEF Run
    <3>2. ~low
      <4>1. Straights(T) = {g}
        BY <1>12, OneStraight
      <4>2. low => Straights(T) = {5}
        BY <1>6, OneStraight
      <4> QED
        BY <2>2, <4>1, <4>2
    <3>3. g \in R
      BY <3>1
    <3>4. \A f \in R : f <= g
      BY <3>1 DEF NoStraight
    <3>5. Max(R) \in Int /\ Max(R) <= g /\ Max(R) >= g
      BY <1>8, <1>9, <3>3, <3>4
    <3> QED
      BY <1>4, <3>1, <3>2, <3>5
  <2> QED
    BY <2>1, <2>2
<1> QED
  BY <1>11, <1>12 DEF straight, T, values

\* Some cards of a hand.
LEMMA CardsOfHand ==
  ASSUME NEW h, RealHand(h), NEW S \in SUBSET ToSet(h)
  PROVE  /\ RealCards(S) /\ IsFiniteSet(S)
         /\ \A v : OfOneValue(ToSet(h), v) \subseteq S => Times(S, v) = Times(ToSet(h), v)
<1>1. RealCards(S)
  BY DEF RealHand, RealCards
<1>2. IsFiniteSet(S)
  BY HandCards, FS_Subset
<1>3. ASSUME NEW v, OfOneValue(ToSet(h), v) \subseteq S
      PROVE  Times(S, v) = Times(ToSet(h), v)
  <2>1. OfOneValue(S, v) = OfOneValue(ToSet(h), v)
    BY <1>3 DEF OfOneValue
  <2> QED
    BY <2>1 DEF Times
<1> QED
  BY <1>1, <1>2, <1>3

\* Five cards of a hand that make what the counts of the hand are said to make.
LEMMA CountsNotAbove ==
  ASSUME NEW h, RealHand(h), Len(h) >= 5, NEW c \in {2, 3, 4, 7, 8}, Seen(h, c)
  PROVE  \E S \in SUBSET ToSet(h) : /\ IsFiniteSet(S) /\ Cardinality(S) = 5
                                    /\ RuleCategory(S) >= c
<1> DEFINE T == ToSet(h)
           Of(v) == OfOneValue(T, v)
<1>1. PICK a, b : /\ a # b /\ Most(h, 1) = Times(T, a) /\ Most(h, 2) = Times(T, b)
  BY MostCounts
<1>2. /\ IsFiniteSet(T) /\ Cardinality(T) >= 5
      /\ \A v : Of(v) \in SUBSET T /\ IsFiniteSet(Of(v)) /\ Cardinality(Of(v)) = Times(T, v)
                /\ Times(T, v) \in Nat
  <2>1. IsFiniteSet(T) /\ Cardinality(T) >= 5
    BY HandCards
  <2>2. ASSUME NEW v
        PROVE  /\ Of(v) \in SUBSET T /\ IsFiniteSet(Of(v)) /\ Cardinality(Of(v)) = Times(T, v)
               /\ Times(T, v) \in Nat
    <3>1. Of(v) \in SUBSET T /\ Cardinality(Of(v)) = Times(T, v)
      BY DEF OfOneValue, Times
    <3>2. IsFiniteSet(Of(v))
      BY <2>1, <3>1, FS_Subset
    <3> QED
      BY <3>1, <3>2, HandCards
  <2> QED
    BY <2>1, <2>2
<1>3. \A S \in SUBSET T : Cardinality(S) = 5 =>
        /\ RealCards(S) /\ IsFiniteSet(S)
        /\ \A v : Of(v) \subseteq S => Times(S, v) = Times(T, v)
  BY CardsOfHand
<1> HIDE DEF T, Of
<1>4. CASE c \in {2, 4, 8}
  <2>1. Times(T, a) = CASE c = 2 -> 2 [] c = 4 -> 3 [] c = 8 -> 4
    BY <1>1, <1>4 DEF Seen
  <2>2. Cardinality(Of(a)) <= 5
    BY <1>2, <1>4, <2>1
  <2>3. PICK S \in SUBSET T : Of(a) \subseteq S /\ IsFiniteSet(S) /\ Cardinality(S) = 5
    BY <1>2, <2>2, FiveOf
  <2>4. RealCards(S) /\ Times(S, a) = Times(T, a)
    BY <1>3, <2>3
  <2>5. /\ Shape(S) \in {5, 7, 9, 11, 13, 17}
        /\ Times(S, a) >= 2 => Shape(S) >= 7
        /\ Times(S, a) >= 3 => Shape(S) >= 11
        /\ Times(S, a) >= 4 => Shape(S) >= 17
    BY <2>3, <2>4, Shapes
  <2>6. \E k \in {2, 3, 4, 7, 8} : Fits(S, k) /\ k >= c
    BY <1>4, <2>1, <2>4, <2>5 DEF Fits
  <2>7. RuleCategory(S) >= c
    BY <1>4, <2>6, RuleCategoryFits
  <2> QED
    BY <2>3, <2>7 DEF T
<1>5. CASE c \in {3, 7}
  <2>1. Times(T, b) = 2 /\ Times(T, a) = IF c = 3 THEN 2 ELSE 3
    BY <1>1, <1>5 DEF Seen
  <2>2. Of(a) \cup Of(b) \in SUBSET T /\ Cardinality(Of(a) \cup Of(b)) <= 5
    <3>1. Of(a) \cap Of(b) = {}
      BY <1>1 DEF Of, OfOneValue
    <3>2. Cardinality(Of(a) \cup Of(b)) = Times(T, a) + Times(T, b) - 0
      BY <1>2, <3>1, FS_Union, FS_EmptySet
    <3> QED
      BY <1>2, <2>1, <3>2
  <2>3. PICK S \in SUBSET T : Of(a) \cup Of(b) \subseteq S /\ IsFiniteSet(S) /\ Cardinality(S) = 5
    BY <1>2, <2>2, FiveOf
  <2>4. RealCards(S) /\ Times(S, a) = Times(T, a) /\ Times(S, b) = Times(T, b)
    BY <1>3, <2>3
  <2>5. /\ Shape(S) \in {5, 7, 9, 11, 13, 17}
        /\ Times(S, a) >= 2 /\ Times(S, b) >= 2 => Shape(S) >= 9
        /\ Times(S, a) >= 3 /\ Times(S, b) >= 2 => Shape(S) >= 13
    BY <1>1, <2>3, <2>4, Shapes
  <2>6. \E k \in {2, 3, 4, 7, 8} : Fits(S, k) /\ k >= c
    BY <1>5, <2>1, <2>4, <2>5 DEF Fits
  <2>7. RuleCategory(S) >= c
    BY <1>5, <2>6, RuleCategoryFits
  <2> QED
    BY <2>3, <2>7 DEF T
<1> QED
  BY <1>4, <1>5

LEMMA StraightNotAbove ==
  ASSUME NEW h, RealHand(h), Len(h) >= 5, StraightHigh(Values(h)) # NoStraight
  PROVE  \E S \in SUBSET ToSet(h) :
           /\ IsFiniteSet(S) /\ Cardinality(S) = 5 /\ Straights(S) # {}
           /\ StraightHigh(Values(h)) = 14 => Straights(S) = {14}
<1> DEFINE g == StraightHigh(Values(h))
           T == ToSet(h)
<1>1. \/ g = 5 /\ Len(h) = 5 /\ HighValues(T) = Run(5)
      \/ g \in 6..14 /\ (g - 4)..g \subseteq HighValues(T)
  BY StraightSeen
<1>2. IsFiniteSet(T) /\ Cardinality(T) = Len(h)
  BY HandCards
<1> HIDE DEF g, T
<1>3. PICK S \in SUBSET T : /\ IsFiniteSet(S) /\ Cardinality(S) = 5 /\ g \in 5..14
                            /\ HighValues(S) = Run(g)
  <2>1. CASE g = 5 /\ Len(h) = 5 /\ HighValues(T) = Run(5)
    BY <1>2, <2>1
  <2>2. CASE g \in 6..14 /\ (g - 4)..g \subseteq HighValues(T)
    <3>1. PICK S \in SUBSET T : /\ IsFiniteSet(S) /\ Cardinality(S) = 5
                                /\ HighValues(S) = (g - 4)..g
      BY <2>2, RowOfFive
    <3>2. Run(g) = (g - 4)..g /\ g \in 5..14
      BY <2>2 DEF Run
    <3> QED
      BY <3>1, <3>2
  <2> QED
    BY <1>1, <2>1, <2>2
<1>4. Straights(S) = {g}
  BY <1>3, OneStraight
<1> QED
  BY <1>3, <1>4 DEF g, T

\* A hand is never taken for more than five of its cards are.
LEMMA RankNotAbove ==
  ASSUME NEW h, RealHand(h), Len(h) >= 5
  PROVE  \E S \in kSubset(5, ToSet(h)) : RuleCategory(S) >= Rank(h).category
<1> DEFINE T == ToSet(h)
           c == Rank(h).category
<1>1. c \in 1..10 /\ Seen(h, c)
  BY CategorySeen
<1>2. IsFiniteSet(T) /\ Cardinality(T) >= 5 /\ h \in Seq(Byte)
  BY HandCards DEF RealHand
<1>3. SUFFICES \E S \in SUBSET T : /\ IsFiniteSet(S) /\ Cardinality(S) = 5
                                   /\ RuleCategory(S) >= c
  BY DEF kSubset
<1> HIDE DEF c
<1>4. CASE c \in {2, 3, 4, 7, 8}
  BY <1>1, <1>4, CountsNotAbove
<1>5. CASE c \in {1, 6}
  <2>1. PICK S \in SUBSET T : IsFiniteSet(S) /\ Cardinality(S) = 5
    <3>1. {} \in SUBSET T /\ Cardinality({}) <= 5
      BY FS_EmptySet
    <3> QED
      BY <1>2, <3>1, FiveOf
  <2>2. S # {}
    BY <2>1, FS_EmptySet
  <2>3. c = 6 => OneSuit(S)
    BY <1>1, <1>2, <2>1, <2>2, FlushOfFive DEF Seen
  <2>4. Fits(S, c)
    BY <1>5, <2>3 DEF Fits
  <2>5. c \in 1..10 /\ RuleCategory(S) \in 1..10 /\ c <= RuleCategory(S)
    BY <1>1, <2>4, RuleCategoryFits
  <2> QED
    BY <2>1, <2>5
<1>6. CASE c \in {5, 9, 10}
  <2>1. StraightHigh(Values(h)) # NoStraight
    BY <1>1, <1>6 DEF Seen, NoStraight
  <2>2. PICK S \in SUBSET T : /\ IsFiniteSet(S) /\ Cardinality(S) = 5 /\ Straights(S) # {}
                              /\ StraightHigh(Values(h)) = 14 => Straights(S) = {14}
    BY <2>1, StraightNotAbove
  <2>3. S # {}
    BY <2>2, FS_EmptySet
  <2>4. c \in {9, 10} => OneSuit(S)
    BY <1>1, <1>2, <2>2, <2>3, FlushOfFive DEF Seen
  <2>5. Fits(S, c)
    BY <1>1, <1>6, <2>2, <2>4 DEF Fits, Seen
  <2>6. c \in 1..10 /\ RuleCategory(S) \in 1..10 /\ c <= RuleCategory(S)
    BY <1>1, <2>5, RuleCategoryFits
  <2> QED
    BY <2>2, <2>6
<1> QED
  BY <1>1, <1>4, <1>5, <1>6

\* And five cards are never taken for less.
LEMMA RankNotBelow ==
  ASSUME NEW h, RealHand(h), Len(h) = 5
  PROVE  RuleCategory(ToSet(h)) <= Rank(h).category
<1> DEFINE T == ToSet(h)
           c == RuleCategory(T)
           r == Rank(h).category
<1>1. c \in 1..10 /\ Fits(T, c)
  BY RuleCategoryFits
<1>2. r \in 1..10 /\ \A k \in 1..10 : Seen(h, k) => k <= r
  BY CategorySeen
<1>3. SUFFICES \E k \in 1..10 : Seen(h, k) /\ c <= k
  <2> HIDE DEF c, r
  <2> QED
    BY <1>1, <1>2 DEF c, r, T
<1>4. RealCards(T) /\ IsFiniteSet(T) /\ Cardinality(T) = 5 /\ h \in Seq(Byte) /\ T # {}
  BY HandCards, FS_EmptySet DEF RealHand
<1>5. PICK a, b : /\ a # b /\ Most(h, 1) = Times(T, a) /\ Most(h, 2) = Times(T, b)
                  /\ \A v : /\ Times(T, v) <= Most(h, 1)
                            /\ v # a => Times(T, v) <= Most(h, 2)
  BY MostCounts
<1>6. Most(h, 1) \in 0..4 /\ Most(h, 2) \in 0..4 /\ Most(h, 1) >= Most(h, 2)
      /\ Most(h, 1) + Most(h, 2) <= 5
  BY <1>4, <1>5, MostCounts, Shapes
<1>7. \A v : Times(T, v) \in 0..4
  BY <1>4, Shapes
<1> HIDE DEF T, c, r
<1>8. CASE c \in {1, 5, 6, 9, 10}
  <2>1. c \in {5, 9} => StraightHigh(Values(h)) # NoStraight
    <3>1. ASSUME Straights(T) # {} PROVE StraightHigh(Values(h)) # NoStraight
      <4>1. PICK g \in 5..14 : HighValues(T) = Run(g)
        BY <3>1 DEF Straights
      <4>2. StraightHigh(Values(h)) = g
        BY <4>1, StraightSeen DEF T
      <4> QED
        BY <4>2 DEF NoStraight
    <3> QED
      BY <1>1, <3>1 DEF Fits
  <2>2. c = 10 => StraightHigh(Values(h)) = 14
    <3>1. Straights(T) = {14} => HighValues(T) = Run(14) /\ 14 \in 5..14
      BY DEF Straights
    <3> QED
      BY <1>1, <3>1, StraightSeen DEF Fits, T
  <2>3. c \in {6, 9, 10} => IsFlush(h)
    <3>1. OneSuit(T) => IsFlush(h)
      BY <1>4, FlushOfFive DEF T
    <3> QED
      BY <1>1, <3>1 DEF Fits
  <2>4. Seen(h, c)
    BY <1>8, <2>1, <2>2, <2>3 DEF Seen
  <2> QED
    BY <1>1, <2>4
<1>9. CASE c = 2
  <2>1. PICK v : Times(T, v) >= 2
    BY <1>1, <1>4, <1>9, Shapes DEF Fits
  <2>2. Most(h, 1) \in {2, 3, 4}
    BY <1>5, <1>6, <1>7, <2>1
  <2> QED
    BY <1>9, <2>2 DEF Seen
<1>10. CASE c = 3
  <2>1. PICK v, w : v # w /\ Times(T, v) >= 2 /\ Times(T, w) >= 2
    BY <1>1, <1>4, <1>10, Shapes DEF Fits
  <2>2. Most(h, 1) \in {2, 3, 4} /\ Most(h, 2) >= 2
    BY <1>5, <1>6, <1>7, <2>1
  <2>3. Most(h, 1) = 2 => Most(h, 2) = 2
    BY <1>6, <2>2
  <2> QED
    BY <1>10, <2>2, <2>3 DEF Seen
<1>11. CASE c = 4
  <2>1. PICK v : Times(T, v) >= 3
    BY <1>1, <1>4, <1>11, Shapes DEF Fits
  <2>2. Most(h, 1) \in {3, 4}
    BY <1>5, <1>6, <1>7, <2>1
  <2> QED
    BY <1>11, <2>2 DEF Seen
<1>12. CASE c = 7
  <2>1. PICK v, w : v # w /\ Times(T, v) >= 3 /\ Times(T, w) >= 2
    BY <1>1, <1>4, <1>12, Shapes DEF Fits
  <2>2. Most(h, 1) \in {3, 4} /\ Most(h, 2) >= 2
    BY <1>5, <1>6, <1>7, <2>1
  <2>3. Most(h, 1) = 3 /\ Most(h, 2) = 2
    BY <1>6, <2>2
  <2> QED
    BY <1>12, <2>3 DEF Seen
<1>13. CASE c = 8
  <2>1. PICK v : Times(T, v) >= 4
    BY <1>1, <1>4, <1>13, Shapes DEF Fits
  <2>2. Most(h, 1) = 4
    BY <1>5, <1>6, <1>7, <2>1
  <2> QED
    BY <1>13, <2>2 DEF Seen
<1> QED
  BY <1>1, <1>8, <1>9, <1>10, <1>11, <1>12, <1>13

\* A hand of five or more is never taken for more than five of its cards are, and
\* five cards are taken for what they are.
THEOREM HandsAreRankedRight ==
  ASSUME NEW h, RealHand(h), Len(h) >= 5
  PROVE  LET category == Evaluate(h).category
         IN /\ \E S \in kSubset(5, ToSet(h)) : RuleCategory(S) >= category
            /\ Len(h) = 5 => category = RuleCategory(ToSet(h))
<1>1. Evaluate(h) = Rank(h)
  BY DEF Evaluate, RealHand
<1>2. PICK S \in kSubset(5, ToSet(h)) : RuleCategory(S) >= Rank(h).category
  BY RankNotAbove
<1>3. ASSUME Len(h) = 5
      PROVE  Rank(h).category = RuleCategory(ToSet(h))
  <2>1. IsFiniteSet(ToSet(h)) /\ Cardinality(ToSet(h)) = 5
    BY <1>3, HandCards
  <2>2. S \in SUBSET ToSet(h) /\ Cardinality(S) = 5
    BY <1>2 DEF kSubset
  <2>3. S = ToSet(h)
    BY <2>1, <2>2, FS_Subset
  <2>4. Rank(h).category \in 1..10 /\ RuleCategory(ToSet(h)) \in 1..10
    BY CategorySeen, RuleCategoryFits
  <2> QED
    BY <1>2, <1>3, <2>3, <2>4, RankNotBelow
<1> QED
  BY <1>1, <1>2, <1>3

-----------------------------------------------------------------------------
(* The better hand.                                                         *)

\* Sets of one or two numbers.
LEMMA OneLess ==
  ASSUME NEW x \in 0..80, NEW y \in 0..80, SetLess({x}, {y})
  PROVE  x < y
<1>1. x # y
  BY DEF SetLess
<1>2. {x} \ {y} = {x} /\ {y} \ {x} = {y}
  BY <1>1
<1>3. \A z \in 0..80 : Max({z}) = z
  <2> SUFFICES ASSUME NEW z \in 0..80 PROVE Max({z}) = z
    OBVIOUS
  <2>1. {z} \subseteq 0..80 /\ {z} # {}
    OBVIOUS
  <2> QED
    BY <2>1, GreatestNumber
<1> QED
  BY <1>2, <1>3 DEF SetLess

LEMMA TwoLess ==
  ASSUME NEW x \in 0..80, NEW y \in 0..80, NEW u \in 0..80, NEW v \in 0..80,
         x > y, u > v, SetLess({x, y}, {u, v})
  PROVE  x < u \/ (x = u /\ y < v)
<1> DEFINE A == {x, y} \ {u, v}
           B == {u, v} \ {x, y}
<1>1. A # {} /\ B # {} /\ A \subseteq 0..80 /\ B \subseteq 0..80
  BY DEF SetLess
<1>2. /\ Max(A) \in A /\ \A z \in A : Max(A) >= z
      /\ Max(B) \in B /\ \A z \in B : Max(B) >= z
  <2> HIDE DEF A, B
  <2> QED
    BY <1>1, GreatestNumber
<1>3. Max(A) < Max(B)
  BY DEF SetLess
<1>4. Max(B) = u \/ Max(B) = v
  BY <1>2
<1>5. CASE x \in A
  <2>1. Max(A) >= x
    BY <1>2, <1>5
  <2>2. Max(A) = x
    BY <1>2, <2>1
  <2> QED
    BY <1>3, <1>4, <2>2
<1>6. CASE x \notin A
  <2>1. A = {y} /\ Max(A) = y
    BY <1>1, <1>2, <1>6
  <2>2. x = u \/ x = v
    BY <1>6
  <2>3. Max(B) # x
    BY <1>2
  <2> QED
    BY <1>3, <1>4, <2>1, <2>2, <2>3
<1> QED
  BY <1>5, <1>6

\* Two numbers are sorted.
LEMMA TwoDescending ==
  ASSUME NEW x \in 0..15, NEW y \in 0..15, x # y
  PROVE  Descending(<<x, y>>) = IF x > y THEN <<x, y>> ELSE <<y, x>>
<1> DEFINE s == <<x, y>>
           D == Descending(s)
<1>1. s \in Seq(0..15) /\ Len(s) = 2 /\ s[1] = x /\ s[2] = y
  OBVIOUS
<1> HIDE DEF s
<1> HIDE DEF D
<1>2. /\ D = [m \in 1..Len(s) |-> D[m]]
      /\ \E place \in [1..Len(s) -> 1..Len(s)] :
           /\ \A i, k \in 1..Len(s) : place[i] = place[k] => i = k
           /\ \A i, k \in 1..Len(s) : s[k] > s[i] => place[k] < place[i]
           /\ \A i \in 1..Len(s) : D[place[i]] = s[i]
  BY <1>1, DescendingPlaces DEF D
<1>3. PICK place \in [1..2 -> 1..2] :
           /\ \A i, k \in 1..2 : place[i] = place[k] => i = k
           /\ \A i, k \in 1..2 : s[k] > s[i] => place[k] < place[i]
           /\ \A i \in 1..2 : D[place[i]] = s[i]
  BY <1>1, <1>2
<1>4. place[1] \in {1, 2} /\ place[2] \in {1, 2} /\ place[1] # place[2]
  BY <1>3
<1>5. IF x > y THEN D[1] = x /\ D[2] = y ELSE D[1] = y /\ D[2] = x
  BY <1>1, <1>3, <1>4
<1>6. D = IF x > y THEN <<x, y>> ELSE <<y, x>>
  <2>1. D = [m \in 1..2 |-> D[m]]
    BY <1>1, <1>2
  <2>2. <<x, y>> = [m \in 1..2 |-> <<x, y>>[m]] /\ <<y, x>> = [m \in 1..2 |-> <<y, x>>[m]]
    OBVIOUS
  <2>3. \A m \in 1..2 : D[m] = IF x > y THEN <<x, y>>[m] ELSE <<y, x>>[m]
    BY <1>5
  <2> QED
    BY <2>1, <2>2, <2>3
<1> QED
  BY <1>6 DEF s, D

\* The rules count by High, which tells the thirteen values apart.
LEMMA OftenTimes ==
  ASSUME NEW S, RealCards(S), NEW x \in 1..13
  PROVE  /\ High(x) \in 2..14 /\ Often(S, High(x)) = Times(S, x)
         /\ \A y \in 1..13 : High(y) = High(x) => y = x
<1>1. High(x) \in 2..14 /\ \A y \in 1..13 : High(y) = High(x) => y = x
  BY DEF High
<1>2. {c \in S : High(Value(c)) = High(x)} = OfOneValue(S, x)
  BY <1>1 DEF RealCards, OfOneValue
<1> QED
  BY <1>1, <1>2 DEF Often, Times

LEMMA RepeatedValues ==
  ASSUME NEW S, RealCards(S), Straights(S) = {}
  PROVE  RuleMade(S) = {15 * Times(S, x) + High(x) : x \in {y \in 1..13 : Times(S, y) > 1}}
<1> DEFINE R == {15 * Often(S, v) + v : v \in {w \in HighValues(S) : Often(S, w) > 1}}
           Q == {15 * Times(S, x) + High(x) : x \in {y \in 1..13 : Times(S, y) > 1}}
<1>1. RuleMade(S) = R
  BY DEF RuleMade
<1>2. ASSUME NEW r \in R PROVE r \in Q
  <2>1. PICK v \in HighValues(S) : Often(S, v) > 1 /\ r = 15 * Often(S, v) + v
    BY <1>2
  <2>2. PICK x \in 1..13 : v = High(x)
    BY DEF HighValues, RealCards
  <2>3. Often(S, v) = Times(S, x)
    BY <2>2, OftenTimes
  <2> QED
    BY <2>1, <2>2, <2>3
<1>3. ASSUME NEW q \in Q PROVE q \in R
  <2>1. PICK x \in 1..13 : Times(S, x) > 1 /\ q = 15 * Times(S, x) + High(x)
    BY <1>3
  <2>2. OfOneValue(S, x) # {}
    BY <2>1, FS_EmptySet DEF Times
  <2>3. High(x) \in HighValues(S)
    BY <2>2 DEF OfOneValue, HighValues
  <2>4. Often(S, High(x)) = Times(S, x)
    BY OftenTimes
  <2> QED
    BY <2>1, <2>3, <2>4
<1> QED
  BY <1>1, <1>2, <1>3

\* Cards that are not two of a value are one at most.
LEMMA NoPair ==
  ASSUME NEW S, NEW v, \A c, d \in OfOneValue(S, v) : c = d
  PROVE  Times(S, v) <= 1
<1>1. CASE OfOneValue(S, v) = {}
  BY <1>1, FS_EmptySet DEF Times
<1>2. CASE OfOneValue(S, v) # {}
  <2>1. PICK c : OfOneValue(S, v) = {c}
    BY <1>2
  <2> QED
    BY <2>1, FS_Singleton DEF Times
<1> QED
  BY <1>1, <1>2

\* No two cards of a flush are of one value, nor of a straight.
LEMMA FlushHasNoPair ==
  ASSUME NEW S, RealCards(S), IsFiniteSet(S), OneSuit(S), NEW v
  PROVE  Times(S, v) <= 1
<1>1. PICK suit : {Suit(c) : c \in S} = {suit}
  <2> DEFINE D == {Suit(c) : c \in S}
  <2>1. IsFiniteSet(D) /\ Cardinality(D) = 1
    <3>1. D \subseteq 0..3
      BY DEF RealCards
    <3>2. IsFiniteSet(D)
      BY <3>1, FourSuits, FS_Subset
    <3> QED
      BY <3>2 DEF OneSuit
  <2> HIDE DEF D
  <2>2. \E suit : D = {suit}
    BY <2>1, FS_Singleton
  <2> QED
    BY <2>2 DEF D
<1>2. \A c, d \in OfOneValue(S, v) : c = d
  BY <1>1 DEF OfOneValue, RealCards
<1> QED
  BY <1>2, NoPair

\* A straight has five values.
LEMMA RunOfFive ==
  ASSUME NEW g \in 5..14
  PROVE  IsFiniteSet(Run(g)) /\ Cardinality(Run(g)) = 5
<1>1. CASE g = 5
  <2>1. IsFiniteSet(2..5) /\ Cardinality(2..5) = 4 /\ 14 \notin 2..5
    <3> DEFINE low  == 2
               high == 5
    <3>1. low \in Int /\ high \in Int /\ low = 2 /\ high = 5
      OBVIOUS
    <3> HIDE DEF low, high
    <3>2. IsFiniteSet(low..high) /\ Cardinality(low..high) = IF low > high THEN 0 ELSE high - low + 1
      BY <3>1, FS_Interval
    <3> QED
      BY <3>1, <3>2
  <2>2. Run(g) = (2..5) \cup {14}
    BY <1>1 DEF Run
  <2>3. /\ IsFiniteSet((2..5) \cup {14})
        /\ Cardinality((2..5) \cup {14}) = IF 14 \in 2..5 THEN Cardinality(2..5) ELSE Cardinality(2..5) + 1
    <3> DEFINE L == 2..5
    <3>1. IsFiniteSet(L)
      BY <2>1
    <3> HIDE DEF L
    <3>2. /\ IsFiniteSet(L \cup {14})
          /\ Cardinality(L \cup {14}) = IF 14 \in L THEN Cardinality(L) ELSE Cardinality(L) + 1
      BY <3>1, FS_AddElement
    <3> QED
      BY <3>2 DEF L
  <2> QED
    BY <2>1, <2>2, <2>3
<1>2. CASE g # 5
  <2>1. g - 4 \in Int /\ g \in Int /\ ~ (g - 4 > g) /\ g - (g - 4) + 1 = 5
    OBVIOUS
  <2>2. Run(g) = (g - 4)..g
    BY <1>2 DEF Run
  <2> QED
    BY <2>1, <2>2, FS_Interval
<1> QED
  BY <1>1, <1>2

LEMMA StraightHasNoPair ==
  ASSUME NEW S, IsFiniteSet(S), Cardinality(S) = 5, Straights(S) # {}, NEW v
  PROVE  Times(S, v) <= 1
<1>1. PICK g \in 5..14 : Run(g) = HighValues(S)
  BY DEF Straights
<1>2. Cardinality(Run(g)) = 5
  BY RunOfFive
<1> DEFINE f == [c \in S |-> High(Value(c))]
           V == HighValues(S)
<1>3. f \in Surjection(S, V)
  BY DEF HighValues, Surjection
<1> HIDE DEF f, V
<1>4. f \in Injection(S, V)
  BY <1>1, <1>2, <1>3, FS_Surjection DEF V
<1>5. \A c, d \in S : f[c] = f[d] => c = d
  BY <1>4 DEF Injection, IsInjective
<1>6. \A c, d \in OfOneValue(S, v) : c = d
  BY <1>5 DEF OfOneValue, f
<1> QED
  BY <1>6, NoPair

\* What a rank names of the values by count.
LEMMA NamedValues ==
  ASSUME NEW B \in Seq(0..15), 1 \in DOMAIN B
  PROVE  LET High1(n) == [i \in DOMAIN SubSeq(B, 1, n) |-> High(SubSeq(B, 1, n)[i])]
         IN /\ High1(1) = <<High(B[1])>>
            /\ 2 \in DOMAIN B => High1(2) = <<High(B[1]), High(B[2])>>
<1>1. Len(B) \in Nat /\ Len(B) >= 1 /\ 1 \in 1..Len(B) /\ \A i \in 1..Len(B) : B[i] \in 0..15
  OBVIOUS
<1>2. SubSeq(B, 1, 1) = <<B[1]>>
  <2> DEFINE s == SubSeq(B, 1, 1)
  <2>1. s \in Seq(0..15) /\ Len(s) = 1 /\ s[1] = B[1]
    BY <1>1, SubSeqProperties
  <2> DEFINE t == <<B[1]>>
  <2>2. t \in Seq(0..15) /\ Len(t) = 1 /\ t[1] = B[1]
    BY <1>1
  <2> HIDE DEF s, t
  <2>3. s = t
    BY <2>1, <2>2, SeqEqual
  <2> QED
    BY <2>3 DEF s, t
<1>3. 2 \in DOMAIN B => SubSeq(B, 1, 2) = <<B[1], B[2]>>
  <2> SUFFICES ASSUME 2 \in DOMAIN B PROVE SubSeq(B, 1, 2) = <<B[1], B[2]>>
    OBVIOUS
  <2> DEFINE s == SubSeq(B, 1, 2)
  <2>1. Len(B) >= 2 /\ 2 \in 1..Len(B)
    BY <1>1
  <2>2. s \in Seq(0..15) /\ Len(s) = 2 /\ s[1] = B[1] /\ s[2] = B[2]
    BY <1>1, <2>1, SubSeqProperties
  <2> DEFINE t == <<B[1], B[2]>>
  <2>3. t \in Seq(0..15) /\ Len(t) = 2 /\ t[1] = B[1] /\ t[2] = B[2]
    BY <1>1, <2>1
  <2> HIDE DEF s, t
  <2>4. s = t
    BY <2>2, <2>3, SeqEqual
  <2> QED
    BY <2>4 DEF s, t
<1>4. [i \in DOMAIN <<B[1]>> |-> High(<<B[1]>>[i])] = <<High(B[1])>>
  OBVIOUS
<1>5. [i \in DOMAIN <<B[1], B[2]>> |-> High(<<B[1], B[2]>>[i])] = <<High(B[1]), High(B[2])>>
  OBVIOUS
<1> QED
  BY <1>2, <1>3, <1>4, <1>5

LEMMA MadeValues ==
  ASSUME NEW h, RealHand(h)
  PROVE  LET c    == Rank(h).category
             made == Rank(h).made
         IN \E a, b :
              /\ a \in 1..13 /\ a # b /\ Most(h, 1) = Times(ToSet(h), a) /\ Most(h, 2) = Times(ToSet(h), b)
              /\ \A v : v # a => Times(ToSet(h), v) <= Most(h, 2)
              /\ Most(h, 2) > 0 => b \in 1..13
              /\ c \in {5, 9} => made = <<StraightHigh(Values(h))>>
              /\ c \in {2, 4, 8} => made = <<High(a)>>
              /\ c = 7 => made = <<High(a), High(b)>>
              /\ c = 3 => made = Descending(<<High(a), High(b)>>)
<1> DEFINE B == ByCount(Values(h))
           c == Rank(h).category
           made == Rank(h).made
           T == ToSet(h)
           High1(n) == [i \in DOMAIN SubSeq(B, 1, n) |-> High(SubSeq(B, 1, n)[i])]
<1>1. B \in Seq(0..15) /\ h \in Seq(Byte)
  BY ByCountType, ValuesType DEF RealHand
<1>2. PICK a, b : /\ a # b /\ Most(h, 1) = Times(T, a) /\ Most(h, 2) = Times(T, b)
                  /\ \A v : v # a => Times(T, v) <= Most(h, 2)
                  /\ 1 \in DOMAIN B /\ a = B[1]
                  /\ Most(h, 2) > 0 => 2 \in DOMAIN B /\ b = B[2]
  BY MostCounts
<1>3. \A i \in DOMAIN B : B[i] \in 1..13
  <2> SUFFICES ASSUME NEW i \in DOMAIN B PROVE B[i] \in 1..13
    OBVIOUS
  <2>1. Times(T, B[i]) >= 1
    BY ByCountOrder
  <2>2. OfOneValue(T, B[i]) # {}
    BY <2>1, FS_EmptySet DEF Times
  <2> QED
    BY <2>2 DEF OfOneValue, RealHand, RealCards
<1>4. made = CASE c \in {5, 9} -> <<StraightHigh(Values(h))>>
               [] c = 3 -> Descending(High1(Named[c]))
               [] OTHER -> High1(Named[c])
  BY DEF Rank
<1>5. High1(1) = <<High(B[1])>> /\ (2 \in DOMAIN B => High1(2) = <<High(B[1]), High(B[2])>>)
  BY <1>1, <1>2, NamedValues
<1>6. /\ Named[2] = 1 /\ Named[4] = 1 /\ Named[8] = 1 /\ Named[7] = 2 /\ Named[3] = 2
  BY DEF Named
<1>7. c \in {3, 7} => Most(h, 2) > 0
  BY CategorySeen DEF Seen
<1> HIDE DEF B, c, made, T, High1
<1>8. c \in {5, 9} => made = <<StraightHigh(Values(h))>>
  BY <1>4
<1>9. c \in {2, 4, 8} => made = <<High(a)>>
  BY <1>2, <1>4, <1>5, <1>6
<1>10. c = 7 => made = <<High(a), High(b)>>
  BY <1>2, <1>4, <1>5, <1>6, <1>7
<1>11. c = 3 => made = Descending(<<High(a), High(b)>>)
  BY <1>2, <1>4, <1>5, <1>6, <1>7
<1>12. a \in 1..13 /\ (Most(h, 2) > 0 => b \in 1..13)
  BY <1>2, <1>3
<1> QED
  BY <1>2, <1>8, <1>9, <1>10, <1>11, <1>12, Zenon DEF c, made, T

\* How often the value occurs that a category has most of.
Repeats(c) == IF c \in {2, 3} THEN 2 ELSE IF c \in {4, 7} THEN 3 ELSE 4

\* Five cards that make a pair or more, but no straight and no flush.
LEMMA CountsMade ==
  ASSUME NEW h, RealHand(h), Len(h) = 5
  PROVE  LET c    == Rank(h).category
             made == Rank(h).made
             R    == RuleMade(ToSet(h))
         IN /\ c \in {2, 4, 8} => \E x \in 2..14 : R = {15 * Repeats(c) + x} /\ made = <<x>>
            /\ c \in {3, 7} => \E x, y \in 2..14 :
                 /\ R = {15 * Repeats(c) + x, 30 + y} /\ made = <<x, y>>
                 /\ c = 3 => x > y
<1> DEFINE T == ToSet(h)
           c == Rank(h).category
           made == Rank(h).made
           R == RuleMade(T)
<1>1. SUFFICES ASSUME c \in {2, 3, 4, 7, 8}
               PROVE  \/ /\ c \in {2, 4, 8}
                         /\ \E x \in 2..14 : R = {15 * Repeats(c) + x} /\ made = <<x>>
                      \/ /\ c \in {3, 7}
                         /\ \E x, y \in 2..14 : /\ R = {15 * Repeats(c) + x, 30 + y}
                                                /\ made = <<x, y>> /\ (c = 3 => x > y)
  OBVIOUS
<1>2. RealCards(T) /\ IsFiniteSet(T) /\ Cardinality(T) = 5
  BY HandCards DEF RealHand
<1>3. PICK a, b :
              /\ a \in 1..13 /\ a # b /\ Most(h, 1) = Times(T, a) /\ Most(h, 2) = Times(T, b)
              /\ \A v : v # a => Times(T, v) <= Most(h, 2)
              /\ Most(h, 2) > 0 => b \in 1..13
              /\ c \in {2, 4, 8} => made = <<High(a)>>
              /\ c = 7 => made = <<High(a), High(b)>>
              /\ c = 3 => made = Descending(<<High(a), High(b)>>)
  BY MadeValues
<1>4. Seen(h, c) /\ \A k \in 1..10 : Seen(h, k) => k <= c
  BY CategorySeen
<1>5. /\ \A v : Times(T, v) \in 0..4
      /\ \A v, w : v # w => Times(T, v) + Times(T, w) <= 5
      /\ \A u, v, w : u # v /\ v # w /\ u # w => Times(T, u) + Times(T, v) + Times(T, w) <= 5
  BY <1>2, Shapes
<1>6. /\ c = 2 => Most(h, 1) = 2
      /\ c = 3 => Most(h, 1) = 2 /\ Most(h, 2) = 2
      /\ c = 4 => Most(h, 1) = 3
      /\ c = 7 => Most(h, 1) = 3 /\ Most(h, 2) = 2
      /\ c = 8 => Most(h, 1) = 4
  BY <1>4 DEF Seen
<1> HIDE DEF c, T, made, R
<1>7. Straights(T) = {}
  BY <1>1, <1>2, <1>3, <1>6, StraightHasNoPair
<1>8. R = {15 * Times(T, x) + High(x) : x \in {y \in 1..13 : Times(T, y) > 1}}
  BY <1>2, <1>7, RepeatedValues DEF R
<1>9. High(a) \in 2..14 /\ (b \in 1..13 => High(b) \in 2..14 /\ High(b) # High(a))
  BY <1>2, <1>3, OftenTimes
<1>10. CASE c \in {2, 4, 8}
  <2>1. Most(h, 2) <= 1
    <3>1. Most(h, 2) \in 0..4 /\ Most(h, 1) + Most(h, 2) <= 5
      BY <1>3, <1>5
    <3>2. CASE c = 2
      <4>1. Most(h, 2) <= 2
        BY <3>1, <3>2, <1>6, MostCounts
      <4>2. ~ Seen(h, 3)
        BY <1>4, <3>2
      <4> QED
        BY <3>1, <3>2, <4>1, <4>2, <1>6 DEF Seen
    <3>3. CASE c = 4
      <4>1. ~ Seen(h, 7)
        BY <1>4, <3>3
      <4> QED
        BY <3>1, <3>3, <4>1, <1>6 DEF Seen
    <3>4. CASE c = 8
      BY <3>1, <3>4, <1>6
    <3> QED
      BY <1>10, <3>2, <3>3, <3>4
  <2>2. {y \in 1..13 : Times(T, y) > 1} = {a}
    <3>1. Times(T, a) > 1 /\ a \in 1..13
      BY <1>3, <1>6, <1>10
    <3>2. \A y : y # a => ~ (Times(T, y) > 1)
      BY <1>3, <1>5, <2>1
    <3> QED
      BY <3>1, <3>2
  <2>3. R = {15 * Times(T, a) + High(a)}
    BY <1>8, <2>2
  <2>4. Times(T, a) = Repeats(c)
    BY <1>3, <1>6, <1>10 DEF Repeats
  <2> QED
    BY <1>3, <1>9, <1>10, <2>3, <2>4
<1>11. CASE c \in {3, 7}
  <2>1. Times(T, b) = 2 /\ Times(T, a) = Repeats(c) /\ b \in 1..13
    BY <1>3, <1>6, <1>11 DEF Repeats
  <2>2. {y \in 1..13 : Times(T, y) > 1} = {a, b}
    <3>1. Times(T, a) > 1 /\ Times(T, b) > 1 /\ a \in 1..13
      BY <1>3, <2>1, <1>11 DEF Repeats
    <3>2. \A y : y # a /\ y # b => ~ (Times(T, y) > 1)
      BY <1>3, <1>5, <1>11, <2>1 DEF Repeats
    <3> QED
      BY <2>1, <3>1, <3>2
  <2>3. R = {15 * Times(T, a) + High(a), 15 * Times(T, b) + High(b)}
    BY <1>8, <2>2
  <2>4. R = {15 * Repeats(c) + High(a), 30 + High(b)}
    BY <2>1, <2>3
  <2>5. CASE c = 7
    BY <1>3, <1>9, <2>1, <2>4, <2>5
  <2>6. CASE c = 3
    <3>1. made = IF High(a) > High(b) THEN <<High(a), High(b)>> ELSE <<High(b), High(a)>>
      <4>1. High(a) \in 0..15 /\ High(b) \in 0..15 /\ High(a) # High(b)
        BY <1>9, <2>1
      <4> QED
        BY <1>3, <2>6, <4>1, TwoDescending
    <3>2. 15 * Repeats(c) = 30
      BY <2>6 DEF Repeats
    <3>3. R = {30 + High(a), 30 + High(b)} /\ R = {30 + High(b), 30 + High(a)}
      BY <2>4, <3>2
    <3>4. High(a) > High(b) \/ High(b) > High(a)
      BY <1>9, <2>1
    <3> QED
      BY <1>9, <2>1, <2>6, <3>1, <3>2, <3>3, <3>4
  <2> QED
    BY <1>11, <2>5, <2>6
<1> QED
  BY <1>1, <1>10, <1>11

\* Five cards that make no pair.
LEMMA RowsMade ==
  ASSUME NEW h, RealHand(h), Len(h) = 5
  PROVE  LET c    == Rank(h).category
             made == Rank(h).made
             R    == RuleMade(ToSet(h))
         IN /\ c \in {1, 6} => R = {}
            /\ c = 10 => R = {14}
            /\ c \in {5, 9} => \E x \in 5..14 : R = {x} /\ made = <<x>>
<1> DEFINE T == ToSet(h)
           c == Rank(h).category
           made == Rank(h).made
           R == RuleMade(T)
           g == StraightHigh(Values(h))
<1>1. RealCards(T) /\ IsFiniteSet(T) /\ Cardinality(T) = 5 /\ h \in Seq(Byte) /\ T # {}
  BY HandCards, FS_EmptySet DEF RealHand
<1>2. c \in 1..10 /\ Seen(h, c) /\ \A k \in 1..10 : Seen(h, k) => k <= c
  BY CategorySeen
<1>3. Straights(T) # {} => g \in 5..14 /\ Straights(T) = {g}
  <2>1. ASSUME Straights(T) # {} PROVE g \in 5..14 /\ Straights(T) = {g}
    <3>1. PICK x \in 5..14 : HighValues(T) = Run(x)
      BY <2>1 DEF Straights
    <3>2. g = x
      BY <3>1, StraightSeen
    <3> QED
      BY <3>1, <3>2, OneStraight
  <2> QED
    BY <2>1
<1>4. g # NoStraight => Straights(T) # {} /\ (g = 14 => Straights(T) = {14})
  <2>1. ASSUME g # NoStraight PROVE Straights(T) # {} /\ (g = 14 => Straights(T) = {14})
    <3>1. PICK S \in SUBSET T : /\ IsFiniteSet(S) /\ Cardinality(S) = 5 /\ Straights(S) # {}
                                /\ g = 14 => Straights(S) = {14}
      <4>1. Len(h) >= 5
        OBVIOUS
      <4> QED
        BY <2>1, <4>1, StraightNotAbove
    <3>2. S = T
      BY <1>1, <3>1, FS_Subset
    <3> QED
      BY <3>1, <3>2
  <2> QED
    BY <2>1
<1>5. made = <<g>> \/ c \notin {5, 9}
  BY MadeValues
<1>6. IsFlush(h) => OneSuit(T)
  BY <1>1, FlushOfFive
<1> HIDE DEF c, T, made, R, g
<1>7. CASE c \in {5, 9, 10}
  <2>1. g # NoStraight /\ (c = 10 => g = 14)
    BY <1>2, <1>7 DEF Seen, NoStraight, g
  <2>2. R = Straights(T) /\ Straights(T) = {g} /\ g \in 5..14
    BY <1>3, <1>4, <2>1 DEF RuleMade, R
  <2> QED
    BY <1>5, <1>7, <2>1, <2>2 DEF c, R, T, made
<1>8. CASE c \in {1, 6}
  <2>1. Straights(T) = {}
    <3> SUFFICES ASSUME Straights(T) # {} PROVE FALSE
      OBVIOUS
    <3>1. Seen(h, 5) /\ (c = 6 => Seen(h, 9))
      BY <1>2, <1>3 DEF Seen, NoStraight, g
    <3> QED
      BY <1>2, <1>8, <3>1
  <2>2. \A v : Times(T, v) <= 1
    <3>1. CASE c = 6
      BY <1>1, <1>2, <1>6, <3>1, FlushHasNoPair DEF Seen
    <3>2. CASE c = 1
      <4>1. ~ Seen(h, 2) /\ ~ Seen(h, 4) /\ ~ Seen(h, 8)
        BY <1>2, <3>2
      <4>2. PICK a : Most(h, 1) = Times(T, a) /\ \A v : Times(T, v) <= Most(h, 1)
        BY MostCounts DEF T
      <4>3. \A v : Times(T, v) \in 0..4
        BY <1>1, Shapes
      <4>4. Most(h, 1) \in 0..1
        BY <4>1, <4>2, <4>3 DEF Seen
      <4> QED
        BY <4>2, <4>3, <4>4
    <3> QED
      BY <1>8, <3>1, <3>2
  <2>3. R = {15 * Times(T, x) + High(x) : x \in {y \in 1..13 : Times(T, y) > 1}}
    BY <1>1, <2>1, RepeatedValues DEF R
  <2>4. \A v : Times(T, v) \in Nat
    BY HandCards DEF T
  <2>5. {y \in 1..13 : Times(T, y) > 1} = {}
    BY <2>2, <2>4
  <2>6. R = {}
    BY <2>3, <2>5
  <2> QED
    BY <1>8, <2>6 DEF c, R, T, made
<1>9. CASE c \notin {1, 5, 6, 9, 10}
  BY <1>9 DEF c, R, T, made
<1> QED
  BY <1>7, <1>8, <1>9

\* What is made decides as the rules want it.
LEMMA MadeDecides ==
  ASSUME NEW h, RealHand(h), Len(h) = 5, NEW k, RealHand(k), Len(k) = 5,
         Rank(h).category = Rank(k).category,
         SetLess(RuleMade(ToSet(h)), RuleMade(ToSet(k)))
  PROVE  VecLess(Rank(h).made, Rank(k).made)
<1> DEFINE c == Rank(h).category
           V == RuleMade(ToSet(h))
           W == RuleMade(ToSet(k))
           s == Rank(h).made
           t == Rank(k).made
<1>1. c \in 1..10
  BY CategorySeen
<1>2. \A x, y \in 0..14 : x < y => VecLess(<<x>>, <<y>>)
  BY DEF VecLess
<1>3. \A x, y, u, v \in 0..14 :
        x < u \/ (x = u /\ y < v) => VecLess(<<x, y>>, <<u, v>>)
  <2> SUFFICES ASSUME NEW x \in 0..14, NEW y \in 0..14, NEW u \in 0..14, NEW v \in 0..14,
                      x < u \/ (x = u /\ y < v)
               PROVE  VecLess(<<x, y>>, <<u, v>>)
    OBVIOUS
  <2>1. CASE x < u
    <3>1. 1 \in 1..Len(<<u, v>>) /\ \A j \in 1..(1 - 1) : FALSE
      OBVIOUS
    <3> QED
      BY <2>1, <3>1 DEF VecLess
  <2>2. CASE x = u /\ y < v
    <3>1. 2 \in 1..Len(<<u, v>>) /\ \A j \in 1..(2 - 1) : j = 1
      OBVIOUS
    <3> QED
      BY <2>2, <3>1 DEF VecLess
  <2> QED
    BY <2>1, <2>2
<1>4. V # W /\ SetLess(V, W)
  BY DEF SetLess
<1>5. c \in {1, 6, 10} => V = W
  BY RowsMade
<1>6. CASE c \in {5, 9}
  <2>1. PICK x \in 5..14 : V = {x} /\ s = <<x>>
    BY <1>6, RowsMade
  <2>2. PICK y \in 5..14 : W = {y} /\ t = <<y>>
    BY <1>6, RowsMade
  <2> HIDE DEF V, W, s, t
  <2>3. x < y
    <3>1. x \in 0..80 /\ y \in 0..80 /\ SetLess({x}, {y})
      BY <1>4, <2>1, <2>2
    <3> QED
      BY <3>1, OneLess
  <2>4. VecLess(<<x>>, <<y>>)
    BY <1>2, <2>3
  <2> QED
    BY <2>1, <2>2, <2>4 DEF s, t
<1>7. CASE c \in {2, 4, 8}
  <2>1. PICK x \in 2..14 : V = {15 * Repeats(c) + x} /\ s = <<x>>
    BY <1>7, CountsMade
  <2>2. PICK y \in 2..14 : W = {15 * Repeats(c) + y} /\ t = <<y>>
    BY <1>7, CountsMade
  <2> HIDE DEF V, W, s, t, c
  <2>3. Repeats(c) \in 2..4
    BY DEF Repeats
  <2>4. 15 * Repeats(c) + x \in 0..80 /\ 15 * Repeats(c) + y \in 0..80
    BY <2>3
  <2>5. 15 * Repeats(c) + x < 15 * Repeats(c) + y
    BY <1>4, <2>1, <2>2, <2>4, OneLess
  <2>6. VecLess(<<x>>, <<y>>)
    BY <1>2, <2>3, <2>5
  <2> QED
    BY <2>1, <2>2, <2>6 DEF s, t
<1>8. CASE c \in {3, 7}
  <2>1. PICK x \in 2..14, y \in 2..14 : /\ V = {15 * Repeats(c) + x, 30 + y} /\ s = <<x, y>>
                                        /\ c = 3 => x > y
    BY <1>8, CountsMade
  <2>2. PICK u \in 2..14, v \in 2..14 : /\ W = {15 * Repeats(c) + u, 30 + v} /\ t = <<u, v>>
                                        /\ c = 3 => u > v
    BY <1>8, CountsMade
  <2> HIDE DEF V, W, s, t, c
  <2> DEFINE r == 15 * Repeats(c)
  <2>3. (r = 30 /\ c = 3) \/ r = 45
    BY <1>8 DEF Repeats
  <2> HIDE DEF r
  <2>4. /\ r + x \in 0..80 /\ r + u \in 0..80 /\ 30 + y \in 0..80 /\ 30 + v \in 0..80
        /\ r + x > 30 + y /\ r + u > 30 + v
    BY <2>1, <2>2, <2>3
  <2>5. SetLess({r + x, 30 + y}, {r + u, 30 + v})
    BY <1>4, <2>1, <2>2 DEF r
  <2>6. r + x < r + u \/ (r + x = r + u /\ 30 + y < 30 + v)
    <3> DEFINE p == r + x
               q == r + u
               m == 30 + y
               n == 30 + v
    <3> HIDE DEF p, q, m, n
    <3>1. /\ p \in 0..80 /\ q \in 0..80 /\ m \in 0..80 /\ n \in 0..80 /\ p > m /\ q > n
          /\ SetLess({p, m}, {q, n})
      BY <2>4, <2>5 DEF p, q, m, n
    <3>2. p < q \/ (p = q /\ m < n)
      BY <3>1, TwoLess
    <3> QED
      BY <3>2 DEF p, q, m, n
  <2>7. x < u \/ (x = u /\ y < v)
    BY <2>3, <2>6
  <2>8. VecLess(<<x, y>>, <<u, v>>)
    <3>1. x \in 0..14 /\ y \in 0..14 /\ u \in 0..14 /\ v \in 0..14
      OBVIOUS
    <3> QED
      BY <1>3, <2>7, <3>1
  <2> QED
    BY <2>1, <2>2, <2>8 DEF s, t
<1> QED
  BY <1>1, <1>4, <1>5, <1>6, <1>7, <1>8

\* Of two hands of five that differ in more than kickers, cmp finds the better one
\* greater: its categories are in the order of the rules, and so is what is made.
THEOREM BetterHandsWin ==
  ASSUME NEW h, RealHand(h), Len(h) = 5, NEW k, RealHand(k), Len(k) = 5,
         RuleLess(ToSet(h), ToSet(k))
  PROVE  RankLess(Evaluate(h), Evaluate(k))
<1> DEFINE r == Rank(h)
           s == Rank(k)
<1>1. Evaluate(h) = r /\ Evaluate(k) = s
  BY DEF Evaluate, RealHand
<1>2. r.category = RuleCategory(ToSet(h)) /\ s.category = RuleCategory(ToSet(k))
  BY <1>1, HandsAreRankedRight
<1>3. r \in HandRanks /\ s \in HandRanks
  BY RankType DEF RealHand
<1>4. /\ Parts(r)[1] = <<r.category>> /\ Parts(s)[1] = <<s.category>>
      /\ Parts(r)[2] = r.made /\ Parts(s)[2] = s.made
  BY DEF Parts
<1>5. \/ r.category < s.category
      \/ r.category = s.category /\ VecLess(r.made, s.made)
  BY <1>2, MadeDecides DEF RuleLess
<1> HIDE DEF r, s
<1>6. CASE r.category < s.category
  <2>1. VecLess(<<r.category>>, <<s.category>>)
    BY <1>3, <1>6 DEF VecLess, HandRanks
  <2>2. 1 \in 1..4 /\ \A j \in 1..(1 - 1) : FALSE
    OBVIOUS
  <2>3. RankLess(r, s)
    BY <1>3, <1>4, <2>1, <2>2, FirstPartDecides
  <2> QED
    BY <1>1, <2>3
<1>7. CASE r.category = s.category /\ VecLess(r.made, s.made)
  <2>1. 2 \in 1..4 /\ \A j \in 1..(2 - 1) : j = 1
    OBVIOUS
  <2>2. RankLess(r, s)
    BY <1>3, <1>4, <1>7, <2>1, FirstPartDecides
  <2> QED
    BY <1>1, <2>2
<1> QED
  BY <1>5, <1>6, <1>7

-----------------------------------------------------------------------------
(* The cards that are marked.                                               *)

\* What is filtered keeps each element once.
LEMMA PickedElements ==
  ASSUME NEW S, NEW s \in Seq(S), NEW I \in SUBSET DOMAIN s,
         \A i, k \in I : s[i] = s[k] => i = k
  PROVE  /\ Cardinality(I) \in Nat /\ Picked(s, I) \in Seq(S)
         /\ Len(Picked(s, I)) = Cardinality(I)
         /\ \A n \in 1..Cardinality(I) : \E i \in I : Picked(s, I)[n] = s[i]
         /\ \A i \in I : \E n \in 1..Cardinality(I) : Picked(s, I)[n] = s[i]
         /\ \A m, n \in 1..Cardinality(I) : Picked(s, I)[m] = Picked(s, I)[n] => m = n
<1> DEFINE weight == [i \in DOMAIN s |-> 0]
<1>1. \A i \in I : weight[i] \in Int
  OBVIOUS
<1>2. Picked(s, I) = Arranged(s, I, weight)
  BY DEF Picked
<1> HIDE DEF weight
<1>3. /\ Cardinality(I) \in Nat /\ DOMAIN Arranged(s, I, weight) = 1..Cardinality(I)
      /\ \E place \in [I -> 1..Cardinality(I)] :
           /\ \A i, k \in I : place[i] = place[k] => i = k
           /\ \A n \in 1..Cardinality(I) : \E i \in I : place[i] = n
           /\ \A i, k \in I : weight[k] > weight[i] => place[k] < place[i]
           /\ \A i \in I : Arranged(s, I, weight)[place[i]] = s[i]
  BY <1>1, ArrangedPlaces
<1>4. /\ Arranged(s, I, weight) \in Seq(S) /\ Len(Arranged(s, I, weight)) = Cardinality(I)
      /\ \A n \in 1..Cardinality(I) : \E i \in I : Arranged(s, I, weight)[n] = s[i]
      /\ \A i \in I : \E n \in 1..Cardinality(I) : Arranged(s, I, weight)[n] = s[i]
  BY <1>1, ArrangedElements
<1>5. \A m, n \in 1..Cardinality(I) : Picked(s, I)[m] = Picked(s, I)[n] => m = n
  BY <1>2, <1>3
<1> QED
  BY <1>2, <1>3, <1>4, <1>5

\* Some cards of a hand, in its order.
LEMMA KeptCards ==
  ASSUME NEW h, RealHand(h), NEW U \in SUBSET ToSet(h), U # {}
  PROVE  LET kept == Picked(h, {i \in DOMAIN h : h[i] \in U})
         IN RealHand(kept) /\ ToSet(kept) = U /\ Len(kept) = Cardinality(U)
<1> DEFINE I == {i \in DOMAIN h : h[i] \in U}
           kept == Picked(h, I)
<1>1. h \in Seq(Byte) /\ DOMAIN h = 1..Len(h) /\ \A i, k \in DOMAIN h : h[i] = h[k] => i = k
  BY DEF RealHand, NoneTwice
<1>2. I \in SUBSET DOMAIN h
  OBVIOUS
<1>3. U = {h[i] : i \in I}
  BY DEF ToSet
<1> HIDE DEF I
<1>4. /\ Cardinality(I) \in Nat /\ kept \in Seq(Byte) /\ Len(kept) = Cardinality(I)
      /\ \A n \in 1..Cardinality(I) : \E i \in I : kept[n] = h[i]
      /\ \A i \in I : \E n \in 1..Cardinality(I) : kept[n] = h[i]
      /\ \A m, n \in 1..Cardinality(I) : kept[m] = kept[n] => m = n
  <2>1. h \in Seq(Byte) /\ \A i, k \in I : h[i] = h[k] => i = k
    BY <1>1, <1>2
  <2> QED
    BY <1>2, <2>1, PickedElements
<1> HIDE DEF kept
<1>5. ToSet(kept) = U
  <2>1. DOMAIN kept = 1..Cardinality(I)
    BY <1>4
  <2> QED
    BY <1>3, <1>4, <2>1 DEF ToSet
<1>6. RealHand(kept)
  <2>1. RealCards(U)
    BY CardsOfHand
  <2>2. kept # <<>>
    BY <1>5 DEF ToSet
  <2>3. NoneTwice(kept)
    BY <1>4 DEF NoneTwice
  <2> QED
    BY <1>4, <1>5, <2>1, <2>2, <2>3 DEF RealHand
<1>7. Len(kept) = Cardinality(U)
  BY <1>5, <1>6, HandCards
<1> QED
  BY <1>5, <1>6, <1>7 DEF I, kept

\* The cards of a value that a hand shows, and the first of them.
LEMMA FirstOfValue ==
  ASSUME NEW h, RealHand(h), NEW v \in HighValues(ToSet(h))
  PROVE  LET c == OfValue(h, v)[1]
         IN OfValue(h, v) # <<>> /\ c \in ToSet(h) /\ High(Value(c)) = v
<1> DEFINE I == {i \in DOMAIN h : High(Value(h[i])) = v}
<1>1. h \in Seq(Byte) /\ I \in SUBSET DOMAIN h /\ \A i, k \in I : h[i] = h[k] => i = k
  BY DEF RealHand, NoneTwice
<1>2. PICK i : i \in I
  BY DEF HighValues, ToSet
<1>3. OfValue(h, v) = Picked(h, I)
  BY DEF OfValue
<1>4. \A j \in I : h[j] \in ToSet(h) /\ High(Value(h[j])) = v
  BY DEF ToSet
<1> HIDE DEF I
<1>5. /\ Cardinality(I) \in Nat /\ Picked(h, I) \in Seq(Byte)
      /\ Len(Picked(h, I)) = Cardinality(I)
      /\ \A n \in 1..Cardinality(I) : \E j \in I : Picked(h, I)[n] = h[j]
      /\ \A j \in I : \E n \in 1..Cardinality(I) : Picked(h, I)[n] = h[j]
  BY <1>1, PickedElements
<1>6. Cardinality(I) >= 1 /\ 1 \in 1..Cardinality(I)
  BY <1>2, <1>5
<1>7. PICK j \in I : Picked(h, I)[1] = h[j]
  BY <1>5, <1>6
<1>8. Picked(h, I) # <<>>
  BY <1>5, <1>6
<1> QED
  BY <1>3, <1>4, <1>7, <1>8

\* take_straight takes one card of each of its values.
LEMMA StraightTaken ==
  ASSUME NEW h, RealHand(h), NEW g \in 5..14, Run(g) \subseteq HighValues(ToSet(h))
  PROVE  LET U == TakeStraight(h, g)
         IN /\ U \subseteq ToSet(h) /\ IsFiniteSet(U) /\ Cardinality(U) = 5
            /\ HighValues(U) = Run(g)
<1> DEFINE R == Run(g)
           pick == [w \in R |-> OfValue(h, w)[1]]
           S == {pick[w] : w \in R}
<1>1. \A w \in R : OfValue(h, w) # <<>> /\ pick[w] \in ToSet(h) /\ High(Value(pick[w])) = w
  BY FirstOfValue
<1>2. TakeStraight(h, g) = S
  <2>1. {w \in Run(g) : OfValue(h, w) # <<>>} = R
    BY <1>1
  <2> QED
    BY <2>1 DEF TakeStraight
<1>3. IsFiniteSet(R) /\ Cardinality(R) = 5
  BY RunOfFive
<1>4. pick = [w \in R |-> pick[w]]
  OBVIOUS
<1> HIDE DEF R, pick
<1>5. S \subseteq ToSet(h) /\ HighValues(S) = R
  BY <1>1 DEF HighValues
<1>6. pick \in Bijection(R, S)
  <2>1. \A w \in R : pick[w] \in S
    OBVIOUS
  <2>2. \A s \in S : \E w \in R : pick[w] = s
    OBVIOUS
  <2> HIDE DEF S
  <2>3. pick \in [R -> S]
    BY <2>1, <1>4
  <2>4. \A x, y \in R : pick[x] = pick[y] => x = y
    BY <1>1
  <2> QED
    BY <2>2, <2>3, <2>4 DEF Bijection, Injection, Surjection, IsInjective
<1> HIDE DEF S
<1>7. IsFiniteSet(S) /\ Cardinality(S) = 5
  BY <1>3, <1>6, FS_Bijection DEF ExistsBijection
<1> QED
  BY <1>2, <1>5, <1>7 DEF R

\* What is seen in a hand is its category, or less.
LEMMA SeenAlone ==
  ASSUME NEW k, RealHand(k), NEW c \in 1..10, Seen(k, c)
  PROVE  Evaluate(k) = Rank(k) /\ Rank(k).category \in 1..10 /\ Rank(k).category >= c
<1>1. Rank(k).category \in 1..10 /\ Rank(k).category >= c
  BY CategorySeen
<1> QED
  BY <1>1 DEF Evaluate, RealHand

\* High card, flush and royal flush name nothing.
LEMMA NothingMade ==
  ASSUME NEW h, Rank(h).category \in {1, 6, 10}
  PROVE  Rank(h).made = <<>>
<1> DEFINE c == Rank(h).category
           named == SubSeq(ByCount(Values(h)), 1, Named[c])
<1>1. Rank(h).made = CASE c \in {5, 9} -> <<StraightHigh(Values(h))>>
                       [] c = 3 -> Descending([i \in DOMAIN named |-> High(named[i])])
                       [] OTHER -> [i \in DOMAIN named |-> High(named[i])]
  BY DEF Rank
<1>2. Named[1] = 0 /\ Named[6] = 0 /\ Named[10] = 0
  BY DEF Named
<1>3. Named[c] = 0
  BY <1>2
<1>4. named = <<>>
  BY <1>3
<1>5. [i \in DOMAIN <<>> |-> High(<<>>[i])] = <<>>
  OBVIOUS
<1>6. Rank(h).made = [i \in DOMAIN named |-> High(named[i])]
  <2> HIDE DEF c, named
  <2>1. c \in {1, 6, 10}
    BY DEF c
  <2> QED
    BY <1>1, <2>1
<1> QED
  BY <1>4, <1>5, <1>6

\* The cards that a pair, a triple or four of a kind mark, and those of two pairs or
\* a full house.
LEMMA CountedCards ==
  ASSUME NEW h, RealHand(h)
  PROVE  LET c    == Rank(h).category
             made == Rank(h).made
             T    == ToSet(h)
             U    == CardsUsed(Rank(h), h)
         IN /\ c \in {2, 4, 8} => \E a \in 1..13 :
                 /\ U = OfOneValue(T, a) /\ Times(T, a) = Repeats(c) /\ made = <<High(a)>>
            /\ c \in {3, 7} => \E a, b \in 1..13 :
                 /\ U = OfOneValue(T, a) \cup OfOneValue(T, b) /\ a # b
                 /\ Times(T, a) = Repeats(c) /\ Times(T, b) = 2
                 /\ made = IF c = 3 /\ High(b) > High(a) THEN <<High(b), High(a)>>
                           ELSE <<High(a), High(b)>>
<1> DEFINE T == ToSet(h)
           c == Rank(h).category
           made == Rank(h).made
           U == CardsUsed(Rank(h), h)
<1>1. c \in {2, 3, 4, 7, 8} => U = {x \in T : Contains(made, High(Value(x)))}
  BY DEF CardsUsed
<1>2. RealCards(T)
  BY DEF RealHand
<1>3. PICK a, b :
              /\ a \in 1..13 /\ a # b /\ Most(h, 1) = Times(T, a) /\ Most(h, 2) = Times(T, b)
              /\ \A v : v # a => Times(T, v) <= Most(h, 2)
              /\ Most(h, 2) > 0 => b \in 1..13
              /\ c \in {2, 4, 8} => made = <<High(a)>>
              /\ c = 7 => made = <<High(a), High(b)>>
              /\ c = 3 => made = Descending(<<High(a), High(b)>>)
  BY MadeValues
<1>4. Seen(h, c)
  BY CategorySeen
<1>5. \A x \in T : Value(x) \in 1..13
  BY <1>2 DEF RealCards
<1> HIDE DEF c, T, made, U
<1>6. ASSUME c \in {2, 4, 8}
      PROVE  \E v \in 1..13 :
               /\ U = OfOneValue(T, v) /\ Times(T, v) = Repeats(c) /\ made = <<High(v)>>
  <2>1. Times(T, a) = Repeats(c) /\ made = <<High(a)>>
    BY <1>3, <1>4, <1>6 DEF Seen, Repeats
  <2>2. Len(made) = 1 /\ made[1] = High(a)
    BY <2>1
  <2>3. \A x \in T : Contains(made, High(Value(x))) <=> Value(x) = a
    BY <1>3, <1>5, <2>2 DEF Contains, High
  <2> QED
    BY <1>1, <1>3, <1>6, <2>1, <2>3 DEF OfOneValue
<1>7. ASSUME c \in {3, 7}
      PROVE  \E v, w \in 1..13 :
               /\ U = OfOneValue(T, v) \cup OfOneValue(T, w) /\ v # w
               /\ Times(T, v) = Repeats(c) /\ Times(T, w) = 2
               /\ made = IF c = 3 /\ High(w) > High(v) THEN <<High(w), High(v)>>
                         ELSE <<High(v), High(w)>>
  <2>1. Times(T, a) = Repeats(c) /\ Times(T, b) = 2 /\ b \in 1..13
    BY <1>3, <1>4, <1>7 DEF Seen, Repeats
  <2>2. High(a) \in 2..14 /\ High(b) \in 2..14 /\ High(a) # High(b)
    BY <1>2, <1>3, <2>1, OftenTimes
  <2>3. made = IF c = 3 /\ High(b) > High(a) THEN <<High(b), High(a)>> ELSE <<High(a), High(b)>>
    <3>1. c = 3 => made = IF High(a) > High(b) THEN <<High(a), High(b)>> ELSE <<High(b), High(a)>>
      <4>1. High(a) \in 0..15 /\ High(b) \in 0..15 /\ High(a) # High(b)
        BY <2>2
      <4> QED
        BY <1>3, <4>1, TwoDescending
    <3> QED
      BY <1>3, <1>7, <2>2, <3>1
  <2>4. Len(made) = 2 /\ {made[1], made[2]} = {High(a), High(b)}
    BY <2>3
  <2>5. \A x \in T : Contains(made, High(Value(x))) <=> Value(x) = a \/ Value(x) = b
    <3>1. \A x \in T : Contains(made, High(Value(x))) <=> High(Value(x)) \in {High(a), High(b)}
      BY <2>4 DEF Contains
    <3> QED
      BY <1>3, <1>5, <2>1, <3>1 DEF High
  <2>6. U = OfOneValue(T, a) \cup OfOneValue(T, b)
    BY <1>1, <1>7, <2>5 DEF OfOneValue
  <2> QED
    BY <1>3, <2>1, <2>3, <2>6
<1> QED
  BY <1>6, <1>7 DEF c, T, made, U

\* The cards of one value, alone, are as many of it.
LEMMA CountedAlone ==
  ASSUME NEW h, RealHand(h), NEW k, RealHand(k), NEW a \in 1..13,
         ToSet(k) = OfOneValue(ToSet(h), a), NEW c \in {2, 4, 8},
         Times(ToSet(h), a) = Repeats(c)
  PROVE  \/ Rank(k).category > c
         \/ Rank(k).category = c /\ Rank(k).made = <<High(a)>>
<1> DEFINE U == ToSet(k)
           d == Rank(k).category
           made == Rank(k).made
<1>1. Times(U, a) = Repeats(c) /\ \A v : v # a => Times(U, v) = 0
  <2>1. OfOneValue(U, a) = OfOneValue(ToSet(h), a)
    BY DEF OfOneValue
  <2>2. \A v : v # a => OfOneValue(U, v) = {}
    BY DEF OfOneValue
  <2> QED
    BY <2>1, <2>2, FS_EmptySet DEF Times
<1>2. PICK x, y :
              /\ x \in 1..13 /\ x # y /\ Most(k, 1) = Times(U, x) /\ Most(k, 2) = Times(U, y)
              /\ \A v : v # x => Times(U, v) <= Most(k, 2)
              /\ d \in {2, 4, 8} => made = <<High(x)>>
  BY MadeValues
<1>3. Most(k, 1) >= Most(k, 2) /\ Most(k, 1) \in Nat /\ Most(k, 2) \in Nat
  BY MostCounts
<1>4. Repeats(c) \in {2, 3, 4}
  BY DEF Repeats
<1> HIDE DEF U, d, made
<1>5. x = a
  BY <1>1, <1>2, <1>3, <1>4
<1>6. Seen(k, c)
  BY <1>1, <1>2, <1>5 DEF Seen, Repeats
<1>7. d \in 1..10 /\ d >= c
  BY <1>6, SeenAlone DEF d
<1> QED
  BY <1>2, <1>5, <1>7 DEF d, made

\* And so are the cards of two values.
LEMMA CountedPairsAlone ==
  ASSUME NEW h, RealHand(h), NEW k, RealHand(k), NEW a \in 1..13, NEW b \in 1..13, a # b,
         ToSet(k) = OfOneValue(ToSet(h), a) \cup OfOneValue(ToSet(h), b), NEW c \in {3, 7},
         Times(ToSet(h), a) = Repeats(c), Times(ToSet(h), b) = 2
  PROVE  \/ Rank(k).category > c
         \/ /\ Rank(k).category = c
            /\ Rank(k).made = IF c = 3 /\ High(b) > High(a) THEN <<High(b), High(a)>>
                              ELSE <<High(a), High(b)>>
<1> DEFINE U == ToSet(k)
           d == Rank(k).category
           made == Rank(k).made
<1>1. /\ Times(U, a) = Repeats(c) /\ Times(U, b) = 2
      /\ \A v : v # a /\ v # b => Times(U, v) = 0
  <2>1. OfOneValue(U, a) = OfOneValue(ToSet(h), a) /\ OfOneValue(U, b) = OfOneValue(ToSet(h), b)
    BY DEF OfOneValue
  <2>2. \A v : v # a /\ v # b => OfOneValue(U, v) = {}
    BY DEF OfOneValue
  <2> QED
    BY <2>1, <2>2, FS_EmptySet DEF Times
<1>2. PICK x, y :
              /\ x \in 1..13 /\ x # y /\ Most(k, 1) = Times(U, x) /\ Most(k, 2) = Times(U, y)
              /\ \A v : v # x => Times(U, v) <= Most(k, 2)
              /\ d = 7 => made = <<High(x), High(y)>>
              /\ d = 3 => made = Descending(<<High(x), High(y)>>)
  BY ZenonT(40), MadeValues
<1>3. Most(k, 1) >= Most(k, 2) /\ Most(k, 1) \in Nat /\ Most(k, 2) \in Nat
  BY MostCounts
<1>4. Repeats(c) = IF c = 3 THEN 2 ELSE 3
  BY DEF Repeats
<1>5. High(a) \in 2..14 /\ High(b) \in 2..14 /\ High(a) # High(b)
  <2>1. RealCards(ToSet(h))
    BY DEF RealHand
  <2> QED
    BY <2>1, OftenTimes
<1> HIDE DEF U, d, made
<1>6. {x, y} = {a, b} /\ (c = 7 => x = a)
  BY <1>1, <1>2, <1>3, <1>4
<1>7. Seen(k, c)
  BY <1>1, <1>2, <1>4, <1>6 DEF Seen
<1>8. d \in 1..10 /\ d >= c
  BY <1>7, SeenAlone DEF d
<1>9. c = 3 /\ d = 3 => made = IF High(b) > High(a) THEN <<High(b), High(a)>> ELSE <<High(a), High(b)>>
  <2> SUFFICES ASSUME c = 3, d = 3
               PROVE  made = IF High(b) > High(a) THEN <<High(b), High(a)>> ELSE <<High(a), High(b)>>
    OBVIOUS
  <2>1. made = IF High(x) > High(y) THEN <<High(x), High(y)>> ELSE <<High(y), High(x)>>
    <3>1. High(x) \in 0..15 /\ High(y) \in 0..15 /\ High(x) # High(y)
      BY <1>5, <1>6
    <3> QED
      BY <1>2, <3>1, TwoDescending
  <2>2. CASE x = a /\ y = b
    BY <1>5, <2>1, <2>2
  <2>3. CASE x = b /\ y = a
    BY <1>5, <2>1, <2>3
  <2> QED
    BY <1>2, <1>6, <2>2, <2>3
<1>10. c = 7 /\ d = 7 => made = <<High(a), High(b)>>
  BY <1>2, <1>6
<1> QED
  BY <1>8, <1>9, <1>10 DEF d, made

\* The highest cards, as high card and flush mark them.
LEMMA HighestTaken ==
  ASSUME NEW h, RealHand(h), NEW n \in 1..5
  PROVE  LET U == TakeFirst(ByHigh(h), n)
         IN U \subseteq ToSet(h) /\ U # {} /\ Cardinality(U) \in 1..5
<1> DEFINE weight == [i \in DOMAIN h |-> High(Value(h[i]))]
           s == ByHigh(h)
           D == DOMAIN s \cap 1..n
           U == TakeFirst(s, n)
           f == [i \in D |-> s[i]]
<1>1. h \in Seq(Byte) /\ h # <<>>
  BY DEF RealHand
<1>2. \A i \in DOMAIN h : weight[i] \in Int
  BY <1>1, ValuesType DEF High
<1>3. s = Arranged(h, DOMAIN h, weight)
  BY DEF ByHigh
<1> HIDE DEF weight, s
<1>4. /\ s \in Seq(Byte) /\ Cardinality(DOMAIN h) \in Nat /\ Len(s) = Cardinality(DOMAIN h)
      /\ \A m \in 1..Cardinality(DOMAIN h) : \E i \in DOMAIN h : s[m] = h[i]
      /\ \A i \in DOMAIN h : \E m \in 1..Cardinality(DOMAIN h) : s[m] = h[i]
  <2> DEFINE I == DOMAIN h
  <2>1. I \in SUBSET DOMAIN h /\ \A i \in I : weight[i] \in Int
    BY <1>2
  <2>2. s = Arranged(h, I, weight)
    BY <1>3
  <2> HIDE DEF I
  <2>3. /\ Arranged(h, I, weight) \in Seq(Byte)
        /\ Cardinality(I) \in Nat /\ Len(Arranged(h, I, weight)) = Cardinality(I)
        /\ \A m \in 1..Cardinality(I) : \E i \in I : Arranged(h, I, weight)[m] = h[i]
        /\ \A i \in I : \E m \in 1..Cardinality(I) : Arranged(h, I, weight)[m] = h[i]
    BY <1>1, <2>1, ArrangedElements
  <2> QED
    BY <2>2, <2>3 DEF I
<1>5. /\ DOMAIN s = 1..Cardinality(DOMAIN h) /\ \A i \in DOMAIN s : s[i] \in ToSet(h)
      /\ Cardinality(DOMAIN h) >= 1
  <2>1. 1 \in DOMAIN h
    BY <1>1
  <2>2. DOMAIN s = 1..Cardinality(DOMAIN h)
    BY <1>4
  <2>3. \A i \in DOMAIN s : s[i] \in ToSet(h)
    BY <1>4, <2>2 DEF ToSet
  <2>4. Cardinality(DOMAIN h) # 0
    BY <1>4, <2>1
  <2> QED
    BY <1>4, <2>2, <2>3, <2>4
<1>6. U = {f[i] : i \in D}
  BY DEF TakeFirst
<1>7. 1 \in D /\ D \subseteq 1..5
  <2>1. 1 \in DOMAIN s
    BY <1>4, <1>5
  <2>2. 1 \in 1..n /\ 1..n \subseteq 1..5
    OBVIOUS
  <2> QED
    BY <2>1, <2>2
<1>8. \A i \in D : f[i] \in ToSet(h)
  BY <1>5
<1>9. f \in [D -> U]
  <2>1. f = [i \in D |-> f[i]]
    OBVIOUS
  <2> HIDE DEF f, D, U
  <2> QED
    BY <1>6, <2>1
<1> HIDE DEF f, D, U
<1>10. f \in Surjection(D, U)
  BY <1>6, <1>9 DEF Surjection
<1>11. IsFiniteSet(D) /\ Cardinality(D) <= 5 /\ Cardinality(D) \in Nat
  <2> DEFINE low  == 1
             high == 5
  <2>1. low \in Int /\ high \in Int /\ low = 1 /\ high = 5
    OBVIOUS
  <2> HIDE DEF low, high
  <2>2. IsFiniteSet(low..high) /\ Cardinality(low..high) = IF low > high THEN 0 ELSE high - low + 1
    BY <2>1, FS_Interval
  <2>3. IsFiniteSet(1..5) /\ Cardinality(1..5) = 5
    BY <2>1, <2>2
  <2> DEFINE R == 1..5
  <2>4. IsFiniteSet(R) /\ Cardinality(R) = 5 /\ D \in SUBSET R
    BY <1>7, <2>3
  <2> HIDE DEF R
  <2> QED
    BY <2>4, FS_Subset, FS_CardinalityType
<1>12. IsFiniteSet(U) /\ Cardinality(U) <= 5 /\ Cardinality(U) \in Nat
  BY <1>10, <1>11, FS_Surjection, FS_CardinalityType
<1>13. U # {} /\ U \subseteq ToSet(h)
  BY <1>6, <1>7, <1>8
<1>14. Cardinality(U) # 0
  BY <1>12, <1>13, FS_EmptySet
<1> QED
  BY <1>12, <1>13, <1>14 DEF U, s

\* The cards of a straight that a hand marks.
LEMMA StraightUsed ==
  ASSUME NEW h, RealHand(h), Rank(h).category \in {5, 9, 10}
  PROVE  LET g == StraightHigh(Values(h))
             U == CardsUsed(Rank(h), h)
         IN /\ U \subseteq ToSet(h) /\ Cardinality(U) = 5 /\ HighValues(U) = Run(g)
            /\ g \in 5..14 /\ (Rank(h).category = 10 => g = 14)
<1> DEFINE g == StraightHigh(Values(h))
           c == Rank(h).category
           U == CardsUsed(Rank(h), h)
<1>1. Seen(h, c)
  BY CategorySeen
<1>2. g # NoStraight /\ (c = 10 => g = 14)
  BY <1>1 DEF Seen, NoStraight
<1>3. \/ g = 5 /\ HighValues(ToSet(h)) = Run(5)
      \/ g \in 6..14 /\ (g - 4)..g \subseteq HighValues(ToSet(h))
  BY <1>2, StraightSeen
<1>4. Rank(h).made = <<g>> \/ c = 10
  BY MadeValues
<1>5. U = TakeStraight(h, g)
  BY <1>2, <1>4 DEF CardsUsed
<1> HIDE DEF g
<1>6. g \in 5..14 /\ Run(g) \subseteq HighValues(ToSet(h))
  BY <1>3 DEF Run
<1>7. /\ TakeStraight(h, g) \subseteq ToSet(h) /\ Cardinality(TakeStraight(h, g)) = 5
      /\ HighValues(TakeStraight(h, g)) = Run(g)
  BY <1>6, StraightTaken
<1> QED
  BY <1>2, <1>5, <1>6, <1>7 DEF g

\* What a hand marks are some of its cards, and five at most.
LEMMA UsedCards ==
  ASSUME NEW h, RealHand(h)
  PROVE  LET U == CardsUsed(Rank(h), h)
         IN U \subseteq ToSet(h) /\ U # {} /\ Cardinality(U) \in 1..5
<1> DEFINE T == ToSet(h)
           c == Rank(h).category
           U == CardsUsed(Rank(h), h)
<1>1. c \in 1..10
  BY CategorySeen
<1>2. IsFiniteSet(T)
  BY HandCards
<1>3. CASE c = 1
  <2>1. U = TakeFirst(ByHigh(h), 1)
    BY <1>3 DEF CardsUsed
  <2> QED
    BY <2>1, HighestTaken
<1>4. CASE c = 6
  <2>1. U = TakeFirst(ByHigh(h), 5)
    BY <1>4 DEF CardsUsed
  <2> QED
    BY <2>1, HighestTaken
<1>5. CASE c \in {5, 9, 10}
  <2>1. U \subseteq T /\ Cardinality(U) = 5
    BY <1>5, StraightUsed
  <2> QED
    BY <2>1, FS_EmptySet
<1>6. CASE c \in {2, 4, 8}
  <2>1. PICK a \in 1..13 : U = OfOneValue(T, a) /\ Times(T, a) = Repeats(c)
    BY <1>6, CountedCards
  <2>2. U \subseteq T /\ Cardinality(U) = Repeats(c)
    BY <2>1 DEF OfOneValue, Times
  <2>3. Repeats(c) \in 2..4
    BY DEF Repeats
  <2> QED
    BY <2>2, <2>3, FS_EmptySet
<1>7. CASE c \in {3, 7}
  <2>1. PICK a \in 1..13, b \in 1..13 :
           /\ U = OfOneValue(T, a) \cup OfOneValue(T, b) /\ a # b
           /\ Times(T, a) = Repeats(c) /\ Times(T, b) = 2
    BY <1>7, CountedCards
  <2> DEFINE A == OfOneValue(T, a)
             B == OfOneValue(T, b)
  <2>2. A \subseteq T /\ B \subseteq T /\ A \cap B = {}
    BY <2>1 DEF OfOneValue
  <2>3. Cardinality(A) = Repeats(c) /\ Cardinality(B) = 2
    BY <2>1 DEF Times
  <2> HIDE DEF A, B
  <2>4. IsFiniteSet(A) /\ IsFiniteSet(B) /\ Cardinality(A \cap B) = 0
    BY <1>2, <2>2, FS_Subset, FS_EmptySet
  <2>5. Cardinality(A \cup B) = Cardinality(A) + Cardinality(B) - Cardinality(A \cap B)
    BY <2>4, FS_Union
  <2>6. Repeats(c) \in 2..3
    BY <1>7 DEF Repeats
  <2>7. Cardinality(U) \in 4..5 /\ U \subseteq T
    BY <2>1, <2>2, <2>3, <2>4, <2>5, <2>6 DEF A, B
  <2> QED
    BY <2>7, FS_EmptySet
<1> QED
  BY <1>1, <1>3, <1>4, <1>5, <1>6, <1>7

\* The cards that cards_used marks are cards of the hand, at most five, and are by
\* themselves what the hand was taken for, or more.
THEOREM UsedCardsAreTheHand ==
  ASSUME NEW h, RealHand(h)
  PROVE  LET rank  == Evaluate(h)
             used  == CardsUsed(rank, h)
             alone == Evaluate(Picked(h, {i \in DOMAIN h : h[i] \in used}))
         IN /\ used \subseteq ToSet(h) /\ Cardinality(used) \in 1..5
            /\ rank.category > 1 => \/ alone.category > rank.category
                                    \/ alone.category = rank.category /\ alone.made = rank.made
<1> DEFINE r == Rank(h)
           c == r.category
           U == CardsUsed(r, h)
           k == Picked(h, {i \in DOMAIN h : h[i] \in U})
           s == Rank(k)
<1>1. Evaluate(h) = r
  BY DEF Evaluate, RealHand
<1>2. U \subseteq ToSet(h) /\ U # {} /\ Cardinality(U) \in 1..5
  BY UsedCards
<1>3. RealHand(k) /\ ToSet(k) = U /\ Len(k) = Cardinality(U)
  <2> HIDE DEF U
  <2> QED
    BY <1>2, KeptCards
<1>4. c \in 1..10 /\ Seen(h, c)
  BY CategorySeen
<1>5. h \in Seq(Byte)
  BY DEF RealHand
<1> HIDE DEF k
<1>6. Evaluate(k) = s
  BY <1>3 DEF Evaluate, RealHand
<1>7. IsFlush(h) => IsFlush(k)
  <2>1. k \in Seq(Byte)
    BY <1>3 DEF RealHand
  <2>2. IsFlush(h) => OneSuit(U)
    <3> HIDE DEF U
    <3> QED
      BY <1>2, <1>5, FlushOfFive
  <2>3. OneSuit(ToSet(k)) => IsFlush(k)
    <3>1. ToSet(k) \in SUBSET ToSet(k) /\ ToSet(k) # {}
      BY <1>2, <1>3
    <3> QED
      BY <2>1, <3>1, FlushOfFive
  <2> QED
    BY <1>3, <2>2, <2>3
<1>8. c > 1 => s.category > c \/ (s.category = c /\ s.made = r.made)
  <2>1. CASE c \in {2, 4, 8}
    <3>1. PICK a \in 1..13 :
             U = OfOneValue(ToSet(h), a) /\ Times(ToSet(h), a) = Repeats(c) /\ r.made = <<High(a)>>
      BY <2>1, CountedCards
    <3>2. s.category > c \/ (s.category = c /\ s.made = <<High(a)>>)
      <4> DEFINE d == c
      <4>1. d \in {2, 4, 8} /\ ToSet(k) = OfOneValue(ToSet(h), a) /\ Times(ToSet(h), a) = Repeats(d)
        BY <1>3, <2>1, <3>1
      <4> HIDE DEF d
      <4>2. s.category > d \/ (s.category = d /\ s.made = <<High(a)>>)
        BY <1>3, <4>1, CountedAlone
      <4> QED
        BY <4>2 DEF d
    <3> QED
      BY <3>1, <3>2
  <2>2. CASE c \in {3, 7}
    <3>1. PICK a \in 1..13, b \in 1..13 :
             /\ U = OfOneValue(ToSet(h), a) \cup OfOneValue(ToSet(h), b) /\ a # b
             /\ Times(ToSet(h), a) = Repeats(c) /\ Times(ToSet(h), b) = 2
             /\ r.made = IF c = 3 /\ High(b) > High(a) THEN <<High(b), High(a)>>
                         ELSE <<High(a), High(b)>>
      BY <2>2, CountedCards
    <3> DEFINE d == c
    <3>2. /\ d \in {3, 7} /\ Times(ToSet(h), a) = Repeats(d)
          /\ ToSet(k) = OfOneValue(ToSet(h), a) \cup OfOneValue(ToSet(h), b)
      BY <1>3, <2>2, <3>1
    <3> HIDE DEF d
    <3>3. \/ s.category > d
          \/ /\ s.category = d
             /\ s.made = IF d = 3 /\ High(b) > High(a) THEN <<High(b), High(a)>>
                         ELSE <<High(a), High(b)>>
      BY <1>3, <3>1, <3>2, CountedPairsAlone
    <3> QED
      BY <3>1, <3>3 DEF d
  <2>3. CASE c = 6
    <3>1. IsFlush(k)
      BY <1>4, <1>7, <2>3 DEF Seen
    <3>2. Seen(k, 6)
      BY <3>1 DEF Seen
    <3>3. s.category \in 1..10 /\ s.category >= 6
      BY <1>3, <3>2, SeenAlone
    <3>4. s.category = 6 => s.made = <<>>
      BY NothingMade
    <3>5. r.made = <<>>
      BY <2>3, NothingMade
    <3> QED
      BY <2>3, <3>3, <3>4, <3>5
  <2>4. CASE c \in {5, 9, 10}
    <3> DEFINE g == StraightHigh(Values(h))
    <3>1. Cardinality(U) = 5 /\ HighValues(U) = Run(g) /\ g \in 5..14 /\ (c = 10 => g = 14)
      BY <2>4, StraightUsed
    <3>2. StraightHigh(Values(k)) = g
      <4>1. Len(k) = 5 /\ HighValues(ToSet(k)) = Run(g) /\ g \in 5..14
        BY <1>3, <3>1
      <4> HIDE DEF g
      <4> QED
        BY <1>3, <4>1, StraightSeen
    <3>3. Seen(k, c)
      <4>1. c \in {9, 10} => IsFlush(k)
        BY <1>4, <1>7 DEF Seen
      <4> QED
        BY <2>4, <3>1, <3>2, <4>1 DEF Seen, NoStraight
    <3>4. s.category \in 1..10 /\ s.category >= c
      BY <1>3, <1>4, <3>3, SeenAlone
    <3>5. s.category = c => s.made = r.made
      <4>1. CASE c = 10
        BY <4>1, NothingMade
      <4>2. CASE c \in {5, 9}
        <5>1. r.made = <<StraightHigh(Values(h))>>
          BY <4>2, MadeValues
        <5>2. s.category \in {5, 9} => s.made = <<StraightHigh(Values(k))>>
          BY <1>3, MadeValues
        <5> QED
          BY <3>2, <4>2, <5>1, <5>2
      <4> QED
        BY <2>4, <4>1, <4>2
    <3> QED
      BY <1>4, <3>4, <3>5
  <2> QED
    BY <1>4, <2>1, <2>2, <2>3, <2>4
<1> QED
  BY <1>1, <1>2, <1>6, <1>8 DEF k

-----------------------------------------------------------------------------
(* The kickers that are marked.                                             *)

\* A one-to-one image is as large.
LEMMA SameSize ==
  ASSUME NEW D, IsFiniteSet(D), NEW f, f = [x \in D |-> f[x]],
         \A x, y \in D : f[x] = f[y] => x = y
  PROVE  IsFiniteSet({f[x] : x \in D}) /\ Cardinality({f[x] : x \in D}) = Cardinality(D)
<1> DEFINE R == {f[x] : x \in D}
<1>1. \A x \in D : f[x] \in R
  OBVIOUS
<1>2. \A r \in R : \E x \in D : f[x] = r
  OBVIOUS
<1> HIDE DEF R
<1>3. f \in [D -> R]
  BY <1>1
<1>4. f \in Bijection(D, R)
  BY <1>2, <1>3 DEF Bijection, Injection, Surjection, IsInjective
<1>5. IsFiniteSet(R) /\ Cardinality(R) = Cardinality(D)
  BY <1>4, FS_Bijection DEF ExistsBijection
<1> QED
  BY <1>5 DEF R

\* How often x occurs at some places of s.
Count(s, I, x) == Cardinality({i \in I : s[i] = x})

\* Sorting and filtering keep how often each element occurs.
LEMMA ArrangedCounts ==
  ASSUME NEW S, NEW s \in Seq(S), NEW I \in SUBSET DOMAIN s,
         NEW weight, \A i \in I : weight[i] \in Int
  PROVE  \A x : Count(Arranged(s, I, weight), 1..Cardinality(I), x) = Count(s, I, x)
<1> SUFFICES ASSUME NEW x
             PROVE  Count(Arranged(s, I, weight), 1..Cardinality(I), x) = Count(s, I, x)
  OBVIOUS
<1> DEFINE P == {i \in I : s[i] = x}
           Q == {n \in 1..Cardinality(I) : Arranged(s, I, weight)[n] = x}
           A == Arranged(s, I, weight)
<1>1. /\ Cardinality(I) \in Nat /\ DOMAIN Arranged(s, I, weight) = 1..Cardinality(I)
      /\ \E place \in [I -> 1..Cardinality(I)] :
           /\ \A i, k \in I : place[i] = place[k] => i = k
           /\ \A n \in 1..Cardinality(I) : \E i \in I : place[i] = n
           /\ \A i, k \in I : weight[k] > weight[i] => place[k] < place[i]
           /\ \A i \in I : Arranged(s, I, weight)[place[i]] = s[i]
  BY ArrangedPlaces
<1>2. PICK place \in [I -> 1..Cardinality(I)] :
           /\ \A i, k \in I : place[i] = place[k] => i = k
           /\ \A n \in 1..Cardinality(I) : \E i \in I : place[i] = n
           /\ \A i \in I : A[place[i]] = s[i]
  BY <1>1
<1> DEFINE f == [i \in P |-> place[i]]
<1> HIDE DEF A
<1>3. IsFiniteSet(P)
  <2>1. IsFiniteSet(1..Len(s))
    BY FS_Interval
  <2>2. P \in SUBSET (1..Len(s))
    OBVIOUS
  <2> HIDE DEF P
  <2> QED
    BY <2>1, <2>2, FS_Subset
<1>4. {f[i] : i \in P} = Q
  <2>1. /\ \A n : n \in Q <=> n \in 1..Cardinality(I) /\ A[n] = x
        /\ \A i : i \in P <=> i \in I /\ s[i] = x
        /\ \A i \in P : f[i] = place[i]
    BY DEF A
  <2> HIDE DEF f, P, Q
  <2>2. \A i \in P : f[i] \in Q
    BY <1>2, <2>1
  <2>3. ASSUME NEW n \in Q PROVE \E i \in P : f[i] = n
    <3>1. PICK i \in I : place[i] = n
      BY <1>2, <2>1
    <3> QED
      BY <1>2, <2>1, <3>1
  <2> QED
    BY <2>2, <2>3
<1>5. f = [i \in P |-> f[i]] /\ \A i, k \in P : f[i] = f[k] => i = k
  BY <1>2
<1> HIDE DEF f, P, Q
<1>6. Cardinality({f[i] : i \in P}) = Cardinality(P)
  BY <1>3, <1>5, SameSize
<1> QED
  BY <1>4, <1>6 DEF Count, P, Q

\* Filtering keeps elements apart.
LEMMA PickedSet ==
  ASSUME NEW S, NEW s \in Seq(S), NoneTwice(s), NEW I \in SUBSET DOMAIN s
  PROVE  /\ Picked(s, I) \in Seq(S) /\ NoneTwice(Picked(s, I))
         /\ ToSet(Picked(s, I)) = {s[i] : i \in I}
<1>1. \A i, k \in I : s[i] = s[k] => i = k
  BY DEF NoneTwice
<1>2. /\ Cardinality(I) \in Nat /\ Picked(s, I) \in Seq(S)
      /\ Len(Picked(s, I)) = Cardinality(I)
      /\ \A n \in 1..Cardinality(I) : \E i \in I : Picked(s, I)[n] = s[i]
      /\ \A i \in I : \E n \in 1..Cardinality(I) : Picked(s, I)[n] = s[i]
      /\ \A m, n \in 1..Cardinality(I) : Picked(s, I)[m] = Picked(s, I)[n] => m = n
  BY <1>1, PickedElements
<1> DEFINE p == Picked(s, I)
<1> HIDE DEF p
<1>3. /\ DOMAIN p = 1..Cardinality(I)
      /\ \A n \in 1..Cardinality(I) : \E i \in I : p[n] = s[i]
      /\ \A i \in I : \E n \in 1..Cardinality(I) : p[n] = s[i]
  BY <1>2 DEF p
<1>4. ToSet(p) = {s[i] : i \in I}
  BY <1>3 DEF ToSet
<1>5. NoneTwice(p)
  BY <1>2 DEF NoneTwice, p
<1> QED
  BY <1>2, <1>4, <1>5 DEF p

\* The first n elements are n, if none comes twice.
LEMMA FirstElements ==
  ASSUME NEW S, NEW s \in Seq(S), NoneTwice(s), NEW n \in Nat, n <= Cardinality(ToSet(s))
  PROVE  TakeFirst(s, n) \subseteq ToSet(s) /\ Cardinality(TakeFirst(s, n)) = n
<1>1. DOMAIN s = 1..Len(s) /\ Len(s) \in Nat /\ s = [i \in 1..Len(s) |-> s[i]]
  OBVIOUS
<1>2. \A m \in Nat : IsFiniteSet(1..m) /\ Cardinality(1..m) = m
  <2> SUFFICES ASSUME NEW m \in Nat PROVE IsFiniteSet(1..m) /\ Cardinality(1..m) = m
    OBVIOUS
  <2> DEFINE low == 1
  <2>1. low \in Int /\ low = 1
    OBVIOUS
  <2> HIDE DEF low
  <2>2. IsFiniteSet(low..m) /\ Cardinality(low..m) = IF low > m THEN 0 ELSE m - low + 1
    BY <2>1, FS_Interval
  <2> QED
    BY <2>1, <2>2
<1>3. Cardinality(ToSet(s)) = Len(s)
  <2> DEFINE D == 1..Len(s)
  <2>1. IsFiniteSet(D) /\ Cardinality(D) = Len(s) /\ s = [i \in D |-> s[i]]
        /\ \A i, k \in D : s[i] = s[k] => i = k
    BY <1>1, <1>2 DEF NoneTwice
  <2>2. ToSet(s) = {s[i] : i \in D}
    BY <1>1 DEF ToSet
  <2> HIDE DEF D
  <2> QED
    BY <2>1, <2>2, SameSize
<1>4. DOMAIN s \cap 1..n = 1..n
  BY <1>1, <1>3
<1> DEFINE D == 1..n
           f == [i \in D |-> s[i]]
<1>5. TakeFirst(s, n) = {f[i] : i \in D}
  BY <1>4 DEF TakeFirst
<1>6. /\ IsFiniteSet(D) /\ Cardinality(D) = n /\ f = [i \in D |-> f[i]]
      /\ \A i, k \in D : f[i] = f[k] => i = k
  BY <1>1, <1>2, <1>3 DEF NoneTwice
<1>7. TakeFirst(s, n) \subseteq ToSet(s)
  BY DEF TakeFirst, ToSet
<1> HIDE DEF D, f
<1> QED
  BY <1>5, <1>6, <1>7, SameSize

\* The cards of a value that are not marked yet, and the first n of them.
LEMMA FreeCards ==
  ASSUME NEW h, RealHand(h), NEW C, NEW v
  PROVE  LET free == OfValue(Picked(h, {i \in DOMAIN h : h[i] \notin C}), v)
             F    == {x \in ToSet(h) \ C : High(Value(x)) = v}
         IN /\ \A n : TakeFirst(free, n) \subseteq F
            /\ \A n \in Nat : n <= Cardinality(F) => Cardinality(TakeFirst(free, n)) = n
<1> DEFINE I == {i \in DOMAIN h : h[i] \notin C}
           p == Picked(h, I)
           J == {j \in DOMAIN p : High(Value(p[j])) = v}
           free == Picked(p, J)
           F == {x \in ToSet(h) \ C : High(Value(x)) = v}
<1>1. h \in Seq(Byte) /\ NoneTwice(h) /\ I \in SUBSET DOMAIN h
  BY DEF RealHand
<1>2. {h[i] : i \in I} = ToSet(h) \ C
  BY DEF ToSet
<1>3. p \in Seq(Byte) /\ NoneTwice(p) /\ ToSet(p) = ToSet(h) \ C
  <2> HIDE DEF I
  <2> QED
    BY <1>1, <1>2, PickedSet
<1>4. OfValue(p, v) = free
  BY DEF OfValue
<1> HIDE DEF p
<1>5. J \in SUBSET DOMAIN p /\ {p[j] : j \in J} = F
  BY <1>3 DEF ToSet
<1>6. free \in Seq(Byte) /\ NoneTwice(free) /\ ToSet(free) = F
  <2> HIDE DEF J, F
  <2> QED
    BY <1>3, <1>5, PickedSet
<1> HIDE DEF free, F
<1>7. \A n : TakeFirst(free, n) \subseteq F
  BY <1>6 DEF TakeFirst, ToSet
<1>8. \A n \in Nat : n <= Cardinality(F) => Cardinality(TakeFirst(free, n)) = n
  BY <1>6, FirstElements
<1> QED
  BY <1>4, <1>7, <1>8 DEF p, F

\* What a rank names are values of the hand, and what it marks first are the cards of
\* these values.
LEMMA NamedCards ==
  ASSUME NEW h, RealHand(h), Rank(h).category \in {2, 3, 4, 8}
  PROVE  \A x \in ToSet(h) :
           x \in CardsUsed(Rank(h), h)
             <=> Contains(SubSeq(ByCount(Values(h)), 1, Named[Rank(h).category]), Value(x))
<1> DEFINE T == ToSet(h)
           c == Rank(h).category
           made == Rank(h).made
           B == ByCount(Values(h))
           n == Named[c]
           named == SubSeq(B, 1, n)
           highs == [i \in DOMAIN named |-> High(named[i])]
<1>1. B \in Seq(0..15)
  BY ByCountType, ValuesType DEF RealHand
<1>2. n \in {1, 2} /\ (n = 2 => c = 3)
  BY DEF Named
<1>3. 1 \in DOMAIN B /\ (n = 2 => 2 \in DOMAIN B)
  <2>1. 1 \in DOMAIN B /\ (Most(h, 2) > 0 => 2 \in DOMAIN B)
    BY MostCounts
  <2>2. c = 3 => Most(h, 2) > 0
    BY CategorySeen DEF Seen
  <2> QED
    BY <1>2, <2>1, <2>2
<1>4. \A i \in DOMAIN B : B[i] \in 1..13
  <2> SUFFICES ASSUME NEW i \in DOMAIN B PROVE B[i] \in 1..13
    OBVIOUS
  <2>1. Times(T, B[i]) >= 1
    BY ByCountOrder
  <2>2. OfOneValue(T, B[i]) # {}
    BY <2>1, FS_EmptySet DEF Times
  <2> QED
    BY <2>2 DEF OfOneValue, RealHand, RealCards
<1>5. made = IF c = 3 THEN Descending(highs) ELSE highs
  <2>1. made = CASE c \in {5, 9} -> <<StraightHigh(Values(h))>>
                 [] c = 3 -> Descending(highs)
                 [] OTHER -> highs
    BY DEF Rank
  <2> HIDE DEF made, highs, c
  <2>2. c \in {2, 3, 4, 8}
    BY DEF c
  <2> QED
    BY <2>1, <2>2
<1>6. CardsUsed(Rank(h), h) = {x \in T : Contains(made, High(Value(x)))}
  BY DEF CardsUsed
<1>7. \A x \in T : Value(x) \in 1..13
  BY DEF RealHand, RealCards
<1>8. DOMAIN named = 1..n /\ Len(named) = n /\ \A i \in 1..n : named[i] \in 1..13
  <2> HIDE DEF B, n
  <2>1. \A i \in 1..n : B[i] \in 1..13
    BY <1>1, <1>2, <1>3, <1>4
  <2>2. /\ SubSeq(B, 1, n) \in Seq(1..13) /\ Len(SubSeq(B, 1, n)) = n
    BY <1>2, <2>1, SubSeqProperties
  <2> QED
    BY <1>2, <2>2
<1> HIDE DEF T, c, made, B, n, named
<1>9. DOMAIN highs = 1..n /\ highs \in Seq(0..15) /\ Len(highs) = n
      /\ \A i \in 1..n : highs[i] = High(named[i])
  BY <1>2, <1>8 DEF High
<1> HIDE DEF highs
<1>10. \A e : Contains(made, e) <=> \E i \in 1..n : e = highs[i]
  <2>1. CASE c = 3
    <3>1. /\ DOMAIN Descending(highs) = 1..Len(highs)
          /\ Descending(highs) = [m \in 1..Len(highs) |-> Descending(highs)[m]]
          /\ \E place \in [1..Len(highs) -> 1..Len(highs)] :
               /\ \A i, k \in 1..Len(highs) : place[i] = place[k] => i = k
               /\ \A m \in 1..Len(highs) : \E i \in 1..Len(highs) : place[i] = m
               /\ \A i, k \in 1..Len(highs) : highs[k] > highs[i] => place[k] < place[i]
               /\ \A i \in 1..Len(highs) : Descending(highs)[place[i]] = highs[i]
      BY <1>9, DescendingPlaces
    <3>2. PICK place \in [1..Len(highs) -> 1..Len(highs)] :
               /\ \A m \in 1..Len(highs) : \E i \in 1..Len(highs) : place[i] = m
               /\ \A i \in 1..Len(highs) : Descending(highs)[place[i]] = highs[i]
      BY <3>1
    <3>3. made = Descending(highs)
      BY <1>5, <2>1
    <3> DEFINE D == Descending(highs)
               m == Len(highs)
    <3> HIDE DEF D, m
    <3>4. m \in Nat /\ D = [i \in 1..m |-> D[i]]
      BY <1>2, <1>9, <3>1 DEF D, m
    <3>5. Len(D) = m
      BY <3>4
    <3>6. \A e : Contains(made, e) <=> \E i \in 1..m : D[i] = e
      BY <3>3, <3>5 DEF Contains, D
    <3>7. \A i \in 1..m : place[i] \in 1..m /\ D[place[i]] = highs[i]
      BY <3>2 DEF D, m
    <3>8. \A k \in 1..m : \E i \in 1..m : place[i] = k
      BY <3>2 DEF m
    <3>9. \A e : Contains(made, e) <=> \E i \in 1..m : e = highs[i]
      <4> SUFFICES ASSUME NEW e PROVE Contains(made, e) <=> \E i \in 1..m : e = highs[i]
        OBVIOUS
      <4>1. ASSUME Contains(made, e) PROVE \E i \in 1..m : e = highs[i]
        <5>1. PICK k \in 1..m : D[k] = e
          BY <3>6, <4>1
        <5>2. PICK i \in 1..m : place[i] = k
          BY <3>8
        <5> QED
          BY <3>7, <5>1, <5>2
      <4>2. ASSUME NEW i \in 1..m, e = highs[i] PROVE Contains(made, e)
        BY <3>6, <3>7, <4>2
      <4> QED
        BY <4>1, <4>2
    <3> QED
      BY <1>9, <3>9 DEF m
  <2>2. CASE c # 3
    <3>1. \A e : Contains(made, e) <=> \E i \in 1..Len(highs) : highs[i] = e
      BY <1>5, <2>2 DEF Contains
    <3> QED
      BY <1>9, <3>1
  <2> QED
    BY <2>1, <2>2
<1>11. \A v \in 1..13 : Contains(made, High(v)) <=> Contains(named, v)
  <2>1. \A v, w \in 1..13 : High(v) = High(w) => v = w
    BY DEF High
  <2>2. \A v : Contains(named, v) <=> \E i \in 1..n : named[i] = v
    BY <1>8 DEF Contains
  <2> SUFFICES ASSUME NEW v \in 1..13
               PROVE  Contains(made, High(v)) <=> Contains(named, v)
    OBVIOUS
  <2>3. \A i \in 1..n : High(v) = highs[i] <=> v = named[i]
    BY <1>8, <1>9, <2>1
  <2>4. Contains(made, High(v)) <=> \E i \in 1..n : High(v) = highs[i]
    BY <1>10
  <2> QED
    BY <2>2, <2>3, <2>4
<1> QED
  BY <1>6, <1>7, <1>11 DEF T, c, B, n, named

\* What a hand marks before its kickers.
Marked(h) == IF Rank(h).category = 1 THEN {} ELSE CardsUsed(Rank(h), h)

\* The kickers of a hand are the values of its other cards.
LEMMA KickersLeft ==
  ASSUME NEW h, RealHand(h), Rank(h).category \in {1, 2, 3, 4, 8}
  PROVE  LET kickers == Rank(h).kickers
             left    == ToSet(h) \ Marked(h)
         IN /\ kickers \in Seq(1..13) /\ Len(kickers) = Cardinality(left)
            /\ \A v : Count(kickers, 1..Len(kickers), v) = Times(left, v)
<1> DEFINE T == ToSet(h)
           c == Rank(h).category
           values == Values(h)
           named == SubSeq(ByCount(values), 1, Named[c])
           C == Marked(h)
           I == {i \in DOMAIN h : h[i] \notin C}
           left == T \ C
           weight == IF c = 1 THEN values ELSE [i \in DOMAIN values |-> 0]
           kickers == Rank(h).kickers
<1>1. /\ h \in Seq(Byte) /\ values \in Seq(0..15) /\ Len(values) = Len(h)
      /\ \A i \in 1..Len(h) : values[i] = Value(h[i])
  BY ValuesType DEF RealHand, Values
<1>2. \A x \in T : Value(x) \in 1..13
  BY DEF RealHand, RealCards
<1>3. DOMAIN h = 1..Len(h) /\ DOMAIN values = 1..Len(h) /\ \A i \in 1..Len(h) : h[i] \in T
  BY <1>1 DEF ToSet
<1>4. kickers = Arranged(values, I, weight)
  <2>1. CASE c = 1
    <3>1. I = DOMAIN values /\ weight = values
      BY <1>3, <2>1 DEF Marked
    <3>2. kickers = Descending(values)
      BY <2>1 DEF Rank
    <3> QED
      BY <3>1, <3>2 DEF Descending
  <2>2. CASE c # 1
    <3>1. kickers = Without(values, named)
      BY <2>2 DEF Rank
    <3>2. weight = [i \in DOMAIN values |-> 0]
      BY <2>2
    <3>3. I = {i \in DOMAIN values : ~ Contains(named, values[i])}
      <4>1. \A x \in T : x \in C <=> Contains(named, Value(x))
        BY <2>2, NamedCards DEF Marked
      <4> HIDE DEF T, named, C, values
      <4> QED
        BY <1>1, <1>3, <4>1
    <3> HIDE DEF I, named, values
    <3> QED
      BY <3>1, <3>2, <3>3 DEF Without, Picked
  <2> QED
    BY <2>1, <2>2
<1> HIDE DEF values, C, kickers, T
<1>5. values \in Seq(1..13)
  BY <1>1, <1>2, <1>3
<1>6. \A i \in I : weight[i] \in Int
  BY <1>3, <1>5
<1>7. I \in SUBSET DOMAIN values
  BY <1>3
<1>8. {h[i] : i \in I} = left
  BY DEF ToSet, T
<1>9. IsFiniteSet(I)
  <2>1. IsFiniteSet(1..Len(h))
    <3>1. Len(h) \in Nat
      BY <1>1
    <3> QED
      BY <3>1, FS_Interval
  <2> QED
    BY <1>3, <1>7, <2>1, FS_Subset
<1>10. \A J \in SUBSET I : Cardinality({h[i] : i \in J}) = Cardinality(J)
  <2> SUFFICES ASSUME NEW J \in SUBSET I
               PROVE  Cardinality({h[i] : i \in J}) = Cardinality(J)
    OBVIOUS
  <2> DEFINE f == [i \in J |-> h[i]]
  <2>1. IsFiniteSet(J)
    BY <1>9, FS_Subset
  <2>2. f = [i \in J |-> f[i]] /\ \A i, k \in J : f[i] = f[k] => i = k
    BY <1>3 DEF RealHand, NoneTwice
  <2>3. {f[i] : i \in J} = {h[i] : i \in J}
    OBVIOUS
  <2> HIDE DEF f
  <2> QED
    BY <2>1, <2>2, <2>3, SameSize
<1> DEFINE V == 1..13
<1> HIDE DEF I, weight, left, V
<1>11. values \in Seq(V)
  BY <1>5 DEF V
<1>12. /\ Arranged(values, I, weight) \in Seq(V)
       /\ Cardinality(I) \in Nat /\ Len(Arranged(values, I, weight)) = Cardinality(I)
       /\ \A n \in 1..Cardinality(I) : \E i \in I : Arranged(values, I, weight)[n] = values[i]
       /\ \A i \in I : \E n \in 1..Cardinality(I) : Arranged(values, I, weight)[n] = values[i]
  BY <1>6, <1>7, <1>11, ArrangedElements
<1>13. Cardinality(I) = Cardinality(left)
  BY <1>8, <1>10
<1>14. ASSUME NEW v
       PROVE  Count(kickers, 1..Len(kickers), v) = Times(left, v)
  <2> DEFINE J == {i \in I : values[i] = v}
  <2>1. Count(Arranged(values, I, weight), 1..Cardinality(I), v) = Count(values, I, v)
    BY <1>6, <1>7, <1>11, ArrangedCounts
  <2>2. {h[i] : i \in J} = OfOneValue(left, v)
    BY <1>1, <1>3, <1>7, <1>8 DEF OfOneValue
  <2>3. Cardinality({h[i] : i \in J}) = Cardinality(J)
    <3>1. J \in SUBSET I
      OBVIOUS
    <3> HIDE DEF J
    <3> QED
      BY <1>10, <3>1
  <2>4. Count(values, I, v) = Cardinality(J)
    BY DEF Count
  <2> HIDE DEF J
  <2> QED
    BY <1>4, <1>12, <2>1, <2>2, <2>3, <2>4 DEF Times
<1> QED
  BY <1>4, <1>12, <1>13, <1>14 DEF kickers, left, T, C, V

\* The cards that are marked before the kickers are told by what is made.
LEMMA MarkedOften ==
  ASSUME NEW h, RealHand(h), Rank(h).category \in {2, 3, 4, 8}
  PROVE  LET c    == Rank(h).category
             made == Rank(h).made
         IN /\ Marked(h) \subseteq ToSet(h) /\ Cardinality(Marked(h)) = Repeats(c) * Len(made)
            /\ \A v : Often(Marked(h), v) = IF Contains(made, v) THEN Repeats(c) ELSE 0
<1> DEFINE T == ToSet(h)
           c == Rank(h).category
           made == Rank(h).made
           M == Marked(h)
           OfHigh(v) == {x \in M : High(Value(x)) = v}
<1>1. M = CardsUsed(Rank(h), h)
  BY DEF Marked
<1>2. IsFiniteSet(T) /\ RealCards(T)
  BY HandCards DEF RealHand
<1>3. \A x \in T : Value(x) \in 1..13
  BY <1>2 DEF RealCards
<1>4. \A v : Often(M, v) = Cardinality(OfHigh(v))
  BY DEF Often
<1>5. \A v, w \in 1..13 : High(v) = High(w) => v = w
  BY DEF High
<1>6. CASE c \in {2, 4, 8}
  <2>1. PICK a \in 1..13 : M = OfOneValue(T, a) /\ Times(T, a) = Repeats(c) /\ made = <<High(a)>>
    BY <1>1, <1>6, CountedCards
  <2>2. Len(made) = 1 /\ \A v : Contains(made, v) <=> v = High(a)
    BY <2>1 DEF Contains
  <2>3. M \subseteq T /\ Cardinality(M) = Repeats(c) * Len(made)
    BY <2>1, <2>2 DEF OfOneValue, Times, Repeats
  <2>4. ASSUME NEW v PROVE Often(M, v) = IF Contains(made, v) THEN Repeats(c) ELSE 0
    <3>1. CASE v = High(a)
      <4>1. OfHigh(v) = M
        BY <2>1, <3>1 DEF OfOneValue
      <4> QED
        BY <1>4, <2>1, <2>2, <3>1, <4>1 DEF Times
    <3>2. CASE v # High(a)
      <4>1. OfHigh(v) = {}
        BY <2>1, <3>2 DEF OfOneValue
      <4> QED
        BY <1>4, <2>2, <3>2, <4>1, FS_EmptySet
    <3> QED
      BY <3>1, <3>2
  <2> QED
    BY <2>3, <2>4
<1>7. CASE c = 3
  <2>1. PICK a \in 1..13, b \in 1..13 :
             /\ M = OfOneValue(T, a) \cup OfOneValue(T, b) /\ a # b
             /\ Times(T, a) = Repeats(c) /\ Times(T, b) = 2
             /\ made = IF c = 3 /\ High(b) > High(a) THEN <<High(b), High(a)>>
                       ELSE <<High(a), High(b)>>
    BY <1>1, <1>7, CountedCards
  <2>2. Len(made) = 2 /\ \A v : Contains(made, v) <=> v = High(a) \/ v = High(b)
    <3>1. made = <<High(a), High(b)>> \/ made = <<High(b), High(a)>>
      BY <2>1
    <3>2. Len(made) = 2 /\ {made[1], made[2]} = {High(a), High(b)}
      BY <3>1
    <3> QED
      BY <3>2 DEF Contains
  <2>3. Repeats(c) = 2 /\ High(a) # High(b)
    BY <1>5, <1>7, <2>1 DEF Repeats
  <2> DEFINE A == OfOneValue(T, a)
             B == OfOneValue(T, b)
  <2>4. A \subseteq T /\ B \subseteq T /\ A \cap B = {}
    BY <2>1 DEF OfOneValue
  <2>5. Cardinality(A) = 2 /\ Cardinality(B) = 2
    BY <2>1, <2>3 DEF Times
  <2>6. M \subseteq T /\ Cardinality(M) = 4
    <3> HIDE DEF A, B
    <3>1. IsFiniteSet(A) /\ IsFiniteSet(B) /\ Cardinality(A \cap B) = 0
      BY <1>2, <2>4, FS_Subset, FS_EmptySet
    <3>2. Cardinality(A \cup B) = Cardinality(A) + Cardinality(B) - Cardinality(A \cap B)
      BY <3>1, FS_Union
    <3> QED
      BY <2>1, <2>4, <2>5, <3>1, <3>2 DEF A, B
  <2>7. ASSUME NEW v PROVE Often(M, v) = IF Contains(made, v) THEN Repeats(c) ELSE 0
    <3>1. CASE v = High(a)
      <4>1. OfHigh(v) = A
        BY <1>3, <1>5, <2>1, <3>1 DEF OfOneValue
      <4> QED
        BY <1>4, <2>2, <2>3, <2>5, <3>1, <4>1
    <3>2. CASE v = High(b)
      <4>1. OfHigh(v) = B
        BY <1>3, <1>5, <2>1, <3>2 DEF OfOneValue
      <4> QED
        BY <1>4, <2>2, <2>3, <2>5, <3>2, <4>1
    <3>3. CASE v # High(a) /\ v # High(b)
      <4>1. OfHigh(v) = {}
        BY <2>1, <3>3 DEF OfOneValue
      <4> QED
        BY <1>4, <2>2, <3>3, <4>1, FS_EmptySet
    <3> QED
      BY <3>1, <3>2, <3>3
  <2> QED
    BY <2>2, <2>3, <2>6, <2>7
<1> QED
  BY <1>6, <1>7

\* Hands of the same rank and length have as many cards left, and are marked alike
\* before their kickers.
LEMMA MarkedAlike ==
  ASSUME NEW h, RealHand(h), NEW k, RealHand(k), Len(h) = Len(k),
         Rank(h).category = Rank(k).category, Rank(h).made = Rank(k).made,
         Rank(h).category \in {1, 2, 3, 4, 8}
  PROVE  /\ \A v : Often(Marked(h), v) = Often(Marked(k), v)
         /\ Len(Rank(h).kickers) = Len(Rank(k).kickers)
<1>1. /\ Marked(h) \subseteq ToSet(h) /\ Marked(k) \subseteq ToSet(k)
      /\ Cardinality(Marked(h)) = Cardinality(Marked(k))
      /\ \A v : Often(Marked(h), v) = Often(Marked(k), v)
  <2>1. CASE Rank(h).category = 1
    BY <2>1 DEF Marked
  <2>2. CASE Rank(h).category # 1
    BY <2>2, MarkedOften
  <2> QED
    BY <2>1, <2>2
<1>2. /\ IsFiniteSet(ToSet(h)) /\ Cardinality(ToSet(h)) = Len(h)
      /\ IsFiniteSet(ToSet(k)) /\ Cardinality(ToSet(k)) = Len(h)
  BY HandCards
<1>3. ToSet(h) \cap Marked(h) = Marked(h) /\ ToSet(k) \cap Marked(k) = Marked(k)
  BY <1>1
<1>4. Cardinality(ToSet(h) \ Marked(h)) = Len(h) - Cardinality(Marked(h))
  <2> DEFINE T == ToSet(h)
             M == Marked(h)
  <2>1. IsFiniteSet(T) /\ Cardinality(T) = Len(h) /\ T \cap M = M
    BY <1>2, <1>3
  <2> HIDE DEF T, M
  <2>2. IsFiniteSet(T \ M) /\ Cardinality(T \ M) = Cardinality(T) - Cardinality(T \cap M)
    BY <2>1, FS_Difference
  <2> QED
    BY <2>1, <2>2 DEF T, M
<1>5. Cardinality(ToSet(k) \ Marked(k)) = Len(h) - Cardinality(Marked(k))
  <2> DEFINE T == ToSet(k)
             M == Marked(k)
  <2>1. IsFiniteSet(T) /\ Cardinality(T) = Len(h) /\ T \cap M = M
    BY <1>2, <1>3
  <2> HIDE DEF T, M
  <2>2. IsFiniteSet(T \ M) /\ Cardinality(T \ M) = Cardinality(T) - Cardinality(T \cap M)
    BY <2>1, FS_Difference
  <2> QED
    BY <2>1, <2>2 DEF T, M
<1>6. Len(Rank(h).kickers) = Cardinality(ToSet(h) \ Marked(h))
  BY KickersLeft
<1>7. Len(Rank(k).kickers) = Cardinality(ToSet(k) \ Marked(k))
  BY KickersLeft
<1> QED
  BY <1>1, <1>4, <1>5, <1>6, <1>7

\* A prefix that is longer by one counts one place more.
LEMMA CountPrefix ==
  ASSUME NEW s, NEW i \in Nat \ {0}, NEW x
  PROVE  /\ Count(s, 1..i, x) = Count(s, 1..(i - 1), x) + (IF s[i] = x THEN 1 ELSE 0)
         /\ Count(s, 1..(i - 1), x) \in Nat
<1> DEFINE P == {j \in 1..(i - 1) : s[j] = x}
           Q == {j \in 1..i : s[j] = x}
<1>1. IsFiniteSet(P)
  <2>1. 1 \in Int /\ i - 1 \in Int
    OBVIOUS
  <2> DEFINE R == 1..(i - 1)
  <2>2. IsFiniteSet(R) /\ P \in SUBSET R
    BY <2>1, FS_Interval
  <2> HIDE DEF P, R
  <2> QED
    BY <2>2, FS_Subset
<1>2. i \notin P /\ Q = IF s[i] = x THEN P \cup {i} ELSE P
  OBVIOUS
<1>3. Count(s, 1..i, x) = Cardinality(Q) /\ Count(s, 1..(i - 1), x) = Cardinality(P)
  BY DEF Count
<1> HIDE DEF P, Q
<1>4. /\ IsFiniteSet(P \cup {i}) /\ Cardinality(P) \in Nat
      /\ Cardinality(P \cup {i}) = IF i \in P THEN Cardinality(P) ELSE Cardinality(P) + 1
  BY <1>1, FS_AddElement, FS_CardinalityType
<1> QED
  BY <1>2, <1>3, <1>4

\* add_kickers marks a free card for every kicker that is no ace.
LEMMA KickersMarked ==
  ASSUME NEW h, RealHand(h), Rank(h).category \in {1, 2, 3, 4, 8},
         NEW m \in 0..Len(Rank(h).kickers), NEW v \in 2..13
  PROVE  LET kickers == Rank(h).kickers
         IN Often(AddKickers(Marked(h), h, SubSeq(kickers, 1, m)), v)
              = Often(Marked(h), v) + Count(kickers, 1..m, v)
<1> DEFINE T == ToSet(h)
           C == Marked(h)
           kickers == Rank(h).kickers
           q == SubSeq(kickers, 1, m)
           p == Picked(h, {i \in DOMAIN h : h[i] \notin C})
           Free(u) == OfValue(p, u)
           Take(u) == TakeFirst(Free(u), Count(q, DOMAIN q, u))
           Open(u) == {x \in T \ C : High(Value(x)) = u}
           A == AddKickers(C, h, q)
<1>1. /\ kickers \in Seq(1..13) /\ Len(kickers) = Cardinality(T \ C)
      /\ \A u : Count(kickers, 1..Len(kickers), u) = Times(T \ C, u)
  BY KickersLeft
<1>2. IsFiniteSet(T) /\ \A x \in T : Value(x) \in 1..13
  BY HandCards DEF RealHand, RealCards
<1>3. A = C \cup UNION {Take(u) : u \in ToSet(q)}
  BY DEF AddKickers, Count
<1>4. \A u : /\ \A n : TakeFirst(Free(u), n) \subseteq Open(u)
             /\ \A n \in Nat : n <= Cardinality(Open(u)) => Cardinality(TakeFirst(Free(u), n)) = n
  BY FreeCards
<1>5. C \subseteq T
  <2>1. CASE Rank(h).category = 1
    BY <2>1 DEF Marked
  <2>2. CASE Rank(h).category # 1
    BY <2>2, MarkedOften
  <2> QED
    BY <2>1, <2>2
<1> HIDE DEF T, C, kickers, p, A
<1>6. DOMAIN q = 1..m /\ \A i \in 1..m : q[i] = kickers[i]
  <2>1. Len(kickers) \in Nat /\ m \in Int /\ 1 \in Int /\ \A i \in 1..m : kickers[i] \in 1..13
    BY <1>1 DEF kickers
  <2>2. /\ SubSeq(kickers, 1, m) \in Seq(1..13)
        /\ Len(SubSeq(kickers, 1, m)) = IF 1 <= m THEN m - 1 + 1 ELSE 0
        /\ \A i \in 1..(m - 1 + 1) : SubSeq(kickers, 1, m)[i] = kickers[1 + i - 1]
    BY <2>1, SubSeqProperties
  <2>3. m \in Nat
    BY <2>1 DEF kickers
  <2> QED
    BY <2>2, <2>3
<1> HIDE DEF q
<1>7. Count(q, DOMAIN q, v) = Count(kickers, 1..m, v)
  <2>1. {i \in DOMAIN q : q[i] = v} = {i \in 1..m : kickers[i] = v}
    BY <1>6
  <2> QED
    BY <2>1 DEF Count
<1> DEFINE n == Count(kickers, 1..m, v)
           G == TakeFirst(Free(v), n)
<1>8. n \in Nat /\ n <= Cardinality(Open(v)) /\ (v \notin ToSet(q) => n = 0)
  <2> DEFINE P == {i \in 1..m : kickers[i] = v}
             R == {i \in 1..Len(kickers) : kickers[i] = v}
  <2>1. m \in Nat /\ Len(kickers) \in Nat /\ m <= Len(kickers)
    BY <1>1 DEF kickers
  <2>2. P \in SUBSET R
    BY <2>1
  <2>3. IsFiniteSet(R)
    <3> DEFINE D == 1..Len(kickers)
    <3>1. IsFiniteSet(D) /\ R \in SUBSET D
      BY <2>1, FS_Interval
    <3> HIDE DEF D, R
    <3> QED
      BY <3>1, FS_Subset
  <2>4. Open(v) = OfOneValue(T \ C, v)
    BY <1>2 DEF High, OfOneValue
  <2>5. n = Cardinality(P) /\ Cardinality(R) = Cardinality(Open(v))
    BY <1>1, <2>4 DEF Count, Times
  <2>6. v \notin ToSet(q) => P = {}
    BY <1>6 DEF ToSet
  <2> HIDE DEF P, R, n, Open
  <2>7. Cardinality(P) \in Nat /\ Cardinality(P) <= Cardinality(R)
    BY <2>2, <2>3, FS_Subset, FS_CardinalityType
  <2>8. P = {} => n = 0
    BY <2>5, FS_EmptySet
  <2>9. n \in Nat /\ n <= Cardinality(Open(v))
    BY <2>5, <2>7
  <2> QED
    BY <2>6, <2>8, <2>9
<1> HIDE DEF n, Free
<1>9. G \subseteq Open(v) /\ Cardinality(G) = n
  BY <1>4, <1>8
<1>10. IsFiniteSet(G)
  <2>1. G \in SUBSET T
    BY <1>9
  <2> HIDE DEF G
  <2> QED
    BY <1>2, <2>1, FS_Subset
<1>11. {x \in A : High(Value(x)) = v} = {x \in C : High(Value(x)) = v} \cup G
  <2>1. Take(v) = G
    BY <1>7 DEF n
  <2>2. \A u : Take(u) \subseteq Open(u)
    BY <1>4
  <2>3. v \notin ToSet(q) => G = {}
    BY <1>8, <1>9, <1>10, FS_EmptySet
  <2> HIDE DEF G, Take
  <2>4. \A x \in A : High(Value(x)) = v => x \in C \/ x \in G
    <3> SUFFICES ASSUME NEW x \in A, High(Value(x)) = v, x \notin C PROVE x \in G
      OBVIOUS
    <3>1. PICK u \in ToSet(q) : x \in Take(u)
      BY <1>3
    <3>2. u = v
      BY <2>2, <3>1
    <3> QED
      BY <2>1, <3>1, <3>2
  <2>5. G \subseteq A
    BY <1>3, <2>1, <2>3
  <2>6. \A x \in G : High(Value(x)) = v
    BY <1>9
  <2>7. C \subseteq A
    BY <1>3
  <2> QED
    BY <2>4, <2>5, <2>6, <2>7
<1> DEFINE B == {x \in C : High(Value(x)) = v}
<1>12. IsFiniteSet(B) /\ B \cap G = {}
  <2>1. B \in SUBSET T
    BY <1>5
  <2>2. B \cap G = {}
    BY <1>9
  <2> HIDE DEF B
  <2> QED
    BY <1>2, <2>1, <2>2, FS_Subset
<1>13. Often(A, v) = Cardinality(B \cup G) /\ Often(C, v) = Cardinality(B)
  BY <1>11 DEF Often
<1> HIDE DEF B, G
<1>14. /\ Cardinality(B \cup G) = Cardinality(B) + Cardinality(G) - Cardinality(B \cap G)
       /\ Cardinality(B) \in Nat /\ Cardinality(B \cap G) = 0
  BY <1>10, <1>12, FS_Union, FS_CardinalityType, FS_EmptySet
<1> QED
  BY <1>8, <1>9, <1>13, <1>14 DEF A, C, q, kickers, n

\* Up to where hands with different kickers need them: the first that differs.
LEMMA NeededToDiffer ==
  ASSUME NEW s \in Seq(1..13), NEW t \in Seq(1..13), Len(s) = Len(t), s # t
  PROVE  \E i \in 1..Len(s) :
           /\ s[i] # t[i] /\ \A j \in 1..(i - 1) : s[j] = t[j]
           /\ NeededKickers(s, {t}) = SubSeq(s, 1, i)
           /\ NeededKickers(t, {s}) = SubSeq(t, 1, i)
<1> DEFINE n == Len(s)
           D == {j \in 1..n : s[j] # t[j]}
<1>1. n \in Nat /\ DOMAIN s = 1..n /\ DOMAIN t = 1..n
  OBVIOUS
<1>2. D # {}
  BY SeqEqual
<1>3. PICK i \in D : \A j \in D : i <= j
  <2>1. D \subseteq Nat
    OBVIOUS
  <2> HIDE DEF D
  <2> QED
    BY <1>2, <2>1, LeastNumber
<1>4. i \in 1..n /\ s[i] # t[i] /\ \A j \in 1..(i - 1) : s[j] = t[j]
  BY <1>1, <1>3
<1>5. \A N : N \subseteq Nat /\ i \in N /\ (\A x \in N : i <= x) => Min(N) = i
  <2> SUFFICES ASSUME NEW N, N \subseteq Nat, i \in N, \A x \in N : i <= x PROVE Min(N) = i
    OBVIOUS
  <2>1. Min(N) \in N /\ \A y \in N : Min(N) <= y
    BY DEF Min
  <2> HIDE DEF D
  <2> DEFINE m == Min(N)
  <2> HIDE DEF m
  <2>2. m \in Nat /\ i \in Nat /\ m <= i /\ i <= m
    BY <2>1 DEF m
  <2> QED
    BY <2>2 DEF m
<1> DEFINE E == {n} \cup D
<1>6. E \subseteq Nat /\ i \in E /\ \A x \in E : i <= x
  <2>1. i <= n
    BY <1>1, <1>4
  <2>2. D \subseteq Nat
    OBVIOUS
  <2> HIDE DEF D, n
  <2> QED
    BY <1>1, <1>3, <2>1, <2>2
<1>7. Max({0} \cup {i}) = i
  BY <1>1, <1>4 DEF Max
<1>8. Min({n, n}) = n
  BY <1>1 DEF Min
<1>9. NeededAgainst(s, t) = i
  <2>1. NeededAgainst(s, t) = Min({n} \cup D)
    BY <1>8 DEF NeededAgainst
  <2> QED
    BY <1>5, <1>6, <2>1
<1>10. NeededAgainst(t, s) = i
  <2>1. {j \in 1..n : t[j] # s[j]} = D
    OBVIOUS
  <2>2. NeededAgainst(t, s) = Min({n} \cup D)
    BY <1>8, <2>1 DEF NeededAgainst
  <2> QED
    BY <1>5, <1>6, <2>2
<1>11. {NeededAgainst(s, rival) : rival \in {t}} = {i} /\ {NeededAgainst(t, rival) : rival \in {s}} = {i}
  BY <1>9, <1>10
<1>12. NeededKickers(s, {t}) = SubSeq(s, 1, i) /\ NeededKickers(t, {s}) = SubSeq(t, 1, i)
  BY <1>7, <1>11 DEF NeededKickers
<1> QED
  BY <1>4, <1>12

\* Against one other hand of the same rank.
LEMMA MarkedAgainst ==
  ASSUME NEW h, NEW s, s.category = Rank(h).category, s.made = Rank(h).made,
         Rank(h).category \in {1, 2, 3, 4, 8}
  PROVE  CardsUsedAgainst(Rank(h), h, {s})
           = AddKickers(Marked(h), h, NeededKickers(Rank(h).kickers, {s.kickers}))
<1> DEFINE r == Rank(h)
           same == {x \in {s} : x.category = r.category}
           others == {x.kickers : x \in {y \in same : y.made = r.made}}
<1>1. same = {s}
  OBVIOUS
<1>2. others = {s.kickers}
  BY <1>1
<1> HIDE DEF same
<1>3. CardsUsedAgainst(r, h, {s}) =
        IF same = {} \/ r.category \notin {1, 2, 3, 4, 8} THEN CardsUsed(r, h)
        ELSE AddKickers(IF r.category = 1 THEN {} ELSE CardsUsed(r, h), h,
                        NeededKickers(r.kickers, others))
  BY DEF CardsUsedAgainst, same
<1> QED
  BY <1>1, <1>2, <1>3 DEF Marked

\* Hands of the same rank and length with different kickers are told apart by the
\* values of the cards that cards_used_against marks.
THEOREM KickersTellApart ==
  ASSUME NEW h, RealHand(h), NEW k, RealHand(k), Len(h) = Len(k),
         Rank(h).category = Rank(k).category, Rank(h).made = Rank(k).made,
         Rank(h).kickers # Rank(k).kickers, Rank(h).category \in {1, 2, 3, 4, 8}
  PROVE  \E v \in 2..14 : Often(CardsUsedAgainst(Rank(h), h, {Rank(k)}), v)
                            # Often(CardsUsedAgainst(Rank(k), k, {Rank(h)}), v)
<1> DEFINE s == Rank(h).kickers
           t == Rank(k).kickers
           X == CardsUsedAgainst(Rank(h), h, {Rank(k)})
           Y == CardsUsedAgainst(Rank(k), k, {Rank(h)})
<1>1. s \in Seq(1..13) /\ t \in Seq(1..13)
  BY KickersLeft
<1>2. Len(s) = Len(t) /\ \A v : Often(Marked(h), v) = Often(Marked(k), v)
  BY MarkedAlike
<1>3. PICK i \in 1..Len(s) :
           /\ s[i] # t[i] /\ \A j \in 1..(i - 1) : s[j] = t[j]
           /\ NeededKickers(s, {t}) = SubSeq(s, 1, i)
           /\ NeededKickers(t, {s}) = SubSeq(t, 1, i)
  <2> HIDE DEF s, t
  <2>1. s # t
    BY DEF s, t
  <2> QED
    BY <1>1, <1>2, <2>1, NeededToDiffer
<1>4. X = AddKickers(Marked(h), h, SubSeq(s, 1, i)) /\ Y = AddKickers(Marked(k), k, SubSeq(t, 1, i))
  <2>1. X = AddKickers(Marked(h), h, NeededKickers(s, {t}))
    <3> DEFINE rival == Rank(k)
    <3>1. rival.category = Rank(h).category /\ rival.made = Rank(h).made /\ rival.kickers = t
      OBVIOUS
    <3> HIDE DEF rival
    <3>2. CardsUsedAgainst(Rank(h), h, {rival})
            = AddKickers(Marked(h), h, NeededKickers(Rank(h).kickers, {rival.kickers}))
      BY <3>1, MarkedAgainst
    <3> QED
      BY <3>1, <3>2 DEF rival
  <2>2. Y = AddKickers(Marked(k), k, NeededKickers(t, {s}))
    <3> DEFINE rival == Rank(h)
    <3>1. /\ rival.category = Rank(k).category /\ rival.made = Rank(k).made /\ rival.kickers = s
          /\ Rank(k).category \in {1, 2, 3, 4, 8}
      OBVIOUS
    <3> HIDE DEF rival
    <3>2. CardsUsedAgainst(Rank(k), k, {rival})
            = AddKickers(Marked(k), k, NeededKickers(Rank(k).kickers, {rival.kickers}))
      BY <3>1, MarkedAgainst
    <3> QED
      BY <3>1, <3>2 DEF rival
  <2> HIDE DEF s, t, X, Y
  <2> QED
    BY <1>3, <2>1, <2>2
<1>5. \A v \in 2..13 : /\ Often(X, v) = Often(Marked(h), v) + Count(s, 1..i, v)
                       /\ Often(Y, v) = Often(Marked(k), v) + Count(t, 1..i, v)
  <2>1. i \in 0..Len(s) /\ i \in 0..Len(t)
    BY <1>1, <1>2, <1>3
  <2> QED
    BY <1>4, <2>1, KickersMarked
<1>6. i \in Nat \ {0} /\ s[i] \in 1..13 /\ t[i] \in 1..13
  <2>1. Len(s) \in Nat /\ i \in 1..Len(s) /\ i \in 1..Len(t)
    BY <1>1, <1>2, <1>3
  <2>2. i \in Nat \ {0}
    BY <2>1
  <2>3. \A q \in Seq(1..13) : \A m \in 1..Len(q) : q[m] \in 1..13
    OBVIOUS
  <2> QED
    BY <1>1, <2>1, <2>2, <2>3
<1>7. \A v : Often(Marked(h), v) \in Int
  <2> SUFFICES ASSUME NEW v PROVE Often(Marked(h), v) \in Int
    OBVIOUS
  <2>1. CASE Rank(h).category = 1
    <3>1. {c \in Marked(h) : High(Value(c)) = v} = {}
      BY <2>1 DEF Marked
    <3>2. Often(Marked(h), v) = Cardinality({})
      BY <3>1 DEF Often
    <3> QED
      BY <3>2, FS_EmptySet
  <2>2. CASE Rank(h).category # 1
    <3>1. /\ Rank(h).category \in {2, 3, 4, 8}
          /\ Often(Marked(h), v) =
               IF Contains(Rank(h).made, v) THEN Repeats(Rank(h).category) ELSE 0
      BY <2>2, MarkedOften
    <3>2. \A c : Repeats(c) \in Int
      BY DEF Repeats
    <3> QED
      BY <3>1, <3>2
  <2> QED
    BY <2>1, <2>2
<1>8. \A v : Count(s, 1..(i - 1), v) = Count(t, 1..(i - 1), v)
  <2> SUFFICES ASSUME NEW v PROVE Count(s, 1..(i - 1), v) = Count(t, 1..(i - 1), v)
    OBVIOUS
  <2>1. {j \in 1..(i - 1) : s[j] = v} = {j \in 1..(i - 1) : t[j] = v}
    BY <1>3
  <2> QED
    BY <2>1 DEF Count
<1> HIDE DEF s, t, X, Y
<1>9. \A v : Count(s, 1..i, v) - Count(t, 1..i, v)
               = (IF s[i] = v THEN 1 ELSE 0) - (IF t[i] = v THEN 1 ELSE 0)
             /\ Count(s, 1..i, v) \in Nat /\ Count(t, 1..i, v) \in Nat
  <2> SUFFICES ASSUME NEW v
               PROVE  /\ Count(s, 1..i, v) - Count(t, 1..i, v)
                           = (IF s[i] = v THEN 1 ELSE 0) - (IF t[i] = v THEN 1 ELSE 0)
                      /\ Count(s, 1..i, v) \in Nat /\ Count(t, 1..i, v) \in Nat
    OBVIOUS
  <2>1. /\ Count(s, 1..i, v) = Count(s, 1..(i - 1), v) + (IF s[i] = v THEN 1 ELSE 0)
        /\ Count(s, 1..(i - 1), v) \in Nat
    BY <1>6, CountPrefix
  <2>2. /\ Count(t, 1..i, v) = Count(t, 1..(i - 1), v) + (IF t[i] = v THEN 1 ELSE 0)
        /\ Count(t, 1..(i - 1), v) \in Nat
    BY <1>6, CountPrefix
  <2> QED
    BY <1>8, <2>1, <2>2
<1>10. \A v \in 2..13 : v = s[i] \/ v = t[i] => Often(X, v) # Often(Y, v)
  <2> SUFFICES ASSUME NEW v \in 2..13, v = s[i] \/ v = t[i] PROVE Often(X, v) # Often(Y, v)
    OBVIOUS
  <2> DEFINE base == Often(Marked(h), v)
             own  == Count(s, 1..i, v)
             its  == Count(t, 1..i, v)
  <2>1. Often(X, v) = base + own /\ Often(Y, v) = base + its /\ base \in Int
    BY <1>2, <1>5, <1>7
  <2>2. own \in Nat /\ its \in Nat
        /\ own - its = (IF s[i] = v THEN 1 ELSE 0) - (IF t[i] = v THEN 1 ELSE 0)
    BY <1>9
  <2> HIDE DEF base, own, its
  <2>3. own - its # 0
    BY <1>3, <2>2
  <2> QED
    BY <2>1, <2>2, <2>3
<1>11. s[i] \in 2..13 \/ t[i] \in 2..13
  BY <1>3, <1>6
<1> QED
  BY <1>10, <1>11 DEF X, Y

-----------------------------------------------------------------------------
(* The hands that are dealt.                                                *)

CONSTANT Deals

Rules == INSTANCE HandRules

\* Cards leave the deck for one hand or the other, and the first comes first.
HandsInv ==
  /\ deal \in Deals
  /\ hand \in Seq(Byte) /\ other \in Seq(Byte) /\ Len(hand) <= deal.first
  /\ ToSet(hand) \subseteq deal.deck /\ ToSet(other) \subseteq deal.deck
  /\ NoneTwice(hand) /\ NoneTwice(other) /\ ToSet(hand) \cap ToSet(other) = {}
  /\ other # <<>> => Len(hand) = deal.first

LEMMA DealtElements ==
  ASSUME NEW S, NEW s \in Seq(S), NEW c \in S
  PROVE  /\ Append(s, c) \in Seq(S) /\ Len(Append(s, c)) = Len(s) + 1
         /\ ToSet(Append(s, c)) = ToSet(s) \cup {c}
         /\ NoneTwice(s) /\ c \notin ToSet(s) => NoneTwice(Append(s, c))
<1>1. /\ Append(s, c) \in Seq(S) /\ Len(Append(s, c)) = Len(s) + 1 /\ Len(s) \in Nat
      /\ \A i \in 1..Len(s) : Append(s, c)[i] = s[i]
      /\ Append(s, c)[Len(s) + 1] = c
  OBVIOUS
<1>2. DOMAIN Append(s, c) = 1..(Len(s) + 1) /\ DOMAIN s = 1..Len(s)
  BY <1>1
<1>3. \A i \in 1..(Len(s) + 1) : i \in 1..Len(s) \/ i = Len(s) + 1
  BY <1>1
<1>4. ToSet(Append(s, c)) = ToSet(s) \cup {c}
  <2>1. \A x \in ToSet(Append(s, c)) : x \in ToSet(s) \cup {c}
    BY <1>1, <1>2, <1>3 DEF ToSet
  <2>2. \A x \in ToSet(s) \cup {c} : x \in ToSet(Append(s, c))
    BY <1>1, <1>2 DEF ToSet
  <2> QED
    BY <2>1, <2>2
<1>5. NoneTwice(s) /\ c \notin ToSet(s) => NoneTwice(Append(s, c))
  <2>1. \A i \in 1..Len(s) : s[i] \in ToSet(s)
    BY <1>2 DEF ToSet
  <2> QED
    BY <1>1, <1>3, <2>1 DEF NoneTwice
<1> QED
  BY <1>1, <1>4, <1>5

LEMMA HandsInvariant ==
  ASSUME Rules!DealsAssumption
  PROVE  Rules!Spec => []HandsInv
<1>1. \A d \in Deals : d.first \in Nat \ {0} /\ d.second \in Nat /\ d.deck \subseteq Byte
  BY DEF Rules!DealsAssumption, Byte
<1>2. Rules!Init => HandsInv
  <2>1. ToSet(<<>>) = {} /\ Len(<<>>) = 0 /\ <<>> \in Seq(Byte)
    BY DEF ToSet
  <2>2. NoneTwice(<<>>)
    BY <2>1 DEF NoneTwice
  <2> QED
    BY <1>1, <2>1, <2>2 DEF Rules!Init, HandsInv
<1>3. HandsInv /\ [Rules!Next]_(Rules!vars) => HandsInv'
  <2> SUFFICES ASSUME HandsInv, [Rules!Next]_(Rules!vars) PROVE HandsInv'
    OBVIOUS
  <2>1. CASE Rules!DealHand
    <3>1. PICK card \in Rules!Deck : /\ Len(hand) < deal.first
                                     /\ hand' = Append(hand, card)
                                     /\ UNCHANGED <<deal, other>>
      BY <2>1 DEF Rules!DealHand
    <3>2. card \in Byte /\ card \in deal.deck /\ card \notin ToSet(hand) \cup ToSet(other)
      BY <1>1, <3>1 DEF Rules!Deck, HandsInv, Rules!ToSet, ToSet
    <3>3. /\ hand' \in Seq(Byte) /\ Len(hand') = Len(hand) + 1
          /\ ToSet(hand') = ToSet(hand) \cup {card} /\ NoneTwice(hand')
      BY <3>1, <3>2, DealtElements DEF HandsInv
    <3>4. Len(hand) \in Nat /\ deal.first \in Nat /\ other = <<>>
      BY <1>1, <3>1 DEF HandsInv
    <3>5. Len(hand') <= deal.first
      BY <3>1, <3>3, <3>4
    <3> QED
      BY <3>1, <3>2, <3>3, <3>4, <3>5 DEF HandsInv, ToSet, NoneTwice
  <2>2. CASE Rules!DealOther
    <3>1. PICK card \in Rules!Deck : /\ Len(hand) = deal.first
                                     /\ other' = Append(other, card)
                                     /\ UNCHANGED <<deal, hand>>
      BY <2>2 DEF Rules!DealOther
    <3>2. card \in Byte /\ card \in deal.deck /\ card \notin ToSet(hand) \cup ToSet(other)
      BY <1>1, <3>1 DEF Rules!Deck, HandsInv, Rules!ToSet, ToSet
    <3>3. /\ other' \in Seq(Byte) /\ ToSet(other') = ToSet(other) \cup {card}
          /\ NoneTwice(other')
      BY <3>1, <3>2, DealtElements DEF HandsInv
    <3>4. /\ ToSet(hand)' = ToSet(hand) /\ ToSet(other)' = ToSet(other')
          /\ NoneTwice(hand)' = NoneTwice(hand) /\ NoneTwice(other)' = NoneTwice(other')
      BY <3>1 DEF ToSet, NoneTwice
    <3>5. ToSet(hand)' \cap ToSet(other)' = {}
      BY <3>2, <3>3, <3>4 DEF HandsInv
    <3> QED
      BY <3>1, <3>2, <3>3, <3>4, <3>5 DEF HandsInv
  <2>3. CASE UNCHANGED Rules!vars
    <3>1. deal' = deal /\ hand' = hand /\ other' = other
      BY <2>3 DEF Rules!vars
    <3>2. /\ ToSet(hand)' = ToSet(hand) /\ ToSet(other)' = ToSet(other)
          /\ NoneTwice(hand)' = NoneTwice(hand) /\ NoneTwice(other)' = NoneTwice(other)
      BY <3>1 DEF ToSet, NoneTwice
    <3> QED
      BY <3>1, <3>2 DEF HandsInv
  <2> QED
    BY <2>1, <2>2, <2>3 DEF Rules!Next
<1> QED
  BY <1>2, <1>3, PTL DEF Rules!Spec

\* Two hands from one deck never tie, however many cards they have and in whatever
\* order they are dealt: so the table's winner is the same in whatever order the
\* HashMap yields the players (hand.rs:213, fivecarddraw.rs:125).
THEOREM HandsNeverTie ==
  ASSUME Rules!DealsAssumption
  PROVE  Rules!Spec => []NoTies
<1>1. HandsInv => NoTies
  <2> SUFFICES ASSUME HandsInv, Complete PROVE RankLess(Evaluate(hand), Evaluate(other))
                                                 # RankLess(Evaluate(other), Evaluate(hand))
    BY DEF NoTies
  <2>1. other # <<>> /\ hand # <<>>
    BY DEF HandsInv, Complete, Rules!DealsAssumption
  <2>2. ToSet(hand) # ToSet(other)
    <3>1. hand[1] \in ToSet(hand)
      BY <2>1 DEF HandsInv, ToSet
    <3> QED
      BY <3>1 DEF HandsInv
  <2> QED
    BY <2>1, <2>2, DistinctHandsNeverTie DEF HandsInv
<1> QED
  BY <1>1, HandsInvariant, PTL

\* A hand that is dealt from cards that Deck::new made is made of them, too.
LEMMA DealtHands ==
  ASSUME Rules!DealsAssumption, Rules!CardsAssumption, HandsInv
  PROVE  /\ hand # <<>> => RealHand(hand)
         /\ other # <<>> => RealHand(other)
<1>1. \A c \in Byte : Suit(c) \in 0..3
  BY DEF Byte, Suit
<1>2. deal.deck \subseteq Byte
  BY DEF HandsInv, Rules!DealsAssumption, Byte
<1>3. RealCards(deal.deck)
  BY <1>1, <1>2 DEF HandsInv, RealCards, Rules!CardsAssumption, Rules!Value, Rules!Suit,
                    Value, Suit
<1>4. RealCards(ToSet(hand)) /\ RealCards(ToSet(other))
  BY <1>3 DEF HandsInv, RealCards
<1> QED
  BY <1>4 DEF HandsInv, RealHand

\* Hand::evaluate takes every five cards of a deck, in whatever order they are dealt,
\* for what the rules say they are, and more of them never for more than five of
\* them are: check_straight, is_flush and the counts find nothing that is not
\* there, and in five cards all there is (hand.rs:358).
THEOREM HandsRankedRight ==
  ASSUME Rules!DealsAssumption, Rules!CardsAssumption
  PROVE  Rules!Spec => []RankedRight
<1>1. HandsInv => RankedRight
  <2> SUFFICES ASSUME HandsInv, Len(hand) >= 5
               PROVE  LET category == Evaluate(hand).category
                      IN /\ \E S \in kSubset(5, ToSet(hand)) : RuleCategory(S) >= category
                         /\ Len(hand) = 5 => category = RuleCategory(ToSet(hand))
    BY Zenon DEF RankedRight
  <2>1. hand # <<>>
    OBVIOUS
  <2>2. RealHand(hand)
    BY <2>1, DealtHands
  <2> QED
    BY <2>2, HandsAreRankedRight, Zenon
<1> QED
  BY <1>1, HandsInvariant, PTL

\* Of two hands of five from one deck that differ in more than kickers the better one
\* is found greater, whatever cards are dealt in whatever order: cmp ranks the
\* categories as poker does, and pairs, triples and straights within them by what
\* they are made of (hand.rs:213).
THEOREM TheBetterHandWins ==
  ASSUME Rules!DealsAssumption, Rules!CardsAssumption
  PROVE  Rules!Spec => []BetterHandWins
<1>1. HandsInv => BetterHandWins
  <2> SUFFICES ASSUME HandsInv, Len(hand) = 5, Len(other) = 5,
                      RuleLess(ToSet(hand), ToSet(other))
               PROVE  RankLess(Evaluate(hand), Evaluate(other))
    BY Zenon DEF BetterHandWins
  <2>1. hand # <<>> /\ other # <<>>
    OBVIOUS
  <2>2. RealHand(hand) /\ RealHand(other)
    BY <2>1, DealtHands
  <2> QED
    BY <2>2, BetterHandsWin
<1> QED
  BY <1>1, HandsInvariant, PTL

\* Whatever hand is dealt in whatever order, the cards that cards_used marks for it
\* are some of its own, five at most, and are by themselves what it was taken for,
\* or more: so a player sees why a hand won (hand.rs:44).
THEOREM UsedCardsMakeTheirHand ==
  ASSUME Rules!DealsAssumption, Rules!CardsAssumption
  PROVE  Rules!Spec => []UsedCardsMakeTheHand
<1>1. HandsInv => UsedCardsMakeTheHand
  <2> SUFFICES ASSUME HandsInv, FirstDealt
               PROVE  LET rank  == Evaluate(hand)
                          used  == CardsUsed(rank, hand)
                          alone == Evaluate(Picked(hand, {i \in DOMAIN hand : hand[i] \in used}))
                      IN /\ used \subseteq ToSet(hand) /\ Cardinality(used) \in 1..5
                         /\ rank.category > 1 =>
                              \/ alone.category > rank.category
                              \/ alone.category = rank.category /\ alone.made = rank.made
    BY Zenon DEF UsedCardsMakeTheHand
  <2>1. deal.first \in 1..7
    BY DEF HandsInv, Rules!DealsAssumption
  <2>2. hand # <<>>
    BY <2>1 DEF FirstDealt
  <2>3. RealHand(hand)
    BY <2>2, DealtHands
  <2> QED
    BY <2>3, UsedCardsAreTheHand, Zenon
<1> QED
  BY <1>1, HandsInvariant, PTL

\* Of two hands of one length and rank whose kickers differ, the cards that
\* cards_used_against marks are not of the same values: a player sees where they
\* differ (hand.rs:113).
THEOREM MarksTellHandsApart ==
  ASSUME Rules!DealsAssumption, Rules!CardsAssumption
  PROVE  Rules!Spec => []MarksTellApart
<1>1. HandsInv => MarksTellApart
  <2> DEFINE r == Evaluate(hand)
             s == Evaluate(other)
             X == CardsUsedAgainst(r, hand, {s})
             Y == CardsUsedAgainst(s, other, {r})
  <2> SUFFICES ASSUME HandsInv, Complete, Len(hand) = Len(other), r.category = s.category,
                      r.made = s.made, r.kickers # s.kickers, r.category \in {1, 2, 3, 4, 8}
               PROVE  [v \in 2..14 |-> Often(X, v)] # [v \in 2..14 |-> Often(Y, v)]
    BY Zenon DEF MarksTellApart
  <2>1. hand # <<>> /\ other # <<>>
    BY DEF HandsInv, Complete, Rules!DealsAssumption
  <2>2. RealHand(hand) /\ RealHand(other)
    BY <2>1, DealtHands
  <2>3. r = Rank(hand) /\ s = Rank(other)
    BY <2>1 DEF Evaluate
  <2>4. \E v \in 2..14 : Often(CardsUsedAgainst(Rank(hand), hand, {Rank(other)}), v)
                           # Often(CardsUsedAgainst(Rank(other), other, {Rank(hand)}), v)
    <3> HIDE DEF r, s
    <3>1. /\ Rank(hand).category = Rank(other).category /\ Rank(hand).made = Rank(other).made
          /\ Rank(hand).kickers # Rank(other).kickers
          /\ Rank(hand).category \in {1, 2, 3, 4, 8} /\ Len(hand) = Len(other)
      BY <2>3
    <3> QED
      BY <2>2, <3>1, KickersTellApart
  <2>5. \E v \in 2..14 : Often(X, v) # Often(Y, v)
    BY <2>3, <2>4
  <2> HIDE DEF X, Y
  <2> QED
    BY <2>5
<1> QED
  BY <1>1, HandsInvariant, PTL
=============================================================================
