------------------------------- MODULE Lobby -------------------------------
(***************************************************************************)
(* The lobby of the TCP server: ServerManager (Server/src/servermanager.rs)*)
(* with its notifier, its accepting and its discovery thread, and the      *)
(* handler of each connection to it (handle_lobby_client,                  *)
(* Server/src/clienthandler.rs).                                           *)
(*                                                                         *)
(* Three mutexes are shared.  A handler takes the manager's and, with it   *)
(* in hand, that of the list of clients or that of the tables: two steps,  *)
(* of which the second does the work and lets go of both.  The notifier    *)
(* sleeps with the clients' mutex in hand, shutdown_game waits for a       *)
(* table's threads with the tables' in hand.                               *)
(*                                                                         *)
(* A client is one connection, used once.  Ports are counted from 0        *)
(* instead of 10000, and a table is its port.                              *)
(***************************************************************************)
EXTENDS Registry, Integers, FiniteSets

CONSTANTS
  Clients,
  Games,  \* the names of the games
  None,
  Limits  \* bounds: which clients come, which games there are, how often
          \* register_game is called, and whether the owner shuts anything down

VARIABLES
  limits,    \* the bounds chosen
  casting,   \* the ports whose broadcaster runs
  owner,     \* the thread that calls the manager's methods
  calls,     \* how often it called register_game
  stopAll,   \* the manager's shutdown_flag
  lobby,     \* the threads of start_lobby
  discovery,
  notifier,
  news,      \* the games in the message the notifier made
  manager,   \* who holds the handlers' manager
  inLobby,   \* lobby_clients
  conn, at,  \* each client's connection, and its handler
  asked,     \* the game that a client asks for
  told,      \* the games in the last list it was sent
  known      \* the ports that have been given to a client

ownerVars == <<limits, tables, bound, casting, stopping, owner, calls, stopAll>>
lobbyVars == <<lobby, discovery, notifier, news>>
clientVars == <<manager, inLobby, conn, at, asked, told, known>>
vars == <<ownerVars, lobbyVars, clientVars>>

Idle == [at |-> "idle", port |-> None, game |-> None]

Init ==
  /\ limits \in Limits
  /\ tables = <<>> /\ bound = {} /\ casting = {} /\ stopping = {}
  /\ owner = Idle /\ calls = 0 /\ stopAll = FALSE
  /\ lobby = "off" /\ discovery = "off" /\ notifier = "off" /\ news = {}
  /\ manager = None /\ inLobby = {}
  /\ conn = [c \in Clients |-> "none"] /\ at = [c \in Clients |-> "none"]
  /\ asked = [c \in Clients |-> None] /\ told = [c \in Clients |-> {}] /\ known = {}

TablesFree == owner.at # "join"
ClientsFree == notifier # "asleep"

-----------------------------------------------------------------------------
(* The owner's calls *)

StartLobby ==
  /\ owner.at = "idle" /\ lobby = "off"
  /\ lobby' = "accepts" /\ discovery' = "runs" /\ notifier' = "head"
  /\ UNCHANGED <<ownerVars, news, clientVars>>

\* register_game looks at the tables, binds, and only then takes them to insert.  No
\* game is registered twice at a time.
RegisterCount ==
  \E g \in limits.games \ Registered :
    /\ owner.at = "idle" /\ calls < limits.calls
    /\ owner' = [at |-> "launch", port |-> Cardinality(Registered), game |-> g]
    /\ calls' = calls + 1
    /\ UNCHANGED <<limits, tables, bound, casting, stopping, stopAll, lobbyVars, clientVars>>

\* mutant: the port is taken again although a table listens there
RegisterLaunchAnyway ==
  /\ owner.at = "launch"
  /\ bound' = bound \cup {owner.port} /\ casting' = casting \cup {owner.port}
  /\ owner' = [owner EXCEPT !.at = "insert"]
  /\ UNCHANGED <<limits, tables, stopping, calls, stopAll, lobbyVars, clientVars>>

\* launch_table's expect("TCP Bind Failed") ends the owner's thread.
RegisterLaunch ==
  /\ owner.at = "launch"
  /\ IF owner.port \in bound
       THEN owner' = [Idle EXCEPT !.at = "panicked"] /\ UNCHANGED <<bound, casting>>
       ELSE /\ bound' = bound \cup {owner.port} /\ casting' = casting \cup {owner.port}
            /\ owner' = [owner EXCEPT !.at = "insert"]
  /\ UNCHANGED <<limits, tables, stopping, calls, stopAll, lobbyVars, clientVars>>

RegisterInsert ==
  /\ owner.at = "insert"
  /\ tables' = [g \in Registered \cup {owner.game} |->
                  IF g = owner.game THEN owner.port ELSE tables[g]]
  /\ owner' = Idle
  /\ UNCHANGED <<limits, bound, casting, stopping, calls, stopAll, lobbyVars, clientVars>>

\* The rest of shutdown_game waits with the tables in hand.
Remove(g) ==
  /\ owner' = [at |-> "join", port |-> tables[g], game |-> g]
  /\ tables' = Restrict(tables, Registered \ {g}) /\ stopping' = stopping \cup {tables[g]}
  /\ UNCHANGED <<limits, bound, casting, calls, lobbyVars, clientVars>>

ShutDownGame ==
  \E g \in Registered : limits.shutDown /\ owner.at = "idle" /\ Remove(g) /\ UNCHANGED stopAll

ShutDownJoined ==
  /\ owner.at = "join" /\ owner.port \notin bound \cup casting
  /\ owner' = [Idle EXCEPT !.at = IF stopAll THEN "games" ELSE "idle"]
  /\ stopping' = stopping \ {owner.port}
  /\ UNCHANGED <<limits, tables, bound, casting, calls, stopAll, lobbyVars, clientVars>>

ShutDownAll ==
  /\ limits.shutDown /\ owner.at = "idle"
  /\ owner' = [Idle EXCEPT !.at = "lobby"] /\ stopAll' = TRUE
  /\ UNCHANGED <<limits, tables, bound, casting, stopping, calls, lobbyVars, clientVars>>

ShutDownLobby ==
  /\ owner.at = "lobby" /\ lobby \in {"off", "ended"} /\ discovery \in {"off", "ended"}
  /\ owner' = [owner EXCEPT !.at = "games"]
  /\ UNCHANGED <<limits, tables, bound, casting, stopping, calls, stopAll, lobbyVars, clientVars>>

ShutDownNext ==
  /\ owner.at = "games"
  /\ \/ \E g \in Registered : Remove(g) /\ UNCHANGED stopAll
     \/ /\ Registered = {} /\ owner' = [owner EXCEPT !.at = "stopped"]
        /\ UNCHANGED <<limits, tables, bound, casting, stopping, calls, stopAll, lobbyVars, clientVars>>

-----------------------------------------------------------------------------
(* The threads of the tables and of the lobby *)

\* A connection to a table's port.  The thread looks at its flag only when one comes.
Visit ==
  \E port \in known \cap bound :
    /\ port \in stopping /\ bound' = bound \ {port}
    /\ UNCHANGED <<limits, tables, casting, stopping, owner, calls, stopAll, lobbyVars, clientVars>>

BroadcasterEnds ==
  \E port \in casting \cap stopping :
    /\ casting' = casting \ {port}
    /\ UNCHANGED <<limits, tables, bound, stopping, owner, calls, stopAll, lobbyVars, clientVars>>

DiscoveryEnds ==
  /\ stopAll /\ discovery = "runs" /\ discovery' = "ended"
  /\ UNCHANGED <<ownerVars, lobby, notifier, news, clientVars>>

NotifierHead ==
  /\ notifier = "head" /\ notifier' = IF stopAll THEN "ended" ELSE "list"
  /\ UNCHANGED <<ownerVars, lobby, discovery, news, clientVars>>

\* mutant: the message is made before the loop, when there are no games yet
NotifierListOnce ==
  /\ notifier = "list" /\ notifier' = "take"
  /\ UNCHANGED <<ownerVars, lobby, discovery, news, clientVars>>

NotifierList ==
  /\ notifier = "list" /\ TablesFree
  /\ notifier' = "take" /\ news' = Registered
  /\ UNCHANGED <<ownerVars, lobby, discovery, clientVars>>

NotifierSend ==
  /\ notifier = "take" /\ notifier' = "asleep"
  /\ inLobby' = {c \in inLobby : conn[c] # "reset"}
  /\ told' = [c \in Clients |-> IF c \in inLobby' THEN news ELSE told[c]]
  /\ UNCHANGED <<ownerVars, lobby, discovery, news, manager, conn, at, asked, known>>

\* mutant: the guard lives longer than the round of the loop
NotifierWakeHolding ==
  notifier = "asleep" /\ UNCHANGED vars

NotifierWake ==
  /\ notifier = "asleep" /\ notifier' = "head"
  /\ UNCHANGED <<ownerVars, lobby, discovery, news, clientVars>>

-----------------------------------------------------------------------------
(* The clients *)

Connect(c) ==
  /\ c \in limits.clients /\ at[c] = "none" /\ lobby = "accepts"
  /\ at' = [at EXCEPT ![c] = "add"] /\ conn' = [conn EXCEPT ![c] = "open"]
  /\ lobby' = IF stopAll THEN "ended" ELSE "accepts"
  /\ UNCHANGED <<ownerVars, discovery, notifier, news, manager, inLobby, asked, told, known>>

\* What a client leaves unread, or is sent after it went, resets the connection.
Break(c) ==
  /\ conn[c] \in {"open", "closed"}
  /\ \E state \in {"closed", "reset"} \ {conn[c]} : conn' = [conn EXCEPT ![c] = state]
  /\ UNCHANGED <<ownerVars, lobbyVars, manager, inLobby, at, asked, told, known>>

Ask(c) ==
  /\ conn[c] = "open" /\ told[c] # {} /\ asked[c] = None
  /\ \E g \in told[c] : asked' = [asked EXCEPT ![c] = g]
  /\ UNCHANGED <<ownerVars, lobbyVars, manager, inLobby, conn, at, told, known>>

-----------------------------------------------------------------------------
(* The handlers *)

Goes(c, place) == at' = [at EXCEPT ![c] = place] /\ UNCHANGED <<ownerVars, lobbyVars, conn>>

Takes(c, from, to) ==
  /\ at[c] = from /\ manager = None /\ manager' = c /\ Goes(c, to)
  /\ UNCHANGED <<inLobby, asked, told, known>>

Release == manager' = None

Add(c) == Takes(c, "add", "adding")

Adding(c) ==
  /\ at[c] = "adding" /\ ClientsFree
  /\ inLobby' = inLobby \cup {c} /\ Release /\ Goes(c, "welcome")
  /\ UNCHANGED <<asked, told, known>>

Welcome(c) ==
  /\ at[c] = "welcome" /\ Goes(c, IF conn[c] = "reset" THEN "done" ELSE "list")
  /\ UNCHANGED <<manager, inLobby, asked, told, known>>

List(c) == Takes(c, "list", "listing")

Listing(c) ==
  /\ at[c] = "listing" /\ TablesFree /\ Release
  /\ IF conn[c] = "reset"
       THEN Goes(c, "done") /\ UNCHANGED told
       ELSE Goes(c, "read") /\ told' = [told EXCEPT ![c] = Registered]
  /\ UNCHANGED <<inLobby, asked, known>>

\* Once a minute the handler writes PING; what it reads next is not what a client of
\* this repository ever sends, and a request is lost that way.
PingFails(c) ==
  /\ at[c] = "read" /\ Goes(c, "leave") /\ asked' = [asked EXCEPT ![c] = None]
  /\ UNCHANGED <<manager, inLobby, told, known>>

ReadEnd(c) ==
  /\ at[c] = "read"
  /\ conn[c] = "reset" \/ (conn[c] = "closed" /\ asked[c] = None)
  /\ Goes(c, "leave") /\ UNCHANGED <<manager, inLobby, asked, told, known>>

ReadLine(c) ==
  /\ at[c] = "read" /\ asked[c] # None /\ Goes(c, "ask")
  /\ UNCHANGED <<manager, inLobby, asked, told, known>>

TakeAsk(c) == Takes(c, "ask", "asking")

Answers(g) == {tables[h] : h \in Registered \cap {g}}

Asking(c) ==
  /\ at[c] = "asking" /\ TablesFree /\ Release
  /\ asked' = [asked EXCEPT ![c] = None]
  /\ IF conn[c] = "reset"
       THEN Goes(c, "leave") /\ UNCHANGED known
       ELSE Goes(c, "read") /\ known' = known \cup Answers(asked[c])
  /\ UNCHANGED <<inLobby, told>>

TakeLeave(c) == Takes(c, "leave", "leaving")

\* The entry is found by its peer's address, which a connection that was reset lacks.
Leaving(c) ==
  /\ at[c] = "leaving" /\ ClientsFree /\ Release /\ Goes(c, "done")
  /\ inLobby' = IF conn[c] = "reset" THEN inLobby ELSE inLobby \ {c}
  /\ UNCHANGED <<asked, told, known>>

-----------------------------------------------------------------------------

Owner ==
  \/ StartLobby \/ RegisterCount \/ RegisterLaunch \/ RegisterInsert
  \/ ShutDownGame \/ ShutDownJoined \/ ShutDownAll \/ ShutDownLobby \/ ShutDownNext

Notifier == NotifierHead \/ NotifierList \/ NotifierSend \/ NotifierWake

Reads(c) == ReadEnd(c) \/ ReadLine(c)

\* The waits for a mutex, and what is done with it.
Locks(c) ==
  \/ Add(c) \/ Adding(c) \/ List(c) \/ Listing(c) \/ TakeAsk(c) \/ Asking(c)
  \/ TakeLeave(c) \/ Leaving(c)

Next ==
  \/ Owner \/ Visit \/ BroadcasterEnds \/ DiscoveryEnds \/ Notifier
  \/ \E c \in Clients :
       Connect(c) \/ Break(c) \/ Ask(c) \/ PingFails(c) \/ Welcome(c) \/ Reads(c) \/ Locks(c)

Spec == Init /\ [][Next]_vars

\* Threads go on; one that waits for a mutex gets it if it is free again and again.
\* Nothing makes the owner call, a client write, or anybody connect.
FairSpec ==
  /\ Spec /\ SF_vars(Notifier)
  /\ WF_vars(BroadcasterEnds) /\ WF_vars(DiscoveryEnds)
  /\ WF_vars(RegisterLaunch) /\ WF_vars(RegisterInsert)
  /\ WF_vars(ShutDownJoined) /\ WF_vars(ShutDownLobby) /\ WF_vars(ShutDownNext)
  /\ \A c \in Clients : WF_vars(Welcome(c)) /\ WF_vars(Reads(c)) /\ SF_vars(Locks(c))

-----------------------------------------------------------------------------

\* The locks are taken in one order: whoever comes to the lobby, asks or goes is done
\* with it in the end.  Needs tables that nobody shuts down.
Served ==
  \A c \in Clients :
    ~limits.shutDown /\ at[c] \notin {"none", "read", "done"} ~> at[c] \in {"read", "done"}

\* Lists are made under one lock and sent under another, so a client can be sent an
\* older list after a newer one, but not for good.  Needs tables that nobody shuts
\* down.
ListsConverge ==
  <>[](limits.shutDown \/ \A c \in inLobby : told[c] = Registered)
=============================================================================
