# The poker server in TLA+

A TLA+ development kept beside the Rust workspace: modules that model the
servers, the two clients, the database and the games, TLC configurations that
check them on small instances, and theorems that TLAPS proves for every
instance. Paths are relative to `src/` of the repository.

## 1. The system

| component | where | state | operations |
|---|---|---|---|
| Table | `Server/src/lib.rs`, `Poker/src/player.rs` | the struct `Table<G, Db>`: the `HashMap` of `PlayerNode`s, the full ring (`next_full`/`prev_full`), the hand's ring (`next`/`prev`), the pointers head, bettor, blind and turn, bet, pot, showdown, the confirmed players, `turn_started_at`, the game's round | `add_player`, `remove_player`, `raise`, `all_in`, `check`, `fold`, `game_actions`, `start_game`, `end_game`, `advance_turn`, `expire_timed_out_turn`, `keep_playing`, `remove_unconfirmed_players`, `rebuild_full_ring`, `pay_showdown_pots` |
| Web table | `Server/src/web.rs` | the registry of tables, one monitor thread for each table | `run_action`, `join_table`, `join_game`, the monitor's loop |
| Rounds of the games | `Poker/src/games/*.rs`, `Poker/src/game.rs` | round, deck, community cards | `handle_round_action`, `client_action`, `deal_to_player`, `determine_winner`, `showdown_hand` |
| Hand ranking | `Poker/src/hand.rs` | none (a function of up to seven cards) | `evaluate`, `cmp`, `cards_used`, `cards_used_against` |
| Cards and deck | `Poker/src/card.rs`, `Poker/src/deck.rs`, `Poker/src/player.rs` | the cards left in the deck, each player's hand | `Deck::new`, `deal`, `deal_face_up`, `to_stream`, `to_broadcast` |
| Database | `Server/src/db.rs`, `Server/src/lib.rs:747-821` | players, games, states of games, links | `fetch_player`, `upsert_player`, `delete_player`, `save_game_state`, `init_schema`; the threads of `persist_player`, `delete_player`, `trigger_save` |
| Web sessions | `Server/src/web.rs:197-254` | a broadcast channel of 128 refreshes, a session for each socket | `notify`, `websocket_session`, `game_state` |
| Browser client | `Server/src/web/app.js` | the last snapshot, a refresh in flight and one queued, `hasSeenRunning`, the key of the last confirmed showdown | `refresh`, `requestRefresh`, `render`, `autoKeepPlaying`, `connectSocket`, the buttons |
| TCP server: tables | `Server/src/clienthandler.rs`, `Server/src/servermanager.rs` | a handler thread for each connection, the streams in the nodes, a monitor for each table | `handle_game_client`, `handle_join`, `handle_player_disconnect`, `launch_table` |
| TCP server: lobby | `Server/src/servermanager.rs`, `Server/src/clienthandler.rs` | the registered tables and their threads, the list of lobby clients, the manager's mutex | `register_game`, `shutdown_game`, `shutdown_all`, `start_lobby`, `handle_lobby_client`, the discovery broadcaster |
| TCP client | `Client/src` | the stream, two listener threads, the flags between them | `send_command`, `reconnect`, `reconnect_to`, `start_listeners`, `stop_listeners`, the menus |

`main.rs` starts the web server; the TCP server is compiled and tested, and
started by nothing (`#![allow(dead_code)]`).

**How they interact.** A table is an `Arc<Mutex<Table>>`. Whatever a web
request, a TCP handler or a monitor does, it does in one or more critical
sections of that mutex; a bet of `run_action` takes it once to test the turn
(`web.rs:441-449`), once for `game_actions`, once for the bet, once for
`advance_turn`, and anything can happen in between. A monitor loops: expire the
turn of a late player; count the players and look whether a hand runs; if a
showdown is displayed, sleep ten seconds and remove the players who have not
confirmed; count again and start a hand (that of the TCP server sleeps thirty
seconds before the start, and has no purge). Every node has a mutex too, always
taken with the table's mutex held, so between threads the nodes' mutexes never
contend; a method that takes a node's mutex twice waits for itself for ever.
Database writes are threads that a table spawns with a copy of what it holds and
forgets. Web clients learn of a change by a message on their socket and fetch a
snapshot; TCP clients by a multicast `[UPDATED]`, which they answer with the
command UPDATE on the stream that the user's commands use as well.

**What is hard.**

- The two rings and the four pointers are edited by five methods, and a bet, a
  fold, a leave or a timeout can come late, in a hand it was not meant for, or
  between two hands.
- `fold` locks a node's neighbours while it holds the node (`lib.rs:291-301`),
  `advance_turn` the next node while it holds the current one
  (`lib.rs:565-577`): each is safe only if nobody is alone on the ring.
- Joins come in the middle of a hand; the newcomer is not folded and has no
  cards, and is a contender at the showdown.
- Side pots, with folded players, players who are gone and newcomers.
- Seven cards are ranked without choosing five, the ace has two values, and
  kickers keep the order in which they were dealt.
- Cards go from a deck that may run short to hands, to the board, into the
  discards and onto the pages of players who must not see all of them.
- Nothing orders the threads that write to the database; the join's read and
  write of a wallet happen before the table's lock is taken; any statement may
  fail, and nobody waits for an error.
- A handler of the TCP server reads the turn, waits a second for its client and
  acts on what it read; its client may be gone, and only the second write tells.
- The TCP client reconnects while two threads read from the stream.
- Three mutexes of the lobby are nested, two of them held over a sleep or a join.
- Answers to the page's requests overtake each other, and the channel that tells
  it to ask forgets what does not fit.
- A player who does nothing must lose the turn, and the next hand must start.

What makes each component correct is stated as the properties of section 4.

## 2. Modules

| module | what it is |
|---|---|
| `TableOps` | the struct as a record and every method of `Table` as an operator from one record to the next |
| `Table` | the abstract specification: a table under any sequence of calls |
| `WebTable` | the threads of `web.rs` around one table, one action for each critical section; implements `Table` |
| `SidePots` | the showdown from every table of a last round, and the rule of side pots stated chip by chip |
| `HandRank` | `evaluate`, `cmp`, `cards_used` and `cards_used_against` of `hand.rs` as operators |
| `TwoHands` | two hands that are compared, and the rules of poker stated for sets of five cards |
| `HandRules` | deals the two hands from a deck |
| `Cards` | the abstract specification of dealing, whatever the game: where a card may go and who may see it |
| `CardTable` | the deck and hands of the three games over `TableOps`: deals, draws, folds, showdowns; implements `Cards` |
| `SavedWallets` | wallets at the tables, in joins and in the database, with the threads that write them |
| `JoinedWallets` | players who join and the wallets they come with: what the database must give back |
| `SavedGames` | the statements that record games, rounds, players and winners, with their threads |
| `TcpTable` | the handlers and the monitor of one table of the TCP server over `TableOps`, with connections that end |
| `Registry` | the games that a `ServerManager` has registered, and the ports that serve them |
| `Lobby` | `ServerManager` and the lobby's handlers: three mutexes, ports, threads that start and stop |
| `TcpClient` | the three threads of the terminal client, and the server's threads at the other end of the stream |
| `BrowserClient` | the page, its requests in flight, the web socket, and the table as far as a page sees it |
| `MCTable`, `MCWebTable`, `MCHandRules`, `MCTcpTable`, `MCTcpClient`, `MCLobby`, `MCBrowserClient` | constants, symmetry and constraints for TLC |
| `MCShowdown` | `HandRules` and `SidePots` in one instance: a behaviour is one or the other, chosen at the start |
| `MCCards` | three instances of `CardTable`, one for each game, and `Cards` as what all of them implement |
| `MCDatabase` | `SavedGames` with and without faults, `JoinedWallets`, and two instances of `SavedWallets` |
| `TableLemmas` | the operators of `TableOps`: sums, types, rings and chips, one lemma for each operator and question |
| `TableSafety` | all invariants and action properties of `Table`, for any players, wallets, raises and games; what the database keeps of the wallets of any number of tables; side pots by levels are side pots by the chip |
| `WebSafety` | `WebTable` implements `Table`; its properties for one request at a time |
| `TcpSafety` | the rings of `TcpTable`, for any clients and connections; what the lobby lists is served |
| `CardSafety` | the invariants of `Cards` for any deck and any players |
| `DealSafety` | `CardTable` implements `Cards`: the theorems on cards for the three games, for any deck, players and chips; hands and board are complete in every round while the deck does not run out |
| `GamesSafety` | the record of `SavedGames`, for any threads, faults and restarts |
| `ClientAndHands` | the two parts that know of no table: the invariants of `TcpClient` for any set of games; the order of `HandRank`s, what `evaluate` finds and what is marked, for hands of any length |

`Table`, `WebTable`, `SidePots`, `CardTable` and `TcpTable` use the same
`TableOps`: a method of the table is written once. What abstracts from what:
`WebTable` implements `Table` (`ImplementsTable`), `CardTable` implements
`Cards` (`DealsCards`), `TcpTable` keeps the ring invariants of `Table`
(`RingsSound`). `SavedWallets`, `SavedGames` and `BrowserClient` have a table
reduced to what wallets, records and pages depend on, with every outcome that
`TableOps` can have for it.

**How the record of `TableOps` corresponds to the struct.** A node is known by
its player's id. `next[p]` is p's node's `next`, `None` if it is Rust's `None`
(the same for `prev`, `nextf` for `next_full`, `prevf` for `prev_full`);
`wallet`, `pbet`, `folded` are the player's; ids that are not seated have fixed
values in all of them. `confirmed` is `next_game_players`. Three fields are
abstractions:

- `clock` is `turn_started_at`: `"off"` for `None`, `"fresh"` for less than
  `TURN_TIMEOUT` ago, `"expired"` otherwise; `Tick` lets it expire.
- `showdown` keeps the winner shown.
- `health` tells what became of the mutex. `"ok"`: free between calls.
  `"selflock"`: a call waits for a mutex it holds. `"unwrap"`, `"overflow"`: a
  call panicked, and every later `lock().unwrap()` panics too. Once it is not
  `"ok"` no action on the table is possible.

**What the code leaves to chance** is a parameter of the operators: `order` is
the order in which the `HashMap` yields the players (`rebuild_full_ring` seats
them in it), `rank` the relative strength of the contenders' hands. The
actions choose both with `\E`. A player who joined during the hand has no
cards: their strength is below everybody's, except in Texas hold'em once there
are community cards, which count for them too. Ties in strength are not
modelled (`NoTies` shows that there are none between complete hands).

**How actions correspond to code.**

| `Table` | `lib.rs` |
|---|---|
| `Join` | `add_player_with_optional_stream` 174-209 |
| `Bet` | `raise` 215-233, `all_in` 235-256, `check` 258-279 |
| `FoldHand`, `Leave` | `fold` 282-324, `remove_player` 326-354 |
| `Advance` | `advance_turn` 537-587, with `round_action`, `finish_remaining_rounds` and `end_game` |
| `Start` | `start_game` 364-439, under the guard its caller evaluates under the same lock (`web.rs:159-163`) |
| `Expire` | `expire_timed_out_turn` 589-610 |
| `Tick` | the passing of `TURN_TIMEOUT` |
| `Confirm`, `Purge` | `keep_playing` 612-623, `remove_unconfirmed_players` 625-639 |

| `WebTable` | `web.rs` |
|---|---|
| `Gate`, `GameAction`, `Act`, `Advance` | the four critical sections of a bet, 441-480 |
| `Leave`, `Confirm`, `Join` | 429-439, 344-368 |
| `MonitorExpire`, `MonitorCount`, `MonitorShowdown`, `MonitorPurge`, `MonitorStart` | the loop of `new_web_table`, 133-167; the sleep of ten seconds is between `MonitorShowdown` and `MonitorPurge` |
| `Tick` | the passing of `TURN_TIMEOUT` |

`remove_unconfirmed_players` calls `remove_player` once for each player; no
hand runs then, and `RemoveUnconfirmed` is their effect together (one drop, one
rebuild in any order). A leaver's bet that is in the pot stays in the pot.

**Hands.** `HandRank` takes a card for what its byte is: value in the low four
bits, suit in the next two, and the bit for face up, which `evaluate` ignores
but the last tie-break of `cmp` sees. A `HandRank` is one record for all eleven
variants: the category, the values the variant names, its kickers, the sorted
cards. `Shows` is the list of `evaluate`'s tests in ascending order; the code
makes them in descending order and returns at the first that holds. Of
`cards_used` the set is kept, not the order. `Arranged` is what `sort_by` and
`filter` do, said without comparing step by step: an element's place is one more
than the number of elements that come before it.

**Cards.** `Deck::new` shuffles a `Vec` and `deal` splits off its end, so a card
is its position in the `Vec` and the deck is a number, `left`. In `CardTable`
every call of the table (`After`) is followed by what the game does in the same
call: the rounds passed are dealt in order, the players who left take their
hands along, the end of a hand shows the contenders' hands and then empties
them. `Draw` is `replace_cards` with any set of discards the code accepts;
`Aces` are the positions of the aces, on which the limit of four depends.
`seen` is a history variable: what a player's page has been sent since the
shuffle, by `to_stream`, `to_broadcast` and the showdown. Requests are whole
here; what happens between their critical sections is `WebTable`'s.

**Database.** A thread of `persist_player`, `delete_player` or `trigger_save` is
a record. `SavedGames` has them in a bag, `SavedWallets` in the sequence in which
they were spawned; any of them may be the next to run (with `Orderly`, only the
first). A stop of the server (`Stop`) takes the threads and the tables away. `delete_player` is two steps,
`save_game_state` a step for each statement (`SaveGame`, `SaveState`,
`SaveLink`, `SaveWinner`), each of which may fail and leave the rest undone or
done as the `?` and `if let` of the code have it. `Stored` and `Fetched` are the
casts from u64 to the i64 of the column and back, with `Word` for 2^64.
`held` (the wallets a player has had), `brought`, `won` and `sat` are histories;
`faulty` tells, in `SavedGames`, the behaviours in which statements fail, rows come
and go and the server stops from those in which nothing of the kind happens.

**TCP.** In `TcpTable` a handler is `"top"`, `"read"`, `"gate"`, `"game"`,
`"act"`, `"advance"` or `"drop"`, one action for each critical section of the
table's mutex. `conn[p]` is `"open"`, `"closed"` (the client's end is gone and
the next write still succeeds) or `"reset"` (writes fail); `stale[p]` is the
stream of an earlier connection that the node of a seated player still has.
`Writes` is what a step writes, the handler's own answers and `player_send`'s: of the
closed connections it writes to, any may be reset by the end of the step, and
a later write of the same step may fail already. `Disconnect` is
`handle_player_disconnect`; `TryRemove` has `remove_player`'s early return when
`fold` cannot write, which `FoldFails` says: on a connection that was reset
before, and on one that was closed if the fold ends the hand, as `end_game`
writes to every player (`lib.rs:517`) before `fold` answers (`lib.rs:323`). In `TcpClient` a command holds the stream from its write to
the return of a blocking read (`Write`, `Read`), and takes for its answer whatever
the read brings; `reconnect_to` is `Halt`, `JoinTcp`, `JoinUdp`, `Dial`,
`Connect`, `SetPort`, `SetGroup`, `StartListeners`. In `Lobby` a handler's work
under two nested mutexes is two steps, take and do.

**Page.** A request is sent, handled, answered and received (`Handle`, `Answer`,
`Receive`), and requests overtake each other at each step. `Refresh` is
`requestRefresh`, `Rendered` and `Kept` are `render` with `autoKeepPlaying`. A
session's channel and what is on its way to the page are one number.

## 3. Runs

| run | module | instance | shows |
|---|---|---|---|
| `table` | `MCTable` | 3 players, 3 chips, five card draw, release build, any order of calls | types, no self-lock, both rings, the pointers, no chips created, seat order kept, who may win |
| `web_sequential` | `MCWebTable` | 3 players, wallets of 1 and 3, raises of 1 and 2, Texas hold'em, one request at a time and the monitor | bets are taken in turn, the bettor is in the hand, nothing is left on the table between hands, chips are conserved |
| `web_races` | `MCWebTable` | 2 players, 2 racing requests, the fair monitor, time passes | every interleaving of the critical sections is a behaviour of `Table`; nobody keeps the turn; two seated players get a hand |
| `web_check` | `MCWebTable` | 2 players with 4 chips | violation: a check may be refused although it could be paid (section 6) |
| `showdown` | `MCShowdown` | five cards of ten in any order; seven of fourteen; two hands of five; pots of 4 players with bets to 3 and one dead chip | hands are ranked, marked and compared right; payment by sorted levels is payment chip by chip |
| `hand_kickers` | `MCHandRules` | a deck of 10, two hands of 5 | violation: the marked kickers do not decide (section 6) |
| `cards` | `MCCards` | the three games, 3 players, a deck of 18 | cards in one place, nothing hidden shown, complete hands in each round and at the showdown; the games implement `Cards` |
| `database` | `MCDatabase` | 2 players' wallets with threads in order and a restart, or in any order with faults; 3 players' game with faults and restarts, or 2 players' two games without | rows follow the tables, wallets come back, snapshots stay, records name the right players |
| `client` | `MCTcpClient` | the lobby and a game, connections refused, turns that expire | no half reconnection is seen, players listen, leaving ends |
| `tcp` | `MCTcpTable` | 2 clients with different commands, one whose connection closes, one whose is reset | rings and pointers stay sound, a player whose connection ends leaves the table or, where the answer to the fold cannot be written, the hand |
| `lobby` | `MCLobby` | 2 clients and a game that is registered; or one client and an owner who registers two games up to three times and shuts them down | waits for the mutexes end, clients know the games in the end, listed games are served |
| `page` | `MCBrowserClient` | a page and a rival, two hands, four moves of users, timeouts and failures together | the page shows what the table is, a page that confirms keeps its player |

**Bounds.** Three players are the least for which a ring has a member that is
neither neighbour of another, a leaver has two different neighbours, and a side
pot has two contenders; with two the code takes its two-player paths, which
three players reach by a fold. `MaxChips` bounds the chips that come to the
table: one chip and a raise of one make a player all in, a player without chips
stays at the table, and a wallet below the blind makes the blind's raise
refused. `web_sequential` has uneven wallets, so side pots and refused raises of
every kind occur. Five card draw, in `table`, `web_races` and `tcp`, is the game
with the ante and with `game_actions`. `MaxArrivals` bounds how often somebody
joins or connects. `OneLateCall` (in `MCTable`) explores on, between two hands,
from tables whose head or blind a fold has removed as long as no bet has come
late, and from tables on which one player's late bet lies; what other late calls
lead to is checked and not explored further.

The decks of `MCHandRules` hold cards of every category, a row of five at the low
and at the high end, and pairs, triples and fours around the ace; `order` bounds
the orders in which a hand's cards come, and is `any` for five cards. The deck of
18 in `cards` is as long as the longest hand with all draws; for seven card stud
and five card draw two players sit at a time, and a showdown is followed by a
start or by a purge of everybody (`NobodyConfirms`); in five card draw both bring
two chips, so that after the ante each still draws and bets. `WordSize` and `Word` stand
for 2^64: in the table's modules above all sums the instances reach, so that the
only wrap-around is the one of `check`'s subtraction; in `SavedWallets` 4 or 6,
so that wallets beyond an i64 occur. In `database`, `MaxThreads` is the number
of writes under way: two for racing ones, enough for any two to change places;
four in order, an end of a hand with the bets before it. `FewChips` keeps the
racing part to two chips, `FewGames` the games to one of three players with faults
and to two of two without. `MaxInbox` bounds what the server adds unasked to a
stream. `Stays` (in `MCLobby`) keeps the client connected in the part in which
tables come and go; the liveness properties of that run are about the other part.
`Backlog` is 1 for the channel's 128: what matters is that it overflows. In `tcp` two
connections are made in all, one by each client, with hands between the two, or
two by one client, who finds the node of the first still at the table.

Players are interchangeable and so are requests: symmetry sets are used in runs
of safety properties only. The parts of `MCShowdown`, `MCCards`, `MCDatabase` and
of `MCLobby` (`limits`) never change after the initial state, so each is checked
as if it were alone.

**Fairness**, and why the code justifies it:

- `WebTable`: the monitor goes on with its loop as long as it can take the
  table's mutex, and time passes. Nothing is assumed of players or requests.
- `TcpTable`: a handler that can go on does (weakly), and a handler that reads
  again and again from a stream that ended finds out (strongly: its read comes
  back every second, between steps of others on the table).
- `TcpClient`: the server answers; each of the client's three threads gets the
  stream's mutex if that is free again and again. Strong, as a listener's poll
  lets go of the mutex all the time. Nothing is assumed of the user, the turn or
  the network.
- `Lobby`: threads go on; waiting for one of the mutexes is strong. `std`'s
  `Mutex` promises no order, so `Served` says that the locks are taken in one
  order, and not that nobody is unlucky.
- `BrowserClient`: requests are answered or fail, the timer of ten seconds goes
  on, sockets are read and opened again. Strong for requests and the timer,
  since other messages of the same page come in between.

**Deadlock** is checked in the runs of `Table`, `WebTable`'s, `Cards` and the
page. The others say `CHECK_DEADLOCK FALSE` because the system there really
stops: hands are dealt and pots paid once; databases are at rest when the
bounded hands are played; a client may wait for an answer that nobody sends; a
handler may have locked the table it holds; the owner may wait for ever or have
panicked (section 6).

## 4. Properties

`Table`, for any order of calls: `NeverWedged` (no call hangs on a mutex it
holds, none panics but for the overflow in `check`), `RingConsistent`, `OneRing`
(the hand's ring is one doubly linked cycle of seated players who have not
folded, and exists exactly while a hand runs), `NoDanglingPointer`,
`ChipsNeverCreated`, `OnlyContendersWin` (and the winner shown was dealt in,
except in hold'em), `SeatOrderKept` (during a hand the ring only loses members,
one a step).

`WebTable`, with one request at a time (two in flight do produce late bets and
turns that are skipped): `ActsInTurn`, `BettorInHand`, `RestIsClean`,
`ChipsConserved`. With racing requests: `ImplementsTable` (the table of `WebTable` is
that of `Table`, and its threads, its monitor and the bound on arrivals are
forgotten); and under fairness `TurnMoves`, `HandStarts`.

`TwoHands`: `RankedRight` (five cards are what the rules say; seven at most what
the best five of them are; the code does underrate a flush of five of seven, a
full house of two triples, the low ace among more than five cards),
`UsedCardsMakeTheHand` (the cards that are marked are by themselves what the hand was
taken for), `BetterHandWins` (of two hands of five), `MarksTellApart` (of two hands of
one length: else the kickers of one may be the first of the other's, and the same
cards are marked), `NoTies`.
`SidePots`: `PaysByTheChip`.

`Cards`: `NoCardTwice`, `Secret` (what a player's pages have shown since the
shuffle tells of no card in the deck and of no hidden card in another hand).
`CardTable`: `HandsMatchRound` (in every round the hands in the ring and the board
have as many cards as the rules of the game give, `InHand` and `OnBoard`),
`ShowdownIsComplete` (also after an all-in that
leaves rounds over), and `DealsCards`, the refinement of `Cards`.

`SavedWallets`: `RowsFollowTables` (with threads in order the rows never hold more
chips than were brought, at whichever write the server stops, and agree with the
tables once the threads have run: `NoChipsMinted` and `Settled`). `JoinedWallets`:
`WalletComesBack` (in any order and with any failure, a player joins with a wallet
that was once theirs). `SavedGames`:
`RoundsKept`, `GamesRecorded` (the winner on record is that game's, and is there
if nothing failed, whatever the order; a game is linked only to players who sat
in it).

`TcpClient`: `OneServer`, `Listening`, `LeaveLeaves`. `TcpTable`: `RingsSound`,
`LeaverIsOut` (a joined player whose connection ends is off the table once the
handler is gone; where the connection is reset, out of the hand). `Registry`:
`ListedIsServed`. `Lobby`: `Served`, `ListsConverge`. `BrowserClient`: `ShowsLatest`,
`KeptIfShown`.

## 5. Proofs

| module | theorems that state a property of a run | for every value of |
|---|---|---|
| `TableSafety` | `TypeCorrect`, `Unwedged`, `RingStaysConsistent`, `RingStaysOne`, `PointersStaySeated`, `RingKeepsOrder`, `OnlyContendersPaid`, `NoChipsCreated` | ids, seats, wallets, raises, the blind, the three games, both build profiles |
| | `WalletsComeBack`; `RowsFollowInOrder` (what `RowsFollowTables` says of the part in order) | tables, players, wallets, threads; the first in any order and with any failure |
| | `PotsFollowTheRule` (`PaysByTheChip`) | players, bets, folds, late comers, chips of those who left |
| `WebSafety` | `WebImplementsTable`; with one request at a time `BetsAreInTurn`, `BettorStaysInHand`, `HandsLeaveNothing`, `ChipsStay` | the same, and the number of requests and arrivals |
| `TcpSafety` | `TcpRingsSound`; `ListedGamesServed` | the same, and each client's commands and connection; clients, games and registrations of the lobby |
| `CardSafety` | `CardsInOnePlace`, `HandsStaySecret` | players and the length of the deck |
| `DealSafety` | `GamesDealCards` (`CardTable` implements `Cards`, as `DealsCards` says of the three instances), and with it `DealtInOnePlace`, `DealtHandsStaySecret` | ids, seats, the deck, wallets, raises, the three games |
| | `HandsComplete` (`HandsMatchRound`), `ShowdownsComplete` (`ShowdownIsComplete`): while the deck does not run out; `LongDecksSuffice`: for hold'em and stud it does not | the same |
| `GamesSafety` | `RecordsAreRight`, and `RoundsStay` | players, rounds, games, threads; with faults and without |
| `ClientAndHands` | `NobodySeesHalfAReconnection`, `PlayersListen` | the set of games, the size of the inbox |
| | `HandsNeverTie`; with it `RanksAreOrdered` (`cmp` is a strict total order of ranks) and `DistinctHandsNeverTie` (also for hands that share the board) | decks of bytes, hands of one to seven cards |
| | `HandsRankedRight` (`RankedRight`), `TheBetterHandWins` (`BetterHandWins`); with them `HandsAreRankedRight` and `BetterHandsWin`, of any hands of five cards or more and of five | decks that have each card once, as `Deck::new` makes them |
| | `UsedCardsMakeTheirHand` (`UsedCardsMakeTheHand`), `MarksTellHandsApart` (`MarksTellApart`); with them `UsedCardsAreTheHand` and `KickersTellApart`, of any hands | the same, hands of one to seven cards |

**Assumptions.** `IdsAssumption` (finitely many ids, `None` is not one),
`GameAssumption`, `NumberAssumption`; `ChipsAssumption` and `WebAssumption`
(wallets and raises are numbers, and `MaxChips < WordSize`: all the chips at a
table together fit a u64); `TcpAssumption`; `DeckAssumption`;
`PlacesAssumption`; `GamesAssumption` (`MaxGames` is a number, `None` is nobody).
TLC evaluates them in each run. `Sizes` (the deck's length, wallets and raises are
numbers: a `Vec` and u64s) is a hypothesis of `DealSafety`'s theorems, and true in the
run `cards`. `LongDeck` is one of `LongDecksSuffice` alone: five seats take 15 cards
in hold'em and 35 in stud, of 52; in five card draw there is no such number, as the
turn comes back and each turn may draw, so there `HandsComplete` is what holds. The
tables are finitely many in `RowsFollowInOrder` (a `HashMap`); a card is a byte
and a hand has one to seven in `HandsNeverTie` (`DealsAssumption`),
and has one of thirteen values, no two cards of a deck being the same, in
`HandsRankedRight`, `TheBetterHandWins`, `UsedCardsMakeTheirHand` and
`MarksTellHandsApart` (`CardsAssumption`: what `Deck::new` makes); the bounds of
`SidePots` on bets and dead chips are numbers. `OneAtATime` (two requests in flight are one and
the same) is a hypothesis of theorems; it is true in the run `web_sequential`, and
with two requests the four properties that need it are false: a late bet of a
second request is taken in another hand.

**Sums.** `TableLemmas` begins with what the library does not have for
`SumFunctionOnSet`: a sum is a number, is the sum of its parts, adds up term by
term, is monotone. An induction over finite sets would instantiate a theorem with
an operator for a parameter, so each proof takes a least counterexample (`Least`,
from `WFMin`) and removes one element.

**Rings and pointers.** None of `NeverWedged`, `RingConsistent`, `OneRing` and
`NoDanglingPointer` is inductive alone. That `fold` and `advance_turn` do not
lock a node twice needs a ring without loops of one. That a fold keeps the ring
consistent, on its way to one player, needs `end_game` to find a winner, that is,
that the ring's members are contenders. That a start makes a ring without loops
needs the full ring to be one cycle and two players to be counted, the guard of
the caller. That `add_player`'s unwrap is safe needs the head to be seated and
linked, which a leave or a purge can break only if pointers dangle. And that a
purge, which drops players without a fold, leaves the hand's ring alone needs
that no hand runs while a showdown is shown: `HandOpen`. `Sound` is their
conjunction with the types, and there is one lemma for each operator
(`FoldSound`, `RemoveSound`, `AddPlayerSound`, `StartGameSound`,
`AdvanceTurnSound`, ...). One cycle (`OneCycle`) is said without counting steps:
no proper part of the ring is closed under `next`, so that a fold keeps it
(a closed part of what is left, with the folded player or without, was closed
before) and no induction along the ring is needed. `AlwaysSound` has one step for
each action; `SeatOrderKept` follows from it since every operator leaves `next`
alone or is `NextWithout` one player.

**Chips.** The pots of all levels together are the bets (`PotsAreBets`, by the
level at which the sums differ first), so `pay_showdown_pots` pays the larger of
the pot and what the contenders could win of the bets (`PaidOut`), never more than
`Chips`, which counts the larger of pot and bets. The subtraction of `check` wraps
around only if the difference is negative, and is then refused: it would be more
than any wallet, as all chips at the table are less than `WordSize`. `Within` is
the invariant that says so, with the wallets and bets of ids that are not seated
at zero, so that a newcomer brings nothing but the wallet (`AlwaysWithin`). Exact
conservation (`ChipsStay`) also needs that the pot covers the bets, which a late
bet breaks: a bet outside a hand stays in `pbet` when the next start empties the
pot.

**Side pots.** The code sorts the bets into levels; the rule knows no levels, only
chips. Each chip lies in the span of exactly one level, from the level below to
it (`SpanExists`, `SpansApart`), and whoever bet a chip of a span bet all of it
(`SpanBettors`): a pot is so the number of players at each chip, summed over the
span, and the pots of any set of levels are a sum over chips (`PotsAreChips`).
Strengths differ, so the best contender at a level is who wins its chips
(`BestIs`, `LayersWon`), and the levels that nobody wins are the chips that nobody
wins (`LayersLost`).

**The web server.** `WebTableSound` carries `Sound` through every interleaving of
the critical sections. `WebImplementsTable` is the refinement: the initial states
map to initial states, and each action is, for the call it makes, a step of
`Table` with `Table`'s guard (`ActIsCall`, `AdvanceIsCall`, `MonitorIsCall`), or
leaves the table alone (`StepIsCall`). `T!Fold` and the others are the instance's
operators; the lemmas `Same...` show that they are those of `WebTable`. What
`TableSafety` proves so holds of the web server however requests race.
`SequentialInv` adds, for one request at a time, `InTurn` (the player of a request
past the turn check has the turn or is gone: of the monitor's sections only the
timeout moves the turn, and it removes that player) and `Tidy` (nothing of a hand
is left when it is over, the bettor is in it while it lasts).

**The TCP server.** A handler may lock its table for ever, with a fold half
answered; `TableSound` says that the table is sound, or a sound one with
`health = "selflock"`. `HandlerOK` gives a handler past its read a command. From
them `RingsSound` follows for streams that break at any moment, although
`remove_player` stops after the fold and `handle_player_disconnect` goes on.

**Cards.** `Secret` needs that a card is in one place, that a showdown is shown
only while no hand runs (`EitherOr`), and that without a hand nobody has cards
(`Idle`); `IInv` is their conjunction, short decks included.

`DealSafety` carries both to the three games: `CardTable` implements `Cards`. A
round deals to the ring along `next` from the turn, and the model gives a player
the cards at the player's distance. So the first fact is that those distances
number the ring 0, 1, ... without gap or repetition (`Places`): it needs `Sound`,
as a ring that is two cycles, or that points at one who left, would deal a card
twice or to nobody. Then the shares of a round follow one another off the top of the deck
(`Shares`), a round is a deal of `Cards` (`DealRoundDeals`), and so are the
rounds that `finish_remaining_rounds` deals at once (`DealRoundsDeals`, by the
least round that is not), since two deals in a row are one (`DealsThen`) and a
deal with the hands of those who left dropped still is one (`DealsHandsOf`).
`AfterMoves` reads what a call did to the table (a hand starts, goes on, ends, or
is not there) as the step of `Cards` it makes; each operator has a lemma that says
which (`BetPlay`, `FoldPlay`, `RemovePlay`, `AdvanceTurnPlay`, ...). A call and the
`advance_turn` that follows it are together one step, as the first deals nothing
that the second does not (`TwoCalls`), and a draw deals by itself (`DrawMoves`),
also when it panics on an empty deck and leaves the cards as they were. The
invariant, `StateOK`, has the table sound, no card of the deck in a hand, hands
only in a hand, and a showdown only after one.

**Complete hands.** `Complete` adds how many cards there are. That the hands match
the round as long as the deck is not empty is not inductive: a deal from a deck
that holds one card too few leaves somebody without and the deck empty. So `Full` says that the hands match *unless* the deck ran out, that
the board is off the deck, and, for a deck that is long enough, that what is left
covers what full seats have not been dealt (`Spent`), whoever folds or leaves.
`RoundFull` is one round, for the distances of `Places`: the shares do not
overlap, so a round that leaves a card had one for everybody. `AllDealtFull` is
all the rounds that an all-in deals at once, by the least round that is not
(`Shows`, `Final`: the step to the showdown, in which hands are shown and emptied).
Each request has its lemma, and `StepComplete` joins them.

**Games on record.** `GamesInv` says of every thread under way what it carries
(`ThreadOK`: players that sat at the table of its game, the winner of that game or
none, and without faults a game that is on record once the first statement ran),
that the game under way has no winner and later ones have nothing (`HandOpen`),
and that without faults a winner not on record is in the hands of a thread
(`OnItsWay`). So a thread that runs late, when the next hand is dealt or the
winner is gone, writes the truth; and with no thread left nothing is on its way.
One lemma, `ThreadKeeps`, serves all the statements; `SaveKeeps` all the calls.

**Wallets in the database.** `WalletsComeBack` needs that every wallet at a table,
in a join, in a thread or in a row has been its player's (`WalletsKept`,
`WalletsHeld`), and that the casts to the column and back return it
(`StoredBack`): no order of threads and no failure can then bring anything else.

`RowsFollowInOrder` is about what comes next. `IsCall` is what every call of a
table does, however many threads it spawns: it seats nobody, brings no chips,
writes the wallet of whoever stays if it changed, and there is a *course*, a value of all rows
before and after each of its threads, that begins with the wallets as they were,
ends with those as they are, and is never worth more than what the table held.
Two calls in a row are a call (`CallThen`), and the methods are (the threads of
`end_game`, which pays the winners one write after the other, are a fold over a
sequence). The
invariant, `RowsFollow`, has such a course for all the threads under way
(`Backs`): a spawned thread extends it, a thread that runs takes its first step
away, and a join, which reads and writes its row itself, edits one player's part of
it at all places alike, as no thread of that player is under way (`OnePlace`,
`RowsWritten`). Wherever a stop of the server cuts the course, the rows are worth no
more than it says there; what is left is `Empty`, from which all of it holds again.

**Lobby.** `OwnerKnows`: between `bind` and insertion the owner's port is bound
and no other game's; a thread is told to stop only while the owner waits for it,
and then its game has left the list.

**Client.** The invariant says, for each place of the main thread on its way
through `reconnect_to`, which of the listeners have ended; `OneServer` then holds
because between `Connect` and `SetGroup` there is nobody to see the stream and the
port disagree.

**Hands.** `cmp` compares a category, lists of values and lists of cards, one after
the other. Each of these comparisons decides at the first place that differs
(`VecOrder`, `FirstPartDecides`), and is transitive (`VecTransitive`); so is their
sequence, `RanksAreOrdered`. The last part is the sorted cards, and sorting loses
none: the places that `Arranged` gives are a bijection (`ArrangedElements`), so
the cards of a rank are the cards of its hand (`RankCards`). Hands that are not
the same set of bytes so differ in some part, whatever `evaluate` makes of them:
`DistinctHandsNeverTie`. Two hands of one deck have no card in common, which is
`HandsNeverTie`; those of hold'em have the board in common and differ in their own
two cards.

**Ranking.** What `evaluate` counts along a sequence, the rules say of a set, so the
first step is that the two count alike: no card comes twice, so a value occurs as
often in the hand as in the set of its cards (`HandCards`), and `ByCount` has each
value once, none before one that occurs more often (`ByCountOrder`, from the
places that `Arranged` gives; `MostCounts`). A flush, tested on neighbours, is one
suit (`FlushOfFive`); `check_straight` finds a row that is there, and among five
cards the only one (`StraightSeen`, `OneStraight`). `Seen` and `Fits` then say each
of the ten tests in the same words for a hand and for a set.

That five cards have no other shapes than the seven of poker is arithmetic: the
five are enumerated (`FiveCards`), and a case split on which are equal
(`FiveNumbers`) gives `Shapes`: the sum of squares that `Shape` counts tells how
often the two most frequent values occur, and no three values can occur more than
five times together. `RankNotAbove` exhibits five cards of the hand that make what
`evaluate` says; `RankNotBelow` is for five only, as more cards can be underrated.

Within a category, `CountsMade` and `RowsMade` write down what the rules and
`evaluate` name: no pair in a flush or a straight (`FlushHasNoPair`,
`StraightHasNoPair`), one value or two otherwise, those of two pairs sorted
(`TwoDescending`). Sets of one or two numbers then compare as the lists do
(`OneLess`, `TwoLess`, `MadeDecides`), and `FirstPartDecides` ends `BetterHandsWin`.

**Marked cards.** Some cards of a hand, in its order, are again a hand, of as many cards
as they are (`KeptCards`). So what `cards_used` marks can be evaluated: all the cards of
one value or of two (`CountedCards`), from which nothing else can be counted
(`CountedAlone`, `CountedPairsAlone`); five cards of a row, the first of each value
(`StraightTaken`, `StraightUsed`); the five highest of one suit (`HighestTaken`).
What those are alone is at least what the whole hand was, `UsedCardsAreTheHand`.

The kickers of a rank are the values of the cards that it does not mark first
(`KickersLeft`), as many in two hands of one length and rank (`MarkedAlike`), and the
needed ones go up to the first that differs (`NeededToDiffer`). For each of them that
is no ace `add_kickers` finds another card of that value (`KickersMarked`, `FreeCards`).
So up to the last needed kicker the two hands are marked alike, and there one has a
value once more than the other: at that value of the two that is no ace the marks
differ, `KickersTellApart`.

**Only model-checked.** Liveness, under whatever fairness (`TurnMoves`,
`HandStarts`, `LeaverIsOut`, `LeaveLeaves`, `Served`, `ListsConverge`,
`ShowsLatest`, `KeptIfShown`): out of the prover's reach. `HandsMatchRound`, `ShowdownIsComplete`, `DealsCards`,
`RowsFollowTables` and `PaysByTheChip` are checked in modules that choose between
instances; the theorems named above prove what they say of each.

## 6. Where code, comments and each other disagree

`raise` sets the table's bet to the raiser's own bet even when that is below the
current bet (`lib.rs:227`). A player who had bet more and then checks is refused
for lack of funds, as `self.bet - player.bet` wraps around (`lib.rs:268-270`);
in a debug build, which `cargo run` makes, the subtraction panics with the
table's mutex held. A test says of a check that it "matches the current bet"
(`Server/tests/table_unit.rs:320`). Run `web_check` is the shortest such game.

`compare_values` compares kickers from the last to the first (`hand.rs:41`),
in the order in which they were dealt; `cards_used_against` marks them from the
first to the first that differs, and a test calls those the "only needed
kickers" (`Poker/tests/hand.rs:44`). Run `hand_kickers` finds a pair of twos with
K-10-8 that beats a pair of twos with K-Q-7, while the table marks K-10 and K-Q.
High cards and flushes, which are sorted, are so compared from the lowest.

Met while modelling; the models have these behaviours, and the properties say
where they are excused:

- An ace is 14 in a pair and 1 among the kickers, where it is the lowest, and
  `add_kickers` looks for a card of value 1 where an ace has 14 (`hand.rs:129`): an ace
  that decides is not marked. `MarksTellApart` holds by the other hand's kicker.
- Two requests of one player in flight can advance the turn twice; so can a TCP
  handler that moves the turn on by what it read a second ago
  (`clienthandler.rs:62`).
- A player whose raise is refused becomes the bettor all the same, so a betting
  round need not end (`lib.rs:219`).
- A page confirms a showdown only if it saw the hand (`app.js:148-162`); a player
  who came for its end is purged, and the page goes on saying that it joined,
  as `refresh` never looks at `state.me` (`app.js:297`).
- A player whom a timeout removed gets no answer to UPDATE
  (`clienthandler.rs:162-169`); the client's listener waits for one with the
  stream's mutex, and the client cannot leave (`LeaveLeaves` excuses it).
- The client never answers PING (`clienthandler.rs:15`), so who thinks for half a
  minute loses the seat.
- After a refused reconnection the client shows the lobby's menu while connected
  to the game (`main.rs:79`), and may take a late answer for the next one.
- `remove_player` gives up when `fold` cannot write (`lib.rs:328`), so the player
  stays seated without a handler. That needs no failure: when one of two players
  closes the connection during a hand, the fold ends the hand, `end_game` writes
  to the closed connection (`lib.rs:517`), which resets it, and `fold`'s own write
  (`lib.rs:323`) may fail. The player is dealt into later hands, where
  `expire_timed_out_turn` folds for the one who is not there but never gets to
  remove the seat. A handler that cannot write to a player who has just joined
  (`clienthandler.rs:382`) leaves one like it.
- A handler whose answer to `game_actions` cannot be written locks the table it
  holds (`clienthandler.rs:178-196`). `LeaverIsOut` excuses this and says of the
  seat that is kept that its player is out of the hand.
- `shutdown_game` joins a thread that waits for a connection, with the tables'
  mutex in hand (`servermanager.rs:180`); after a shutdown `register_game` may
  count to a port in use and panic (`servermanager.rs:124`).

## 7. What is not modelled, and the plan

- Names, wording, drawing, parsing of cards in the clients: output. Snapshots and
  broadcasts are modelled as far as `Cards`, `SavedGames` and the page need them.
- The routes and the session cookie of the web server: a page is its player. The
  LEAVE that a page sends when it is unloaded. Showdowns of different hands with
  the same winner, players and round, for which `app.js:158` makes one key: in
  `BrowserClient` they differ.
- The DEBUG_ commands of the TCP handler, which call `start_game`, `advance_turn`
  or `end_game` at any moment; two live TCP connections of one player id; and the
  table's cards over TCP, which are those of `CardTable`.
- A second web table in one process: tables share the database only, which
  `SavedWallets` has for any set of tables.
- Reading the environment and the flags of the processes: no state.

What would come next: the same of hands of seven, of which `evaluate` is right only
in some: where it underrates a flush, a full house or the low ace, `BetterHandWins`
would need the hands that it ranks as the rules do said in terms of their cards.
