# A verification of the Social Gaming server

This directory holds TLA+ models of the game server of this repository, the TLC
configurations that check them on small instances, and TLAPS proofs. Each module
is translated from the source under `src/`; the tables below say which part of the
source each definition stands for, and `PROJECT.json` gives the lines.

To run a configuration: `tlc -workers 2 -config Channel_main.cfg Channel.tla`. To
check the proofs: `tlapm ChannelProofs.tla`, and so for the other modules named `Proofs`.

## 1. The system

A *game server* (`src/tools/gameserver`) listens on a port. A browser fetches a page
from it, opens a websocket whose path is an invite code, and sends and receives
lines of text. People with the same code are in the same *session*, or lobby. The
one who came first owns it and starts a game from a list of JSON configurations;
the game runs in a thread of its own, which sends prompts to the players and polls
for their answers, while the main thread goes on to serve the other sessions.

### Components

| component | where | state | operations | model |
|---|---|---|---|---|
| Channel | `lib/networking/src/Server.cpp` 74-204, 345-430 | `writeBuffer`, `readBuffer`, `disconnected`, the asio operations outstanding, the map `channels`, the mutex `lock` | handshake, `send`, `afterWrite`, `readMessage`, `receive`, `disconnect` | `Channel`, `TextPipe`, `ChannelProofs` |
| Lobby | `tools/gameserver/gameserver.cpp` | `gameSessions`, `sessionMap`; per session `players`, `game_owner`, `configuration`, `detached`, `game_state` | `onConnect`, `onDisconnect`, the pass of the main loop, the commands `/username`, `/quit`, `/shutdown`, `/start`, `GameSession::start`, the game thread | `Lobby`, `Rooms`, `MCLobby`, `LobbyProofs`, `RoomsProofs`, `GamesProofs` |
| HTTP sessions | `Server.cpp` 210-337, 345-359 | the socket, the request read, the asio operations outstanding | `start`, `handleRequest`, the upgrade to a websocket, `listenForConnections` | `Http`, `Web`, `WebProofs` |
| Client | `lib/networking/src/Client.cpp`, `tools/gameclient` | `writeBuffer`, `incomingMessage`, `isClosed`, `done` | `connect`, `handshake`, `readMessage`, `send`, `receive`, `update`, the main loop | `Client`, `Web`, `WebProofs` |
| Rule scheduler | `lib/translator/translator.cpp` 107-148, 551-844, 983-1042, `translator.h` | per rule and world: position in the list, the element a `foreach` is at, timers, the suspended rules of a parallel rule | `RuleList::run`, `foreach`, `loop`, `when`, `switch`, `inparallel`, `parallelfor`, `timer` | `Scheduler`, `Strands`, `MCScheduler`, `SchedulerProofs` |
| Setup and inputs | `translator.cpp` 150-436, 1044-1282 | what is awaited, the clocks, the votes, the configuration they share | the prompts of the setup, `input-choice`, `input-text`, `input-vote` | `Players`, `Setup`, `Inputs`, `Survey`, `MCInputs`, `InputsProofs` |
| Lists | `translator.cpp` 865-942, 983-1037, 1284-1318 | the lists of a game, the buffers they are in | `extend`, `reverse`, `shuffle`, `sort`, `discard`, `deal`, `add`, with `when` and `foreach` around them | `Lists`, `MCLists`, `ListsProofs` |
| Variables | `lib/translator/variables.cpp` | the tree of lists, maps and values; the `thread_local` temporary of `Getter` | queries, conditions, comparison | partly, in `Lists` |

What is not modelled, and why, is in section 6.

### How they interact

- The **main thread** alternates `Server::update`, which runs the handlers of asio
  that are ready (new connections, reads, writes, losses), and one pass over the
  sessions. A handler calls `onConnect` or `onDisconnect` of the game server; so the
  two never interleave with a pass, but with the game threads.
- A **game thread** is started by `/start` and ends by itself. It calls
  `Server::send` and `Server::receive`, reads the session's `players`, and writes
  `detached`.
- `Server::lock` protects `channels` and the calls of `send`, `receive` and
  `disconnect`. It does *not* protect the handlers (`afterWrite`, `readMessage`), nor
  anything of the lobby: `players`, `detached`, `gameSessions` and `sessionMap` are
  shared without a lock.
- `Server::disconnect` releases the lock while it calls `onDisconnect` and takes it
  again.
- The rules of a game run in the game thread; a rule that waits for an input either
  polls with a deadline or, in the setup and in `input-vote`, without one. Inside a
  parallel rule it suspends by a callback instead and is resumed later.

### What is hard, and what makes each part correct

- *Channel.* Two threads use the queue of one websocket, and only one of them takes
  the lock. Correct: at most one write is outstanding; each text is written once, in
  order; no text is left in the queue with nobody to write it; the same for reading.
  Reads and writes of one channel may both fail, after it was closed too.
- *Lobby.* Three records say who is where (`channels`, `sessionMap`, `players`), and
  five paths change them (connect, lost connection, `/quit`, `/shutdown`, the end of
  a session) beside running game threads. Correct: the records agree at every step; a
  code finds one session; a session is not destroyed under its game, and comes back
  from it; nobody waits for ever.
- *HTTP sessions, Client.* The handlers of asio start the next operation; they must
  form one chain, which ends when the socket is shut down or moved. What the client
  pops must not be written still; it must notice that the connection is lost.
- *Scheduler.* A suspended rule must be resumed where it stopped, in its own world,
  with its deadline kept, once. A parallel rule ends when all its branches have ended.
- *Inputs.* An answer must be a legal one, of the player who was asked, stored for that
  player and once, while players go and addresses are given to others; every question
  must end.
- *Lists, Variables.* An element may be an address, a list that grows moves, and the
  result of a query is overwritten by the next: nothing may outlive what it points to.

`PROJECT.json` lists these hazards at their lines, each with the properties that
would catch it, or a note.

## 2. The modules

### TextPipe, Channel

`TextPipe` is the promise of one direction of a connection: `delivered` is always a
prefix of `accepted`, and grows by one text at a time.

`Channel` is one websocket of the server, with the part of `Server` that opens, uses
and closes it. The correspondence:

| TLA+ | C++ |
|---|---|
| `phase` | `accepting`, `refused`: `Channel::start`; `open`: in `channels`; `handling`: `Server::disconnect` has released the lock for `onDisconnect`; `closing`: `Channel::disconnect`; `closed`: erased |
| `lock` | the holder of `Server::lock` |
| `step[t]` | `pushed`: between `push_back` and the look at the size in `send`; `popped`: between `pop_front` and the look at the queue in `afterWrite`; `queueing`, `exposed`: inside `push_back` in the handler of `readMessage`; `taking`: between `front` and `pop_front` in `receive` |
| `writing`, `reading` | the operations given to asio and not completed |
| `Push`, `ChainSend`, `StartWrite` | `Channel::send` under the lock |
| `CompleteWrite`, `ContinueWrite`, `ChainEnds`, `WriteFails`, `WriteAborted` | the handler `afterWrite`, without the lock |
| `ReadArrives`, `StoreText`, `FillPlace`, `ReadFails`, `ReadAborted` | the handler of `readMessage`, without the lock |
| `TakeFront`, `PopFront` | `Server::receive`, under the lock |
| `HandlerReturns`, `LobbyDisconnect`, `Erase` | `Server::disconnect` |

`send` and `afterWrite` are cut in two between the change of the queue and the look at
it. On the other side the handler of a read appends to `readBuffer` without the lock that
`receive` holds when it takes from it, so both are cut inside the operation on the deque.
The race is undefined behaviour; the outcome modelled is the mildest one, which needs
nothing but that the two stores of `push_back` (the text and the new end) are seen in
another order by the other thread, as a compiler and many processors are free to do. In
`queueing` the text is stored first and the end is not visible yet; in `exposed` the end is, and
the last place is `Unwritten`; `FillPlace` finds the place gone when somebody has taken it.
`writeBuffer` has the same race, between `push_back` in `send` and `pop_front` in
`afterWrite`. There each operation on the deque is one step, so what is said of several
threads that send is about the looks they take at the queue, and holds for a deque that is
not itself torn. `sent`, `wire`, `arrived` and `received` are history variables.

`Lobby`, `Players` and `Web` build on a channel whose queues keep their promise, which
`Channel` shows for the main thread alone; what a torn deque would do to a game is not
followed there.

### Rooms, Lobby

`Rooms` is the promise of the lobby: a code names a room; whoever comes with the code
of a room with somebody in it joins it, anybody else opens it and owns it; nobody is
moved; one leaves alone, or with all when the owner closes the room.

`Lobby` is the whole of `gameserver.cpp` with the game threads:

| TLA+ | C++ |
|---|---|
| `channels`, `inbox[c]` | `ServerImpl::channels`, `Channel::readBuffer` |
| `gameSessions`, `sessionMap`, `owner`, `code`, `players`, `configuration`, `detached` | the variables and members of the same names (`owner` is `game_owner`, `code` is `invite_code`) |
| `at`, `index`, `stop`, `todo`, `buffer` | the main thread: where it is, the range-based `for` (its position and its end, which is computed once), the players still to be heard, the texts collected |
| `game[t]` | a game thread: spawned, playing, asking, telling |
| `CreateSession`, `JoinSession` | `onConnect` |
| `LosePlayer`, `LoseLastPlayer`, `StopWaiting` | `Server::disconnect` with `onDisconnect` |
| `BeginPass` ... `EndPass`, `Hear...`, `Handle...`, `Broadcast`, `Dissolve` | the main loop, one action per text that is handled |
| `Detach`, `Ask`, `TakeAnswer`, `TimeUp`, `LoseContact`, `EndGame`, `PickToTell`, `Tell`, `TellNobody`, `HandBack` | the lambda of `GameSession::start` |

A connection is the address of a `Channel` and a session the address of a
`GameSession`; both are used again after they are freed, as an allocator does. What
the texts say is abstracted to the test that recognises them. `/select` only sends
an answer and is one of the "other" commands. What is sent has no effect
on the state, except that `Server::send` and `receive` throw when the connection is
not registered. The inside of a game is any sequence of asking one of the players
it talks to, being answered, timing out and ending.

`detached` is written by one thread and read by another without synchronisation. The
models take such a read to return the last value written; the other outcomes the
language allows are not modelled.

### Strands, Scheduler

`Strands` is what the rules of a game promise: every branch of a parallel rule is a
strand, a stack of rules with the position of what each does next; strands run in any
order, a parallel rule forks one per branch and waits for all, a timer may cut off what is
inside it. Nothing is suspended there.

`Scheduler` is how the translator does this in one thread:

| TLA+ | C++ |
|---|---|
| `stack` | the calls of `Rule::run`; a frame holds the local variables of a parallel rule (`todo`, `round`: what its inner loop has still to visit, `turn`) and the world of the state the call has a reference to (`home`) |
| `callbacks`, `world`, `ruleStates`, `lastRun` | `GameState::callbacks`, `parallel_world_number`, `rule_states` (with the iterator of `RuleListState` and `ForEachState`), `ParallelRulesState::last_run` |
| `clock` | the `Timer` in a `TimerRuleState` |
| `Iterate`, `EndIterate` | the loops of `RuleList::run` and `ForEachRule::run` |
| `LoopAgain`, `LoopEnd`, `ChooseCase`, `Perform`, `Poll`, `InputEnds` | the other rules |
| `CheckPasses`, `Suspend`, `CutOff`, `CheckCrashes` | `checkCallbacks`, and what the rule does with the result |
| `StartTimer` ... `EndPadding` | the three timers |
| `Fork`, `TakeTurn`, `EndTurn`, `Join` | `InParallelRule::run` and `ParallelForRule::run` |

Conditions, cases and answers are free choices, and time may pass at any step. A branch of
`parallelfor` is its first rule, since the code runs no other. The refinement mapping
`StackOf` puts the strand of a branch together again from three places: what is in the
`todo` of its parallel rule, the calls under way, and what has been suspended in this
turn (`last_run`, backwards).

### Players, Setup, Survey, Inputs

`Players` has the people of one game as its thread meets them: who is at each
connection, what waits to be received. A connection is called by the name of the player
in `name2connection`; when the player has left, somebody new (`Newcomer`) may be given
the same `Channel` address, and with it the name. When the last player leaves, the main
thread waits for the game, and nobody types any more.

`Setup` is `SetupRule::run` with its `ParameterVisitor`, `Inputs` the input rules, with
what `foreach`, `parallelfor` and `inparallel` do around them; `Survey` is what they
promise: a question is put before it is answered, and is answered once.

| TLA+ | C++ |
|---|---|
| `channels`, `inbox`, `mainWaits` | `ServerImpl::channels`, `Channel::readBuffer`, the loop in `onDisconnect` |
| `stage`, `questions`, `choices`, `parameters` | which of its loops the visitor is in, and its local variables and member |
| `TakeValue`; `TakeQuestion` ... `TakeCorrect` | `receiveBoolean`, `receiveInteger`, `receiveString`; `receiveQuestionAnswer`, `receiveMultipleChoice` |
| `phase`, `at`, `left`, `waiting`, `round`, `turn` | where the game thread is; what the parallel rule or the `foreach` has still to do |
| `element`, `player`, `clock` | `toplevel[element_name]`, `player_connection`, the `Timer` in an `InputRulesState`, by its key in `rule_states` |
| `BeginTurn`, `Refuse`, `FindNothing`, `CutOff`, `Accept`, `TimeOut` | `InputChoiceRule::run` and `InputTextRule::run`, one action for a way through the loop |
| `Ballot`, `Crop`, `List`, `Count`, `Reject` | `InputVoteRule::run` |
| `OtherLooks`, `OtherCrops` | the same rule in another session: `choices` belongs to the rule, not to the state of a game |
| the actions with `Throws` | `Server::send` or `receive` throws: the game is over |

A step of the rules (`script`) is one `foreach`, `parallelfor` or `inparallel` around an
input, or a vote. Suspending and resuming are reduced here to what `Scheduler` shows them
to be: a branch goes on where it was. A timer that has run out cuts a step off where an input
polls (`CutOff`); that a foreach or a list of rules asks the callbacks after an answer, too,
is in `Scheduler` and left out here, and the properties except steps under a timer. What is sent is left out; a text is a number, a
word or nothing.

### Http, Client, Web

`Http` is one `HTTPSession`, `Client` the command line client, `Web` both on one
connection, or the session with a browser.

| TLA+ | C++ |
|---|---|
| `socket`, `reads`, `writes`, `shut` | the member `socket`, the operations outstanding on it, `shutdown_send` |
| `AcceptSocket` | `ServerImpl::listenForConnections` |
| `HandleRequest`, `Upgrade`, `ReadFails` | the handler in `HTTPSession::start`, with `handleRequest` |
| `EndWrite`, `WriteFailsOn` | the handler in `send`, inside `handleRequest` |
| `ConnectEnds`, `HandshakeEnds`, `ReadEnds`, `ReadBreaks`, `WriteEnds`, `WriteBreaks` | the handlers of `Client.cpp` |
| `SendText`, `Show`, `Exit` | the main loop of `gameclient.cpp` with `Client::send` and `receive` |
| `ServerSends` | `Channel::send`, which drops empty texts |

`handleRequest` does not return after a bad request, so it answers twice, and each answer
goes on to read. `OneChain` therefore allows one more operation for each bad answer;
beyond that Beast promises nothing, and reads may fail (`Disturbed`). Bytes that are no
request at all, on a connection that is in order, are left out, and so is an `accept` that
fails (`listenForConnections` then accepts no more). The client writes each text at once,
whether or not an earlier one is still being written, and the end of any of them pops the
first text. No property says that a text stays in `writeBuffer` while it is written: as soon
as two writes overlap and the later one ends first it does not, and nothing in the repository
promises it. What holds is that no handler pops an empty queue (`ClientTypeOK`).
The channel in `Web` is what `OutgoingPipe` says it is, while no game runs.

### Lists

`Lists` has the lists of a game, each in a buffer of the heap with a capacity; an element
is a value or the address of a place in a buffer. `extend` stores addresses, a list that
outgrows its buffer moves, and a query whose result is no variable (`collect`, `elements`,
`upfrom`) leaves it in `returned`, the thread-local temporary, which the next overwrites.

| TLA+ | C++ |
|---|---|
| `lists`, `elements`, `returned` | the top-level `Map`, its entries for element names, `Getter::returned` |
| `frames` | the calls of rule lists, with `ForEachState` |
| `getReference`, `Target` | `getReference`, `processPointer` |
| `Result`, `NeedsToBeSaved` | the queries of `processList` and `processInteger` |
| `Extend` ... `Add` | the rules |
| `When`, `BeginForEach`, `Visit`, `EndRules` | `Cases::run`, `ForEachRule::run` |
| `Choose` | what the inputs of a round leave in the players |

The rules of `configs/games/rock_paper_scissors.json` are in `Lists` too (`GameRules`),
without the messages and the final scores. `MCLists` has a game with these rules, cards, and
the lists of `for_each_test.json` with a rule at the end that throws.

The code does not hold for all documents: one that discards from a list which a foreach
goes over, or that collects from a list it then lets grow, leaves an iterator or an address
behind. `Orderly` says what a document has to keep to. Some of its lists are *fixed*: no rule
changes their length or deals from them, and only they are pointed at. Some are *views*,
which hold addresses only. Items of other lists, the cards among them, are only moved about.
No rule inside a foreach works on the list it goes over, and no name of an element is used
twice at a time. Each part of the rules is listed with the names and the lists of the
foreach around it, so that `MayRun` can say this of every rule. The round of rock, paper,
scissors and the cards of `MCLists` are orderly (`GamesAreOrderly`, which TLC evaluates);
the third kind of game is not, since it extends a list of values by addresses of its own
items.

A chain of addresses has at most two hops in `Target`: no rule takes the address of an
address, and the code's loop over longer ones would not be reached.

Sections named "Faulty variants" hold versions of a definition with one plausible slip
each. No specification uses them; they are kept so that each property can be seen to
fail when its code is wrong.

## 3. What is checked

| run | question | result |
|---|---|---|
| `channel_main` | with the main thread alone: one write at a time, no queue forgotten, nothing lost or reordered, everything written in the end | holds |
| `channel_game` | one write at a time, with a game thread | violated |
| `channel_read` | what was read is received once and in order, with a game thread | violated |
| `lobby_two` | two players, two sessions, two games: the records agree, one game per session, which is not destroyed under it, texts stay in their session, and `Rooms` is implemented | holds |
| `lobby_live` | games with time limits: texts are taken, sessions come back, `onDisconnect` returns | holds |
| `lobby_last_player` | `onDisconnect` returns, with a game that waits without limit | violated |
| `lobby_dissolve` | the pass stays inside the vector | violated |
| `lobby_game_over` | who is told that the game is over is there | violated |
| `scheduler_games` | three games: branches with a foreach, an endless loop and an input; the same rules for two elements, with branches inside; nested timers in a loop. And one that crashes. Suspending and resuming implement `Strands`; timers stop their rules; nothing is left behind; no branch holds up another; games end | holds |
| `inputs_games` | every kind of question for two players of whom one may leave and somebody new may come: answers are legal, the player's own, given once, and stored for everybody; votes are counted; a step ends; the text of one branch is taken though the others say nothing | holds |
| `web` | a browser with two requests, or a client: one chain of operations, answers in order, what is shown is what was sent, a lost connection is noticed | holds |
| `lists` | two rounds of rock, paper, scissors, cards dealt to and fro, lists that grow: addresses live, scores right, no card lost, every element visited | holds |

A property that is violated states what a comment or the README says; `PROJECT.json`
quotes it under `findings`.

### Findings

1. *Two writes at once* (`channel_game`). `afterWrite` pops and then looks at the
   queue without the lock. A `send` of a game thread in between starts a write of
   its own, and `afterWrite` another one of the same text.
2. *A text is lost between two threads* (`channel_read`). The handler of a read appends to
   `readBuffer` without the lock under which a game thread takes from it. That thread may see
   the new end of the deque before the text: it receives what is no text, and the text is
   never received. With the main thread alone `IncomingPipe` holds, for the same
   thread then runs the handlers and receives.
3. *The server hangs* (`lobby_last_player`). `onDisconnect` of the last player waits,
   on the main thread, for the game; its channel is erased only afterwards, so a
   game that polls that player without a limit never gets the exception that would
   end it. While it waits no session is served.
4. *The pass goes beyond the sessions* (`lobby_dissolve`). The range-based `for` goes on
   after an erase from the vector it goes over.
5. *The end of a game ends the server* (`lobby_game_over`). "The game is over!" is sent
   outside of the `try`, to players read without a lock.

What follows was met while modelling, by a run that is not kept or by the reading of the
code. Where a property must leave such a case out it says so.

In the scheduler:

- A timer in a branch does not limit its rules: it is removed at their first suspension,
  and not resumed with them. With `Roots = {43}` in `Scheduler_games.cfg`, `TimersStop` is
  violated.
- A `parallelfor` in a `parallelfor` keeps its state under the number of the outer world
  and looks for it under none: a null pointer is used. The last game of `scheduler_games`
  reaches `CheckCrashes`, and `StatesThere` says that only such games get there. When the
  inner rules never ask the callbacks it does not crash, but leaves its state behind and
  the outer rule in world 0. Then an `inparallel` in the same game may crash with no inner
  `parallelfor` under way any more, when that one went over an empty list: the world it
  left is the wrong one for what comes after. (`StatesThere` speaks of the game and not of
  the rules under way for this reason.)
- An exact timer in a branch runs its rules again each time it is resumed while it pads.

In the inputs:

- Two sessions of one configuration at the same `input-vote` both cut `".name"` off the
  shared `choices`; the second cut takes five characters of the name itself, and the vote
  throws (`ListNamed` excepts `other = "done"`).
- Setup and votes have no time limit and ask no callbacks: a branch with a vote holds up all
  others, and no timer stops it (`TextsAreTaken` and `StepsEnd` leave votes out).
- The answer of somebody new at the address of a player who has left counts as the
  player's (`AnswersAreOwn` excepts those who are `gone`).
- When two branches of an `inparallel` use one element name, a rule that is resumed sees
  the element of the other branch; `inparallel` restores nothing. `MCInputs` gives each
  branch a name of its own.

In the lists:

- A list extended by `elements` or `upfrom` keeps addresses of values in the temporary,
  which the next query overwrites; and a `foreach` over a list that its rules extend
  uses an iterator into a buffer that is gone. `AddressesLive` fails for such games;
  those in `configs/games` do not do this.
- `collect` or `elements` followed by another accessor returns a reference into a local
  variable of `processList` (`variables.cpp` 174-176, 211-213).
- `collect` leaves the name of its element in the variables, where it hides what had it.

In the network:

- A request with an illegal target is answered "Illegal request-target" *and* with the
  page; the two answers are written at once.
- The client starts a write for each text at once; Beast allows one at a time.
- `gameclient` tests `argc < 3` and uses `argv[3]`.

In the lobby:

- When a session is dissolved the buffer is not cleared: the next session that is handled
  is sent what was said in it (`OwnTextsOnly` excepts a session that is gone).
- `game_owner` is the address of a channel, kept after the channel is gone. A later
  connection with the same address owns the session, whose creator has left.
- `detached` is looked at before the players of a session are heard, of whom one is the
  owner with `/start`; when the thread runs at once, the main loop goes on to take the
  texts of the other players of the detached session, `/quit` among them.
- Players with the same name (`onConnect` does not compare the name of the animal with
  those in use) become one entry of `name2connection`, though `validate` counts
  connections: a game may be started with fewer players than it requires.
- `detached` is set by the new thread. Until it has run nothing shows that a game was
  started: the session may be destroyed, or a second game started, which frees the
  state of the first. With `SlowStart = TRUE` in `Lobby_two.cfg`, `OneGame` is violated.

### Bounds, and why they are enough

- `Channel`: two texts, three sends (`MaxSends`) and two arrivals (`MaxArrivals`) in
  `Channel_main.cfg`, fewer of one kind where a run is about the other. Three sends
  are a write in progress, one that is chained and one that comes in between; the
  proofs below are for any number of texts and sends.
- `Lobby`: two connections make a last player and one who is not, an owner and one
  who is not. Two codes and two sessions make a session before and after another in
  the vector. Because addresses are used again, behaviours with any number of
  connections one after the other are included. One text waits at a connection at a
  time (`MaxInbox` = 1): the main loop takes one per pass, so a second would only be
  handled in a later pass. `Thread` bounds the games that run at a time to the
  number of sessions; `HandleStart` is not possible when all run.
- The games of `MCLobby` are for two players, for one, and for one or two: so there are
  too few, too many and enough.

- `Scheduler`: games of up to fifteen rules in which each kind of rule occurs, each list with
  two elements, so that there is a first and a last, and branches that are not in step.
  `MaxWorld` = 2 numbers three branches. The state space is finite without other bounds.

- `Inputs`: two players, since turns, ballots and a stolen address need two; one newcomer;
  texts that are empty, a word, 0 and 2, the last of the two choices; one or two texts at
  each connection, and in the setup up to five, enough for a question with two
  choices and its answer; each rule used twice, by `parallelfor` and by two steps.
- `Web`: two requests make a good and a bad one in either order; two texts each way make
  writes that overlap and messages that are concatenated. The proofs are for any number.
- `Lists`: three players so that a round may be a tie of three kinds, two rounds so that the
  second finds what the first has left; four cards and hands of two and three; growth
  beyond the capacity twice.

Symmetry is used in the runs without liveness properties only.

### Fairness

`Channel`: a thread inside `send`, `receive` or a handler, which do not wait, goes on; an
outstanding write ends, well or with an error, and its handler is run, because the
main loop calls `Server::update` again and again. Nothing is assumed of sends, reads
or losses.

`Lobby`: the main thread goes round its loop (`MainLoop`; `poll` runs what is ready and
returns); the game threads are scheduled (`GameThread`); the clock of an input with
a limit runs out whatever the player types (`TimeUp`); a game that comes back to its
rules again and again gets to their end (`GamesEnd`). The last is a property of the
configured rules, not of this code, and is needed only because `Lobby` lets a game ask
any number of questions. Nothing is assumed of the players. Without `SlowStart` a
thread gets to run within the second the main thread sleeps after a pass; the code
relies on this, as said under the findings.

`Scheduler`: the game thread is scheduled (`Run`). That inputs are answered (or time out),
loops end and time passes are premises of `Ends`, not assumptions; `BranchesMoveOn` holds
without them.

`Inputs`: the game thread is scheduled. That clocks run out is a premise of `StepsEnd`
and not used by `TextsAreTaken`; nothing is assumed of the people.

`Web`: `Server::update` and the loop of the client go round (`Serve`, `ClientLoop`), and
operations of asio end. Nothing is assumed of the visitor.

## 4. What is proved

`ChannelProofs` proves of `Channel`, for every set of texts, every bound and, unless
said otherwise, every set of threads:

- `TypeCorrect`: `Spec => []TypeOK`. It needs two more facts (`TypesAndLock`): a thread in
  the middle of `send` or `receive` holds the lock, and so does the main thread while it
  closes the channel (`LockHeld`); and the handler of a read has something to store, and what
  `receive` has taken is still in its place (`Underway`), since only one thread receives at
  a time.
- `ChainNeverStalls`: `Spec => []ChainAlive`. `ChainAlive` is not inductive: it says
  nothing while a thread is in the middle of `send` or `afterWrite`. The invariant is
  `TypeOK /\ LockHeld /\ Responsible`. `Responsible` says that for a non-empty queue on an open connection there is a write
  outstanding, or a thread that will start one: one that has pushed and sees a queue
  of one, or the main thread that has popped. The run checks this with one thread; with
  a game thread in addition it is this theorem that shows it.
- `WritesAreChained`: `Spec => [](OneWrite /\ NothingLost)` (and `NothingIsLost`, its
  second half), when the main thread is the only one (`Threads = {Main}`), which is the
  case while no game runs. The invariant is `Chained`: what is queued is what `sent` has beyond `wire`, and the number of
  writes outstanding is the one the step of the thread and the queue allow.
  Without the assumption it is false, as `channel_game` shows.
- `OutgoingIsAPipe`: `Spec => OutgoingPipe`, under the same assumption: the initial
  states map to the initial ones of `TextPipe`, and every step to one of its steps or
  to a stutter.

They rest on `MainAssumption`, `UnwrittenAssumption` and `BoundsAssumption` of `Channel`, and
on lemmas on sequences that are proved where they stand.

`WebProofs` proves of `Http`, for any number of requests: `HttpTypeCorrect`;
`OneChainAtATime` (`HttpSpec => []OneChain`) and `AnswersAreInOrder`
(`HttpSpec => []AnswersInOrder`). `OneChain` is inductive with two facts: before the
connection is accepted nothing is outstanding (`Unused`), and an answer being written
belongs to a request already handled. For the order, `InTurn`: while nothing was bad there
is one operation in all; if it is a read, everything handled has been written and asked
to go on; if it is a write, it is the answer to the last request handled.

It proves of the composition `Web`: `SessionIsHttp` (`Spec => HttpSpec`), which
carries those theorems over (`ChainInTheWeb`, `OrderInTheWeb`);
`ClientTypeCorrect`, where the point is that no handler pops an empty queue: texts popped
and writes outstanding are together at most those typed, however writes overlap; and
`ClientReadsAPipe` (`Spec => ClientReads`), from the invariant that what was sent is what is
shown, what has been read and what is under way, in that order.

`LobbyProofs` proves of `Lobby`, for every set of connections, codes and sessions, any
games and any number of threads: `LobbyTypeCorrect` (`[]TypeOK`), `WhoIsWhere`
(`[]MembersAgree`), `SessionsAreInhabited` (`[]NoEmptySession`) and `TextsStayInside`
(`[]OwnTextsOnly`). None of the last three is inductive; they hold because of where the
main thread is. The invariant adds to `TypeOK` and `MembersAgree`: when it waits in
`onDisconnect`, it is with a connection that is in no session (`Waits`); in the loop over
the players of a session it is at a session that is there, and those it has still to hear
are players of it (`Hears`), so that nobody is heard twice or after leaving; only that
session may be without players (`Inhabited`), so an erase hits it alone; the buffer holds
what was said there, or in a session that is gone (`OwnBuffer`). A game thread leaves all
of this alone (`GameThreadStands`). `DropLeaves` shows that the erase keeps the sessions
with players and no other, from facts on cardinalities.

`RoomsProofs` proves that `Lobby` implements `Rooms` (`LobbyKeepsRooms`), for the same
parameters. The invariant it adds is `Coded`: codes tell the sessions apart, and everybody
is in the session of the code they came with. Then the codes people came with determine
the rooms (`RoomsAre`) and the owner of the one session of a code is the host (`HostIs`).
Every step is of one of five kinds (`StepIs`), each of which is a step of `Rooms` or none.

`GamesProofs` proves `OneGameAtATime`: `~SlowStart => (Spec => []OneGame)`. Nothing
marks a session between the start of a thread and its first step. What protects it is the
order of the pass: such a session is behind the pass (`BehindThePass`), or the pass is
still at it and its owner has been heard and has stayed (`OwnerWasHeard`), so that there
is no second `/start` and no erase; and none is left when the pass has ended
(`BegunBetweenPasses`), which is where the assumption comes in. An erase moves the
sessions that stay to the front only (`DropShifts`), so none moves before the pass.

The three rest on `NobodyAssumption` of `Lobby`, and the last on `~SlowStart`.

`InputsProofs` proves `AnswersStayOwn` (`[]AnswersAreOwn`) of `Inputs`, for any players and
any configuration. It is a chain from the connection to the variables, and each link is a
conjunct of the invariant: a player who has not left is the one at the connection of that
name (`ChannelsOwn`); what waits there was typed by that player (`InboxOwn`); and the
connection an input has taken into its local variable is that of the element the answer is
stored for when it comes (`HeardIsAsked`), although a foreach, a suspended branch or a
parallelfor has put another element there in between.

The same module proves `NobodyIsSkipped` (`[]NobodySkipped`) and `ListIsNamed`
(`[]ListNamed`). For the first, everybody a branch goes over is at each point still to
come, suspended, being asked, or has answered (`Accounted`). The hard case is that of a
branch that begins while another is suspended: its element must not be lost, which holds
for inparallel because its branches have elements of their own, for parallelfor because it
puts the element back, and for the others because they have one branch.

Three more theorems are of the answers themselves:

- `ChoicesAreOffered` (`[]AnswersOffered`). The invariant says for the setup that what is
  awaited fits the kind of the parameter (`StageFits`), and that each choice listed was a text
  of its own (`FewChoices`), so that no list is as long as the largest number of type
  `size_t`. Then 0, which becomes that number, is refused (`ChosenIs`).
- `VotesAreCounted` (`[]VotesAgree`), when nobody is twice in a list of voters (`VotersOnce`;
  otherwise the answer, which has the name of the voter, is stored once and counted twice).
  When a vote begins all answers are of steps before it (`NewInv`), and a voter who is still
  to come has given none (`VoteInv`).
- `EachAskedOnce` (`Spec => AskedOnce`, the refinement of `Survey`), when no step asks a player
  with the same rule twice (`EachOnce`; otherwise two questions have one name). The states of
  the inputs in `rule_states` are exactly those of the branches that are suspended or have
  their turn (`StatesLive`), so the prompt is sent when a branch comes to a player and not
  when it is resumed; and such a branch is at a player who has been asked and has not
  answered (`BranchAsks`).

They rest on `PlayersAssumption`, `SetupAssumption` and `InputsAssumption`. Two of their
parts are for the proofs: that the rules in the branches of an `inparallel` are different
ones, since they are different parts of a document; and that numbers and lists are within
`MaxSize`, 2^16 - 1 in place of 2^64 - 1 (`std::stoul` throws beyond it).

`SchedulerProofs` proves of `Scheduler`, for every tree of rules, every number of elements
and of worlds:

- `NoStateMissed` (`[]StatesThere`), for all games.
- `AllCleanedUp` (`[]NothingLeft`), for games that are `Calm`: no `parallelfor` is inside
  another one. Without it the property is false, as said under the findings.
- `StoppedInTime` (`[]TimersStop`), for games that are calm and whose timers and parallel
  rules are not inside one another (`TimersApart`). Without it the property is false too.

The state of a game is spread over the calls under way, the callbacks, the states by rule
and world, and what is suspended; the invariant `Inv` says how these fit. The calls nest as
the rules do, and all between two parallel rules are in the world of one branch (`Nest`,
`WorldOK`). The callbacks are those calls that have registered themselves, in their order
(`Listed`), so that asking the callbacks from the last to the first is going outwards. What
waits in a `todo` lies inside its parallel rule (`CallOK`), and so does what is suspended in
this turn; nothing is suspended but for a parallel rule whose branch has its turn
(`SuspendedOK`). And a state is there for exactly the rules that
are called, suspended or waiting in their world (`StatesOwned`, `StatesHeld`): so a rule that
is resumed finds its position, and when the last call returns nothing is left. Most of the
proof is that `checkCallbacks` keeps this: it may go over several parallel rules, suspend up
to one of them, or cut off everything inside a timer. `GameInv` is `Inv` for calm games and
little for the others. For the timers, `TimerInv` adds that what is inside a timer is called
by it (`TimersUp`), that its state is there while it is called (`TimersHeld`), and that after
a step that came too late nothing has been begun in it (`NothingBegun`).

They rest on `RulesAssumption` and `TreeAssumption` of `Scheduler`: rules are a tree, since
they are read from a document, the root of a game is a list, and a loop, a timer and a
`parallelfor` have rules inside. The second states what `Inside` is, because a function that is defined by recursion
on a tree cannot be reasoned about here; TLC evaluates both on the games of `MCScheduler`.

`ListsProofs` proves of `Lists`, for all games that are orderly (`AllOrderly`), whatever
their lists, elements and rules and however deep these nest:

- `AddressesStayLive` (`[]AddressesLive`). The hypothesis speaks of the rules of a document;
  the theorem, of what is reached at run time after any number of them.
- `EachIsVisited` (`Spec => EachVisited`).
- `CardsStay` (`[]CardsKept`), if no two cards are alike at first (`CardsApart`). Each move is
  a map from the places after it to those before it, one to one and onto (`MovedBy`), which
  keeps the number of places of a card; that it is one for dealing from the back of a list to
  the back of another is `MovedOver`.

The invariant `Inv` says that every list has a buffer of its own and only addresses of items
of fixed lists (`ListsOK`); that each frame runs a part of the document, with the names and
the lists of the loops that are really around it (`FramesOK`), which is what turns the
hypothesis on the document into one on the stack; that what a loop has visited is a prefix
of what its list had, and that the list is still there and the same, be it its own
temporary or a list left alone (`LoopsOK`); that the element of each loop is an address or
a value that can be used (`ElementsOK`); and that the temporary is in nobody's buffer
(`ReturnedOK`). None of the theorems follows without all of these: an iterator stays valid
because of the frames, an element because of the lists, and a list because no address is
of one that moves. They rest on `GamesAssumption`: a game has finitely many lists, which
are sequences.

`RoundsAreScored` (`[]RoundsScored`) is about one document, for any number of players and of
rounds. It assumes `AllScored`: every game is orderly and either has the rules of rock,
paper, scissors and three weapons in a circle (`PlaysRounds`), or has nothing to choose
(`WithoutChoice`), so that no round of it ever ends; TLC evaluates that the first two games
of `MCLists` are such. The document finds the winners without comparing players: a player
whose weapon beats another is one whose weapon is beaten by a weapon nobody has. That this
is the same, and that a tie of three kinds and one of one kind give no win, is a fact about
sets of three (`TwoTaken`). The rest is the invariant `Stage`, the annotation of each place
in the rules: the list of winners has each player once whose weapon is beaten by one of
the first `k` unused weapons, where `k` is how far the loop over the weapons is
(`Gathered`), then the wins of the first `k` winners are counted and no others
(`Counting`), and at the end a player has one win more if and only if the player has won
(`Scored`). It is inductive only together with `Inv`, for an address in the list of winners
has to lead to the player it was taken of.

Only model-checked: of `Scheduler`, `TypeOK` and `Interleaves`; and every liveness property
(liveness under fairness is out of reach of the prover).

## 5. What is left

1. **Proofs** that `Scheduler` implements `Strands`, from the invariant of `SchedulerProofs`.
2. **Variables**: `contains` and the comparison of values of different types.
3. **Composition** of `Inputs` with `Scheduler`, for branches that share an element name.

## 6. Not modelled

- `src/lib/json` and `src/lib/antlr/antlr4-runtime` are vendored libraries, four fifths of
  the lines under `src/`; what the code uses of the first is the configuration a model
  is given as a constant, and nothing uses the second.
- `src/lib/antlr/evaluator.cpp` with its grammar: no target of the build links it, and its
  parser is generated.
- `src/webchat.html`: one websocket whose messages are appended to a text area.
- `lib/Gamespec`, `lib/GameSession`: drafts nothing refers to. `tools/minesweeper`: left
  out of the build, does not compile. The chat window of `tools/gameclient`: console I/O.
- The construction of rules and variables from JSON (`buildVariables`, the constructors of
  the rules): no state, one pass over the document.
- In `variables.cpp`: the tokens of a query, the regular expressions of a condition, and
  the comparison of values. `Condition::init` leaves `negated` uninitialised when there is
  no `!`; the models take a condition to mean what it says.
- `message`, `global-message`, `scores`, `pause`: they send or sleep. That they throw when
  a player is gone is the same as for a prompt, in `Inputs` and `Lobby`.
