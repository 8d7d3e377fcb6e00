# Verification of the Spectre Divide metagame backend

The program is the backend that the game client talks to between matches: C++20 on
[drogon](https://github.com/drogonframework/drogon), one process, four event loop threads, one SQLite
file. This directory models its concurrent parts in TLA+, checks them with TLC on small instances
and proves its safety properties with TLAPS for all instances.

Contents: [the system](#the-system), [modules](#modules-and-what-they-stand-for),
[runs](#runs), [bounds and fairness](#bounds-and-fairness), [proofs](#proofs),
[findings](#findings), [not modelled](#what-is-not-modelled), [plan](#plan).

## The system

| component | code | state | operations |
|---|---|---|---|
| websocket sessions | `Packets/.../SpectreWebsocket.*` | per connection: queue, sequence counter, worker thread; per process: `connectionsByPlayerId`; per player on disk: `NOTIFICATION_DATA` | connect, message, close; schedule a notification; the worker's round |
| party database | `Persistence/.../PartyDatabase.*` | the `parties` table, `dbMutex` | save, get, delete, remove a player from all parties, clear |
| party handlers | `CreateParty-`, `SetReady-`, `UpdateParty-`, `UpdatePartyPlayer-`, `EnterMatchmakingProcessor`, `IsInPartyHandler` | a generator for ids and invite codes shared by all loops | one request each |
| row store | `ProtobufDatabase`, `BasicDatabase` | the columns of a table, a registry of their names | read a column, upsert a column, add a column that is missing |
| player fields | `PlayerDatabase` and the handlers for presence, loadouts, inventory, player data | one row per player, a column per field | read one column, change it, write it back |
| accounts | `AuthenticateHandler`, `ProviderLinkDatabase`, `BanDatabase` | provider links, bans | first login, login, ban check |
| game data store | `GameDataStore` | the store and its serialised form, a spin lock | read, change, read serialised |
| settings string | `SavePlayerData-`, `GetPlayerDataProcessor` | the settings in a player's data column | take the settings out of a JSON string, put them into one |
| Steam tickets | `SteamAuthTicket` | none | take the account out of a token |
| life cycle | `ServerMainThread`, `main` | lock file, handler tables, the tables' columns | start, migrate, clear the parties, bind, serve, quit |
| test harness | `BackendEnvironment` | the process it launched | `SetUp`, `TearDown` |
| dispatch, static packets, read-only handlers | the rest of `Packets/` | none that changes after start | look up, answer |

**Threads.** A websocket connection belongs to one event loop: its open, message and close callbacks
run there one after the other; those of different connections run concurrently on up to four loops.
Every connection also has a worker thread (`NotificationThread`), and every close detaches a thread
that removes the player from his parties. Each database class has a SQLite connection of its own to
one file in WAL mode; each statement is atomic, nothing is a transaction.

**Interaction.** A handler's payload may carry post-send notifications, which
`ScheduleNotificationForPlayer` queues on the player's newest connection, or appends to his column on
disk. The worker sends what is queued and writes the rest of its queue over that column. A party
handler calls `GetPartyRes`, changes the copy and calls `SaveParty`; between the two calls it holds no
lock, and the detached clean-up, or another session's handler, may run.

**Hard behaviours.** Sessions of one player that overlap (a reconnect before the old close is
handled); two threads numbering the frames of one connection; the routing table against late closes;
a crash between send and save; failing statements half way through a save; nested operations on a
recursive mutex; read-modify-write without a transaction; a clean-up that runs after its player has
come back; two processes that start on one database, or one that is killed between two of the
statements that bring an old database up to date. `PROJECT.json` lists them line by line under `hazards`, with the properties that cover each.

**What makes each part correct.** Sessions: every frame numbered once and no number skipped, the
route always to a live connection, responses before their notifications, notifications in order and
at most once per connection, nothing saved lost while one session runs at a time, every worker ends.
Party database: each call looks atomic to callers, a failing statement breaks neither the lock nor a
row's readability, a finished clean-up is complete. Party handlers: nobody who left stays in a party,
a version of a party names one content, every handler ends. Player fields: a save changes what its
handler changed and nothing else, a presence version names one presence. Accounts: whoever is linked
was created to the end, a login that answered can be repeated without making the player anew. Game
data store: its two forms are one value to callers, and every caller gets his turn. Life cycle: who
serves finds every column and none of the parties that were there when it cleared them, and the lock
file is never that of a process that has not yet served.
Settings: what is handed out reads as what was saved. Tickets: an account's tokens name it, and no
other token names anybody.

## Modules and what they stand for

### `SpectreWebsocket`

`session`, `loop`, `worker` hold where a connection, its loop thread and its worker thread are;
`queue` is `notificationsToDeliver`, `nextSeq` `curSequenceNumber`, `disk` the `NOTIFICATION_DATA`
columns. `wire` and `served` are history variables. A notification is the pair of its request and its
position among the request's notifications; payloads are left out. `setting`, chosen in `Init` and
never changed, says which requests are made and whether sessions of one player overlap, so that one
run can have both; two properties are about behaviours without overlap.

Actions follow the critical sections of the code: the constructor (`LoadSavedNotifications`,
`AddConnection`) and `SetContext`; `Receive`, then `Refuse` or `FormulateFinalResponse` and
`SendResponse`; per notification `GetConnectionForPlayer`, then `ScheduleNotification` or
`ReadSavedNotifications` and `WriteSavedNotifications`; the worker's `WorkerPop`,
`FormulateFinalNotification`, `WorkerSend`, `WorkerSnapshot`, `WorkerPersist`, and how it ends. Two
outcomes end the process: a push to a connection without a context (`ScheduleWithoutContext`) and a
worker that drops the last reference to its own session (`WorkerReleaseLast`, a `jthread` joining
itself). Both, like `Crash`, keep the disk and lose the memory.

### `PartyRegistry`, `PartyDatabase`, `PartyCallers`

`PartyDatabase` has one action per SQL statement, lock and unlock. `rows` is the table (a column is
`Null` until a statement sets it), `mutex` the recursive `dbMutex` with owner and depth, `call` the
operation each thread is in, with its locals. `Saving`, `CallGetPartyRes` and `CallRemovePlayer` begin
an operation, `CallStep` is any step of one: `CallProceeds`, or `StatementFails`, an exception out of
it, which unlocks everything the thread holds and undoes nothing. The two broadcast columns are one column, as all
operations treat them alike; a member is his id, leader and ready flags and preferred team.

`PartyCallers` puts it in the hands of threads that call anything at any time. `PartyRegistry` is what
they are promised when no statement fails: a table of whole parties that are saved and read in one
step each; only removing a player takes a step per party. `PartyCallers!ImplementsRegistry` maps the
detailed state to it: while a party's statements are being executed, its abstract value is already
the party being saved (`PartyOf`), because nobody else can read it before the lock is given up.

### `PartyHandlers`

The handlers over `PartyDatabase`: each connection has a loop thread and a clean-up thread, both
callers of the database. `AskForParty` receives a request and begins `GetPartyRes`; `SetReady`,
`UpdateParty`, `UpdatePartyPlayer` change the copy and begin `SaveParty`; `Respond` answers, and
records the answer in the history variable `shown`, from which clients take the ids they ask for
(nothing in the code lets a player join another's party). `CreateParty` draws an id: racing creations
may draw the same one, because the loops share one unsynchronised `mt19937`. `HandleConnectionClosed`
starts the clean-up; `Restart` ends the process at any point and clears the table, as
`InitializeHandlers` does before it listens. The variable `setting`, chosen in `Init`, says whose the
connections are, how many requests each makes, and whether statements fail and the process restarts.

### `PlayerDatabase`, `PlayerHandlers`, `Accounts`

`PlayerDatabase` is the players table (`players`: per player, the columns that have a value; a reader
of any other gets `Default`) and the way everybody uses it: `Edit` is a `GetField` and the caller's
changes to its copy, `SetField` the upsert of that one column, `Discard` a statement that throws. A
column is a function from its parts to values, a part being what some handler changes without
touching the rest: a presence's version, one loadout, one item. `kept` is a history variable: the
columns as they would be had each save changed only its handler's parts. A copy becomes stale when
another is saved to the same column; a stale save takes `kept` with it, as nothing in the code or its
texts promises more to sessions that overlap.

`PlayerHandlers` has an action for each handler that writes a column, its read and its changes, and
`Answer` or `SaveFails` for its end. `UpdateItemV4Skips` is the early return of that handler. The
character loop with which `SavePlayerData` takes the settings out of their string is in
`SettingsString`; here it may fail: the `throw` with no exception in flight that follows ends the process and is part
of `Accounts!Restart`.

`Accounts` composes them: login threads that look the link up, create the player column by column
(`ReadToCreate`, `SaveCreated`), link him, check bans and answer with a token, and connections whose
players have one. A player's id is a name-based hash of his Steam id, so the two are one here, and a
login that ended early is followed by one that creates the same player.

### `LoginPayload`, `GameDataStore`

`GameDataStore` is the store, its serialised cache and the lock; `call` says where each thread is
between `try_lock` and the deleter that unlocks. Only `GetLoginData` uses it today; the threads here
are any callers that keep to the comments of `GameDataStore.h`. `LoginPayload` is what they are
promised: one value, changed and read as a whole.

### `Lifecycle`

Any number of processes on one database file, each with its place in the start (`process[p].pc`,
`at`: how many columns it is done with, `absent`: those its `table_info` did not list). `Look` is the
query, `ColumnIsThere`, `AddColumn` and `AlterThrows` what follows it for one column: `PartyDatabase`
queries once for `PartyCode` and `PartyVersion` and alters without a `try`, `AddPrototype` queries for
each of the others and logs what `ALTER` throws. Between the parties' columns and the players' lies
`ClearAllParties`, as in `InitializeHandlers`; `Bind` comes last and ends a process that finds a port
taken. `BeginningAdvice` writes the lock file, `Quit` and `Leave` end a process in order and remove it,
`Dies` is a kill or an uncaught exception at any point.

`harness` is `BackendEnvironment`: `Pkill`, `SetUpRemovesDatabase`, `SetUpUnlocks`, `Launch`, then
polling until `SeesLock` or `TimesOut`; `Pkill` again and `TearDown`. Processes are started by hand
only between tests. The history parts are `refused` (columns whose `ALTER` failed although they were
absent), whose the lock file is, and for each party which processes had cleared the table before it
was saved.

### `SettingsString`, `PlayerSettings`, `SteamAuthTicket`

`SettingsString` has the two loops over characters: `WrittenString` is what
`GetPlayerDataAsString` makes of the printed settings, `ReadPayload` what `SavePlayerDataProcessor`
takes from a request's body; `AsString` is what JSON says. A character is one the loops tell apart,
settings are sequences of fields of five kinds. `PlayerSettings` is the two handlers over it.
`SteamAuthTicket` is `ExtractSteamId64` over hexadecimal digits, an id being its eight bytes.
`MCAccounts` states, as assumptions TLC evaluates, what the pure ones do over bounded inputs:
`SettingsReadAsSent` (settings are read as sent unless a string in them holds a quote, which makes
them unreadable, or a backslash, which is lost) and `TokensNameTheirAccounts` (a token of the right
length, size, universe and type names its account whatever its other bytes are, any other none).

## Runs

| run | question | properties | states |
|---|---|---|---|
| `WsOverlap` | three connections of one player that overlap, one request with two notifications, failing statements, crashes: what does each connection see? | `TypeOK` `SequenceNumbersUnique` `SequenceNumbersDense` `RoutesOnlyToLive` `RouteKept` `ResponseBeforeItsNotifications` `AtMostOncePerConnection` `NotificationsInOrder` `SavedIsUnsent` | 448 000 |
| `WsLive` | two connections that overlap with one request, or follow each other with two: do the workers make progress and end, is anything lost or reordered across a reconnect or a crash? | `NotificationsInOrder` `SavedUntilSent` `PostSendNotificationsFollow` `QueuedIsSent` `WorkerEndsAfterClose` | 82 000 |
| `WsNotLoggedIn` | refuted: the offline branch is for players who are not logged in | `SavedMeansNotLoggedIn` | - |
| `PdRegistry` | do statements and lock add up to atomic calls? | `TypeOK` `PartiesLed` `ImplementsRegistry` | 117 000 |
| `PdTorn` | what survives a statement that fails? | `MembersColumnSet` `LockFollowsCalls` `CleanupIsComplete` | 3 180 000 |
| `PhLive` | one player who comes and goes, with overlap and restarts, or two whose parties may get one id while statements fail: is he left behind, do versions name contents, does every handler end? | `HandlersTypeOK` `NoGhostMembers` `VersionNamesContents` `LeaversLeaveTheirParties` `HandlersEnd` | 224 000 |
| `AcSessions` | one player on two connections at once: what do saves of different columns and parts do to each other, what does a presence version name, what does a second login change? | `TypeOK` `NothingSavedIsLost` `VersionNamesPresence` `NameIsKept` | 430 000 |
| `AcRaces` | logins that race, fail, are repeated, with a session beside them: can a player be linked half made? | `LinkedIsComplete` `NothingSavedIsLost` | 443 000 |
| `AcSkips` | refuted: an item that is missing is skipped, and the other is updated | `OnlyMissingItemsAreSkipped` | - |
| `GdStore` | three threads on the store: is the cache ever stale to a reader, does everybody get the lock? | `TypeOK` `ImplementsPromise` `EveryCallEnds` | 33 000 |
| `LcServe` | three processes that start by hand or by the tests, race, quit and are killed, on an empty, an older and a current database: what does one that serves find, and what does the lock file say? | `ServedWithSchema` `PartiesSavedAfterClear` `LockTellsServing` `SetUpMeansServing` | 743 000 |
| `SsHanded` | refuted: the string a player is handed reads as his settings | `HandedIsStored` | - |

## Bounds and fairness

Connections are used once and there are two or three of them; a request is brought in once (`Request`,
`MaxRequests`). Two connections show a session against its successor; the third in `WsOverlap` shows
a route taken over twice. Two notifications per request are what `EnterMatchmaking` returns, and the
least at which order matters. The database runs have two threads, which is what a mutex distinguishes
(inside and outside), two parties, so that the clean-up has one behind it and one before it, and two
players, so that a party may be led by another. `PhLive` has one party id: in its first setting the
player creates one party per session at most, in its second two players' creations are to collide.
`NoGhostMembers`, `VersionNamesContents` and `LeaversLeaveTheirParties` are about settings without
failures, which is the first: a clean-up whose statement throws leaves its player behind, and a save
that breaks off between the two statements leaves new contents under the old version. The account runs have one player,
as columns of different players have nothing in common but the table: `AcSessions` gives one
connection two requests and the other one, so that a copy can become stale twice, and `AcRaces` two
login threads with two logins each. `GdStore` has three threads, so that two can wait, and two
contents. `LcServe` has three processes: one that is left over, one that starts and one that comes
too early. Of the columns there are two of the kind that shares a query and one each of those before
and after the clearing, where one stands for all; the database starts empty, as an older build left
it (without `PartyCode` and `PartyVersion`) or complete.

Fairness is weak fairness of each thread's steps: the operating system schedules threads that can
run. Clients owe nothing: connecting, asking, leaving have no fairness, nor have crashes. A
`std::mutex` is not fair, but with finitely many requests nobody can be passed over for ever, so weak
fairness is enough. The condition variable is modelled with its wake-ups: a worker that is asleep
moves only when notified or stopped. `Lifecycle` states no fairness: its properties are about what
holds whenever a process gets somewhere.

Deadlock is checked in `PdRegistry` and `PdTorn`, where callers never stop calling, and not in the
others, where connections, requests or calls run out.

## Proofs

`SpectreWebsocketProofs` proves, for any number of players, connections and requests: `TypeOK`,
`RoutesOnlyToLive`, `RouteKept`, `SequenceNumbersUnique`, `SequenceNumbersDense`. The routing
theorems need that a player's entry names one of his own connections. The numbering theorems rest on
an invariant that says of every number below `nextSeq` that it is on the wire or in the hands of
exactly one of the two threads, and of every number on the wire or in a hand that it is below
`nextSeq`; uniqueness alone is not inductive, as it does not exclude that a thread holds a number
already sent.

`DeliveryProofs` goes on from there to what becomes of the messages: `AtMostOncePerConnection`,
`NotificationsInOrder`, `ResponseBeforeItsNotifications`, `SavedIsUnsent`. `DeliveryInv` says where a
message can be at all: made by the handler of its request (`MadeInv`), and from then on copied between
queue, column, worker and wire. What is on a connection's wire, what its worker holds and its queue
are one stream in which each message may precede those behind it (`StreamInv`); so are the columns
(`StoreInv`). Order alone is not inductive: that the notification a handler is about to append comes
after everything made before it (`NewestLast`) is what keeps it. `SavedUntilSent`, an action property
about players with one session at a time, needs that such a session alone touches its column
(`AloneInv`) and that what is in the column of a live session has been sent, is in its worker's hand
or is in its queue (`AccountedInv`).

`PartyDatabaseProofs` proves that each step of an operation, and each call and return, preserves
`IInv`: the types; that a thread inside an operation owns the mutex at the depth of its nesting, and a
thread outside does not (`LockInv`); that a save past its first statement has a row (`RowsInv`); and,
for a clean-up, which parties are done (`CleanupInv`): a row that still has the player is either in
the list to do or the one in hand. Lemma `Frame` splits each step into what the mutex, the table and
the thread's own record must satisfy, so that only the acting thread has to be looked at;
`CallStepEffect` says of every step which of eleven things it does. With it, `LedInv` follows: every row
and every party on its way to one has a leader, except in the hands of a clean-up that is still taking
members out.

`PartyCallersProofs` carries this through the behaviours of `PartyCallers`: `TypeOK`, `PartiesLed`,
`MembersColumnSet`, `LockFollowsCalls`, `CleanupIsComplete` hold for any number of threads, parties
and players and any failures. It also proves the refinement `ImplementsRegistry`, for any instance in
which no statement fails. `WholeInv` says what a call has in its hands in terms of the table: a reader
past a column has that column; a clean-up has the row's members but those of its player behind it, in
their old order (`StripInv`, with the places they came from as a witness); what a removal saves is
`Leave` of the party in the table; what a save has written is what it has in hand. The mutex keeps
everybody else from changing the table meanwhile (`WriterAlone`), so that the abstract party of an id
depends on the acting thread only (`StepSees`). The steps that take effect are then the last read of a
get, the first write of a save or of a departure, the deletion of an emptied party and the end of a
removal; all others are stutters. `SelectsWithout` proves that the loop over the members computes
`Without`, by induction over the loop's steps and not over the list; `MCPartyCallers` has TLC compare
`Without` with `SelectSeq`.

`PartyHandlersProofs` takes the handlers for callers. `ShapeInv` ties a handler to its thread's call
(`HandlersTypeOK` and `CallsFitHandlers` follow), and the lemmas above give `PartiesLed` and the
database's invariants for them too, through restarts. `OwnInv` says that only the players whose connections drew an id are ever members of
its party, `ReadInv` what has been read under the lock, `SingleInv` what it means that sessions do not
overlap. `NoGhostMembers` then needs `PresentInv`: who is in a party is connected or being removed.
The point is that a save writes back its own player only, whose connection is open as long as its
handler runs, and that his clean-up begins after that. `VersionNamesContents` needs that the row in
the table, while nobody is between two statements of a save, is at least as new as all that was shown
(`RowsNewest`), and that a handler's copy is what the row still has (`LoopsContents`); both hold only
with one session at a time.

`AccountsProofs` proves `LinkedIsComplete` for any numbers of players, connections, logins and
restarts. `IInv` says that every copy and every stored value of the four created columns belongs to
its player (`EditsOwn`, `TableOwns`), that a login has saved the columns before its step (`SavedUpTo`),
that columns are never taken away, and that links and then tokens come after them. The handlers need
the token: only of a complete player is a changed copy sure to be his own. `ColumnsInv` says that a
copy which is not stale is the stored column with its handler's changes and no other (`CopyFresh`);
`NothingSavedIsLost` follows, and with `ShownInv` (what was shown names the present presence or an
older version) `VersionNamesPresence`. `NameIsKept` is proved under `[]OneAtATime`, no two logins of
one player at once, which every behaviour of one login thread satisfies; without it the property is
false (see below). It needs that only a login has a copy of a profile, of a player without a token
(`NamesInv`).

`GameDataStoreProofs` proves that the store implements `LoginPayload`: the lock has one holder, and
only the holder of the pointer for changes makes the cache stale, so a reader who holds the lock finds
it fresh.

`LifecycleProofs` proves `TypeOK`, `ServedWithSchema`, `PartiesSavedAfterClear`, `LockTellsServing` and
`SetUpMeansServing` for any processes, columns and old databases. Of a process that starts, `IInv` says
that the columns behind it are there or were refused before its eyes (`Behind`), that the one before
it is there unless its query found it absent (`Seen`), and that every party was saved after its
clearing once that is behind it (`Fresh`). Columns and parties go away only in the harness's hands,
and then no process runs (`Quiet` in `HarnessInv`). `TypeOK` of this module is proved
only; the proof covers every instance a run could. `OthersStay` and `LockAndHarnessStay` reduce each
step to the process that takes it.

The assumptions are those of the modules. `ConstantsAssumption`, `PartyAssumption`,
`HandlersAssumption`, `AccountsAssumption`, `PlayerHandlersAssumption`, `StoreAssumption`,
`LifecycleAssumption` and `PendingAssumption` say that the constants have their types, that bounds
are natural numbers and that the none-values are not values: an unset column, an absent row, no
party (`std::optional`, SQL's NULL, an exception in the code). `AccountsAssumption` also says that
no thread runs both logins and a connection's requests, `PlayerHandlersAssumption` that an unset
column reads as one of its type (a default-constructed message), `DraftsAssumption` that the parties
callers save are led, which `HandlersPartiesLed` shows of the handlers', `LifecycleAssumption` that
there are columns of each kind, and none twice. Two theorems have a hypothesis of their own:
`NameIsKeptHolds` has `[]OneAtATime`, `RegistryImplemented` has `~MayFail`.

Only model-checked is what needs fairness: `PostSendNotificationsFollow`, `QueuedIsSent`,
`WorkerEndsAfterClose`, `EveryCallEnds`, `HandlersEnd` and `LeaversLeaveTheirParties`; liveness and
`ENABLED` are out of the proof system's reach. So are the assumptions about `SettingsString` and
`SteamAuthTicket` in `MCAccounts`, which need recursion over a string: TLC evaluates them over bounded
inputs. Every invariant of the passing runs, every action property and both refinements are theorems.

## Findings

`src/Packets/Implementation/SpectreWebsocket.cpp:194` says of the branch below it "player is not logged
in, save the notification to disk instead". Its only caller passes the player whose open connection's
request is being answered; the branch is taken exactly when a newer connection of the same player has
taken the route over and closed. `WsNotLoggedIn` shows the shortest such behaviour. The older
connection is not told, and the notification waits on disk for the next login.

`src/Packets/Implementation/UpdateItemV4Processor.cpp:54` logs that an item it could not find is
skipped; line 55 then skips the whole request, and answers with success. `AcSkips` shows a request
that names an instanced item, which is found, and a stackable one, which is not: the first is changed
in the copy and never saved. `UpdateItemsV0Processor.cpp:55` logs the same and goes on with the rest.
Inventories start without stackables and no handler adds one, so the second item is never found.

`src/Packets/Implementation/GetPlayerDataProcessor.cpp:28` copies, of the closing braces of the printed
settings, only the one that ends them. `DefaultPlayerData.json` has objects in the settings
(`colorVisionConfig`, `crosshairConfig` and others), so the string every player is handed is not JSON;
`SsHanded` needs no more than one request. `SavePlayerDataProcessor.cpp:31` keeps the braces on the way
in. The tests' comparison (`JsonMatchesSchema`) is told to ignore values, and does not see it.

Not findings, as no text denies them, but worth knowing: two first logins of one player that race
(`AuthenticateHandler.cpp:52`) both create him, and the slower may give him another discriminator after
he was given a token. `NameIsKept` therefore belongs to the run with one login thread. A second server started on a
serving one's database clears its parties before it finds the ports taken
(`ServerMainThread.cpp:114`, `:204`), and one that is quitting may remove the lock file of the next
(`:206`). What the serving one saves after that clearing stays: if it is killed before the second one asks for
the ports, the second one serves with these parties. `PartiesSavedAfterClear` says no more than that
the rows a process found are gone. `BasicDatabase.cpp:13` asks for WAL before line 14 sets the time to wait for a lock.
`serverOnline` is set and never read. A signal that arrives before the loop runs is lost, as `quit`
does nothing then.

## What is not modelled

- The token's decoding: which player a connection belongs to is the constant `Owner`.
- `handleNewConnection` throwing out of the constructor when the column cannot be read: the connection
  then has no context and every callback returns at once.
- The strong reference the worker's wait predicate takes for the length of its evaluation, and the
  member order by which `con` is destroyed before the worker is joined (`SpectreWebsocket.h:25`): the
  end of a worker is one step.
- `GetPartyByInviteCode`, which nothing calls; `IsInParty`, which only reads (what it relies on is
  `MembersColumnSet`); the JSON forms of parties.
- The columns' serialised forms.
- Dispatch: the tables of handlers are filled before the loop runs and only read afterwards. Where a
  type is registered twice (`SetPresenceV1Request` and `GetFriendListAndRegisterOnlineV1Request` are
  static packets and handlers) the later registration wins, which is the handler's.
- `SteamValidator`, which nothing constructs.
- Static packets, read-only handlers, paths: they change no state.
- The tests' replay and comparison of captured traffic.

## Plan

Every component that keeps state is modelled, and every safety property that a run checks is proved.
What a next step could add:

1. the account model as an implementation of an abstract one: a player is made in one step, and a
   handler changes its parts of a column in one step while sessions do not overlap;
2. `WorkerReleaseLast` and `ScheduleWithoutContext` as more than outcomes: which orders of close and
   push lead there;
3. the captured traffic's requests, as settings of `PlayerHandlers`.
