# Specifications of the matcha-C server

TLA+ models of the HTTP server under `src/server`, the TLC runs that check
them on small instances, and proofs about all nine modelled parts and about two
of them composed, which hold for every size: of the 40 properties that hold in
the runs, every invariant and every action property is a theorem too.
The text below follows the system from its parts to the models, then says what
is checked, what is proved, and what is left. Paths are relative to
`src/server` unless they start with `src/`.

## 1. The system

One process. `main` parses a configuration, starts a logger thread, opens a
listening socket and an epoll instance, connects to Postgres and creates the
tables, and then runs one event loop on the main thread until SIGINT.

| Part | Source | State it keeps | Operations | Hard about it |
|---|---|---|---|---|
| Logger | `srcs/log/log.c` | ring of entries, head, tail, `log_running`, mutex, condition variable, `FILE*` | `log_init`, `log_msg`, `log_close`, worker thread | two threads; ring full and wrapping; lost wake-up; order of drain, join and `fclose` |
| Event loop | `srcs/server/server.c` | listener, epoll descriptor, event array | `server_init`, `server_select` (accept, client event), `server_cleanup` | events that go stale in their batch, edge-triggered clients, blocking accept, descriptors used up and reused, half-arrived requests |
| Router | `srcs/router/router.c` | hash table path → handler | `router_add/delete/clear`, `router_handle_http_request`, `router_parse_http_request`, `router_http_generate_response` | two parsers of the same bytes, one with a buffer of its own that a line may outgrow; requests that came in part |
| Lifecycle | `srcs/main.c` | `m_die`, the result, what is open | start-up, error path, loop, exit | every step can fail; two exit paths; signals; restarts |
| Configuration | `srcs/parse/config_file.c` | one `config_t` | `parse_config`, `parse_get_config`, `parse_free_config` | lines longer than the buffer; values pasted into another string; freed half way through `main` |
| Database | `srcs/db/db.c` | the connection | `db_init`, `db_execute`, `db_query`, `db_close` | errors reported as one code |
| Statement builder | `srcs/db/db_gen.c` | none; statement and parameters per call | create, insert, update, delete, select, timestamps | three loops that must stay in step when values are left out |
| Tables | `srcs/db/tables/*.c` | rows in Postgres | init, insert, select, update, delete per table | values that do not survive the round trip; ids that outlive their rows; a constraint added apart from its table; ignored results |
| Linked list | `inc/ft_list.c` | `next` and `prev` of each node | add, pop, walk | pointers of short lists |
| Mail | `srcs/mail/mail.c` | none | pipes a message to msmtp | – |
| Allocation | `inc/ft_malloc.c` | none | allocate or exit | – |

How they interact: `main` calls each part in turn; the event loop calls
`m_http_request_handler` in `main.c`, which calls the router; all of them call
`log_msg`; the tables call the statement builder, which calls `db.c`. Shared
between threads is only the logger's ring and the flag `m_die`, which the
signal handler sets. The program registers no route and calls no row operation
of the tables yet, so those parts are libraries at this commit, and their
models let a caller do anything the interface allows.

What makes each part correct, in one line each:

* Logger: an accepted line is written once and in order, the worker never
  sleeps on work, and `log_close` returns with everything written.
* Event loop: a client that speaks is heard and answered at most once, no other
  connection is closed for it, and the loop never hangs and ends on the signal.
* Router: a request whose first line fits its buffer is routed by the path its
  handler will see, and one heard in part is never routed elsewhere.
* Lifecycle: it serves only when everything is ready, gives back its port and
  its epoll instance, and can always be started again.
* Configuration: each setting is what the last line about it says, and Postgres
  is asked for it, if it can stand unquoted.
* Tables: what a caller holds is written back to the row it came from, an id
  never comes to mean another row, and nobody likes twice.
* Statement builder: whichever values are left out, each value lands in its
  column.
* List: the pointers are one ring through the nodes that were added.

## 2. The modules

| Module | Models | Depends on |
|---|---|---|
| `LogChannel` | what the logger promises: a bounded first-in first-out channel | – |
| `Log` | `log.c`: both threads, the mutex, the condition variable, the ring | refines `LogChannel` |
| `Log_proofs` | proofs about `Log` | `Log`, TLAPS |
| `MCLog` | levels and thresholds for TLC | `Log` |
| `HttpService` | what one client is promised by the server | – |
| `Server` | `server.c` and `main_loop`, over epoll, clients and descriptors | refines `HttpService` |
| `Server_proofs` | proofs about `Server`, and about its composition with `Router` | `HttpServer`, TLAPS |
| `MCServer` | three clients and their request sizes | `Server` |
| `HttpServer` | the event loop with the router as its callback | `Server`, `Router` |
| `MCHttpServer` | three clients' requests and where they are cut | `HttpServer` |
| `Router` | `router.c` over tokens | – |
| `Router_proofs` | proofs about `Router` | `Router`, TLAPS |
| `MCRouter` | routes | `Router` |
| `Config` | `parse_config` of `config_file.c` and `db_init` of `db.c` | – |
| `MCConfig` | lines of a file | `Config` |
| `Main` | `main.c` and restarts of the process | composes with `LogChannel` |
| `Main_proofs` | proofs about `Main` | `Main`, TLAPS |
| `DbGen` | `db_gen.c` and `db_execute`, over one Postgres table | – |
| `MCDbGen` | four kinds of column list | `DbGen` |
| `MCDb` | one process: configuration, connection, statements | `MCConfig`, `MCDbGen` |
| `Db_proofs` | proofs about `Config` and `DbGen` | `Config`, `DbGen`, TLAPS |
| `Tables` | the row operations of `db_table_user.c` and `db_table_session.c` | – |
| `MCTables` | a bound on what sessions are made for | `Tables` |
| `Tables_proofs` | proofs about `Tables` | `Tables`, TLAPS |
| `Relations` | the row operations of the other six `db_table_*.c` | – |
| `Relations_proofs` | proofs about `Relations` | `Relations`, TLAPS |
| `MCRelations` | symmetry of users and names | `Relations` |
| `FtList` | `ft_list.c` | – |
| `FtList_proofs` | proofs about `FtList` | `FtList`, TLAPS |
| `MCFtList` | five nodes | `FtList` |

Definitions have the names of the functions and variables they translate.
Operators marked "mutant" in a comment stand next to the definition they could
replace: each is a plausible slip in the code, which the property named in
`PROJECT.json` catches.

### Logger: `Log`

State: the ring (`log_queue`, `log_queue_head`, `log_queue_tail`),
`log_running`, `log_mutex` (free, or its holder), `m_log_fp`,
`m_log_threshold`, a program counter for each thread (`mpc`, `wpc`), the line
being formatted, the worker's copy `entry`, the file and the console as
sequences of lines, and two histories (accepted and lost lines).

A step of a thread is what it does between two points where the other can see
it. `log_msg` is three steps: format and filter, take the mutex, put the line
or drop it. The worker is six: take the mutex, test, sleep or take a line,
write, echo. `log_init` may fail to open the file or to create the thread;
`main` does not look at the result, so the model goes on in each case, and
`log_close` then joins a thread that was never made: undefined, modelled as a
choice between a crash and a return. Spurious wake-ups are there and need not
happen.

### Event loop: `Server`

The server thread's step is one call of a handler; clients and the signal act
between any two. `events` is the rest of the batch, each with the connection
it was reported for; `fdtab`, `interest`, `rdllist` and `backlog` are the
kernel's descriptor table, epoll's interest and ready lists, and the accept
queue, modelled as Linux documents them: `EPOLL_CTL_ADD` reports what is
already there, a client leaves the ready list when it is reported
(edge-triggered), the listener goes to its end (level-triggered), `close`
removes a descriptor from epoll, `accept4` returns the lowest free one. A
request is a number of segments, because how much of it the single `recv`
finds is all the code can tell apart. `m_handle_client_event` closes a client
itself when the callback returns ERROR and `server_select` then closes the
same number again: two steps here. What `recv` has returned is kept in `received`
while the callback runs, and clients go on sending and resetting meanwhile: an
answer is made of what had arrived before. The callback may not come back at all
(`Crashes` says for how much of which request): the process is then over, for
all clients. `signal_interrupts` is EINTR out of `epoll_wait`, from SIGINT or,
with `m_die` unchanged, because the process was stopped and went on;
`signal_handler` is the signal at any other moment. `SIGPIPE` is not there:
`main` ignores it before the loop begins, which is checked in `Main`.

`HttpService` knows clients one by one: waiting, taken up, refused, heard,
gone. `ImplementsService` maps `Server` to it.

### Loop and router together: `HttpServer`

Extends `Server` by the contents of each request and where the network cuts
it, and by `reply`, the answer of each client. The step of `Server` that
answers a client takes the answer from `Router!Replies` on the bytes the one
`recv` returned, and `Crashes` is where the router's `first_line` is too short
for them. The buffer is ended behind them, which is all that keeps a
longer request before from showing through.

### Router: `Router`

A request is a sequence of words, spaces, CRLFs and bytes 0, at which every
string function stops (`Text`). `RouteOf` is the first
parse (`router_handle_http_request`), `router_parse_http_request` the second,
which a handler would call on the same bytes. Requests arrive token by token,
so the router may be called on any prefix. The first line is copied into
`first_line[256]` without a look at its length (`FirstLine`, in tokens). One
that does not fit is written over the stack, which is undefined: the process
ends (`router_handle_http_request_crashes`), or any answer comes
(`AnyAnswers`).

### Lifecycle: `Main`

One step per call in `main`, with the calls of the start-up free to fail. The
log is an instance of `LogChannel`, which `Log` is shown to implement: the two
fit because `Main` uses only what the channel promises. A clean exit is
complete when the file is what was logged, in its order, without the lines a
full ring refused (`IsWithout`). A failed `log_init` leaves the channel unopened, and
`log_close` then joins a thread that was never made: it returns or the process
crashes, as in `Log`.

`fds` is what is open: the listener, epoll, the connection to Postgres, and
clients, who come and go with `server_select`. `Start` begins a new process on
the tables and the port that the last one left, which it may well find in its
way: a statement fails over a table that exists unless it says IF NOT EXISTS
(`Works`), the constraint on `likes` fails over one that exists or over rows
that break it, a statement may be carried out and its answer lost, and `bind`
fails on a port with lingering connections unless `setsockopt`, whose result
nobody looks at, has set SO_REUSEADDR (`Binds`). `failed` is a history: some
call outside the program has failed in this process.

### Configuration: `Config`

The operator writes a file of lines; `parse_config` reads it piece by piece as
`fgets` with a fixed buffer cuts it (`PieceEnd`), and assigns what each piece
says. `db_init` prints five settings into `conninfo`, which has a fixed size as
well, and libpq, external, takes them apart again: a value ends at a blank, one
that begins with a quote at the next quote, and a backslash makes the character
behind it an ordinary one. A key or a word is one token, and each character a
parser looks for is one. `Meant` reads the
same lines in a straightforward way, and is what the code is compared with.
`ConfigInit`, `ConfigNext` and `ConfigSpec` are named so that `Db_proofs` can
extend this module and `DbGen` together.

### Statement builder: `DbGen`

A statement is a list of column numbers, placeholder numbers and commas, so
that what the look-ahead loops print is what the database has to parse. The
caller's arguments are values or NULL. Postgres is one table with a key,
UNIQUE and NOT NULL columns, defaults and a SERIAL sequence; it executes a
statement whole or refuses it, and the answer of one that was executed may be
lost (`Reply`), which the caller takes for an ERROR.

### Users and sessions: `Tables`

The two tables as sets of rows, and what a caller holds between calls: several
`user_t`s, of one user or of many, and a `session_t`. What the statement builder makes of NULL arguments is
taken from `DbGen`. A user selected by name comes with strings that point into
a result already cleared: written back, they are any string. `births` numbers
the users in the order they were made, so that a row and a held user can be told
to be of the same user after deletions and renames. `made` keeps, for each
session that was inserted, the user it was inserted for: a row has the `number`
of its own insert and, as `origin`, the number of the insert its `user_id` came
from. An update from a copy of an earlier session of the same id changes the
second and not the first.

`expires_at` makes the whole round: `localtime` on the way into the table, and
on the way out `db_gen_parse_timestamp`, where `mktime` gets a `tm_isdst` that
was never set and the `time_t` is returned as an int. Times are hours, an int
holds a few of them, and some of them are in summer. What is undefined is a
choice: the clock read as winter time or as summer time.

### The other tables: `Relations`

The rows of six tables in one set, each with a number of its birth, the pairs
of `user_tags`, the sequence of each table, and one row the caller holds. What
all of them do alike is three operators with the names of `db_gen.c`; the
actions of a table say which columns it passes. The selects of a table differ
in the rows they look for and end alike, with one row in the caller's hands.
An update of a picture writes its owner too, whoever that is.
The process starts and ends around this: `db_tlike_init` makes the table, and
`db_tlike_init_alter` adds the constraint, which may be refused or lost.

### List: `FtList`

`next` and `prev` as functions on nodes, and `items`, the list the header
promises. Positions are counted as the code counts them, and the error codes are
those of `error_codes.h`. `Spec` uses the operations that keep the promise; `SpecWithFirst`
adds `add_first` and `pop_first`, which do not.

## 3. The runs

| Run | Instance | Shows |
|---|---|---|
| `log` | ring of 3, 4 calls, all levels and thresholds, each outcome of `log_init` | `TypeOK`, `DeliveredInOrder`, `NoSleepWithWork`, `StreamOpenWhileWriting`, `ClosedMeansFlushed`, `EchoMirrorsFile`, `CloseReturns`, `ImplementsFairChannel` |
| `server_safety` | `HttpServer`: 3 clients, 2 descriptors, batches of 2, queue of 2, requests of 1 and 3 segments, 2 routes, `first_line` of 7 tokens, callbacks and `epoll_ctl` may fail | `TypeOK`, `NoStaleEvent`, `NoLostReadiness`, `AcceptNeverBlocks`, `WatchedIffOpen`, `HangsUpOnlyOnItsClient`, `AnswerFitsRequest`, `ImplementsServiceSteps` |
| `server_live` | `Server`: batches of 1, one segment each, callbacks may fail, one client's may not come back | `QueuedIsAccepted`, `SignalEndsLoop`, `ImplementsService` |
| `router` | requests of up to 8 tokens, `first_line` of 5, 2 entries | `HandlerSeesItsPath`, `PiecesMakeTheRequest` |
| `main` | 2 processes, log capacity 2 | `ServesOnlyWhenReady`, `ConfigThereWhenUsed`, `FaultlessStartServes`, `ListenerClosedOnReturn`, `CleanExitIsComplete`, `SignalEndsProcess` |
| `database` | files of up to 2 lines, values with blanks, quotes and backslashes, pieces of 7 tokens, 9 tokens in the connection string; then 4 column lists, 2 strings, 2 rows | `ReadsWhatIsMeant`, `AsksForWhatIsMeant`, `StatementsParse`, `InsertStoresItsValues`, `UpdateChangesItsColumns` |
| `tables` | 2 names, 1 text, 2 ids, 2 copies held, 1 session id used twice, ints of 6 hours, 2 of them in summer | `NeverAnothersSession`, `UpdateHitsItsUser`, `WriteBackIsWhatWasRead`, `ExpiryMovesAtMostAnHour` |
| `relations` | 2 users, 2 names of tags, 3 ids in all tables together | `LikedOnce`, `IdsOutliveNothing` |
| `ftlist` | 5 nodes | `RingMatchesItems`, `ForwardReadsAgree` |
| `dbgen_null`, `ftlist_with_first`, `tables_owner` | as above | disagreements between a header and the code, section 6 |

Why the bounds are enough to be interesting:

* A ring of 3 slots holds 2 lines; 4 calls fill it, overflow it and wrap both
  indexes while the worker holds a line of its own. The proofs cover every
  other size.
* With 3 clients on 2 descriptors one has to wait for a descriptor, a number
  is reused, and a batch of 2 can hold the listener and a client, or two
  clients. A buffer of two segments is shorter than the longest request, which
  is for a handler and is cut in its path and in its body; the others come
  whole and are longer than its first part. The first line of one of them does
  not fit `first_line`, so that the process may end on it, or go on with any
  answer, next to clients whose lines fit. Of the three one closes, one
  resets and one is refused at most (`OneOfEach`), which is enough for each to
  happen while the two others are queued, open or in the batch.
* `server_live` takes batches of one event, the harder case for fairness
  between clients, since the order is then epoll's alone.
* 8 tokens are enough for a path with both spaces, a blank line, and a method, a
  header or a body, with a byte 0 anywhere; 5 tokens of `first_line` hold the
  shortest lines with both spaces and a path, and not the longer ones.
* Two processes show a restart after every way the first one can end, over any
  part of the tables and over a port with lingering connections.
* In `database` two rows are the least for UNIQUE and key conflicts, and the four
  column lists have the key first, last, composite, and with and without
  defaults. They follow users, sessions and user_tags; the last has its key at
  the end, which no table has and the interface allows.
* In its files two lines are the least for one to override another. A line of 7
  tokens fills the buffer so that its end is read by itself, and longer ones
  are read as two; two full values do not fit the connection string.
  The statements are sent after an empty file only, as what is in the file makes
  no difference to them.
* In `tables` two ids are two users at a time, or one made after the other was
  deleted, and two names let the new user take the old one's name. Two copies
  are the least for one to be stale because of the other. Two inserts under one
  session id are a session, its deletion and another in its place; they are made
  for plain users only (`PlainWithSessions`), since what a user is called or says
  has no part in what becomes of its sessions. One expiry is in summer and one past the largest
  int; written back they reach all the others.
* In `relations` three ids are two rows of a table and a notification about
  one of them, or a row, its deletion and a row made later; two like rows need
  two starts to become a constraint that is refused.
* Five nodes: one more than any special case in the walks depends on.

Deadlock is checked in every run; where a system may be over (`Ended` in `Log`,
`Server`, `Router`, `Main`, `Done` in `Config`) it says so with a stuttering
step, and `DbGen`, `Tables`, `Relations` and `FtList` always have a next call.

Fairness, each where the code's scheduling justifies it:

* `Log`: weak fairness of the main thread inside a call and of the worker. The
  mutex need not be fair: `pthread_mutex_lock` of the main thread competes with
  a worker that comes back only for a line, a signal or a spurious wake-up, and
  spurious wake-ups are assumed not to go on for ever. Nothing obliges the
  program to log, to close or to end.
* `Server`: weak fairness of the server thread. `epoll_wait` has a timeout, so
  the thread always runs on. Clients may be silent for ever and the signal need
  not come.
* `Main`: weak fairness of the main thread and of the log worker. That the loop
  sees `m_die` is not assumed out of nothing: `SignalEndsLoop` of `Server` says
  so.
* `LogChannel` and `HttpService`: weak fairness of delivery and of the service,
  which are what the detailed models are shown to implement.

## 4. The proofs

Each `*_proofs` module proves, from the assumptions that its component names
and from nothing else, that the properties the runs check on a small instance
hold for every value of the constants. The listed theorems:

| Component | Theorem | States |
|---|---|---|
| `Log` | `InvInvariant`, `EchoInvariant` | the inductive invariants `Inv`, `EchoInv` |
| | `TypeCorrect` | `Spec => []TypeOK` |
| | `InOrder` | `Spec => []DeliveredInOrder` |
| | `NoLostWakeup` | `Spec => []NoSleepWithWork` |
| | `StreamSafe` | `Spec => []StreamOpenWhileWriting` |
| | `Flushed` | `Spec => []ClosedMeansFlushed` |
| | `ConsoleComplete` | `Spec => []EchoMirrorsFile` |
| | `ChannelImplemented` | `Spec => ImplementsChannel` |
| `Server` | `IInvInvariant` | the inductive invariant `IInv` |
| | `TypeCorrect` | `Spec => []TypeOK` |
| | `NeverStale` | `Spec => []NoStaleEvent` |
| | `NothingLost` | `Spec => []NoLostReadiness` |
| | `NeverBlocks` | `Spec => []AcceptNeverBlocks` |
| | `AlwaysWatched` | `Spec => []WatchedIffOpen` |
| | `OnlyItsClient` | `Spec => HangsUpOnlyOnItsClient` |
| | `ServiceImplemented` | `Spec => ImplementsServiceSteps` |
| `HttpServer` | `LoopInside` | `HttpSpec => Spec` |
| | `HInvInvariant` | the inductive invariant `HInv` |
| | `EachItsAnswer` | `HttpSpec => []AnswerFitsRequest` |
| | `AnsweredOnce` | `HttpSpec => RepliesStay`, an action property |
| `Router` | `RouterInvInvariant` | the inductive invariant `RouterInv` |
| | `HandlersPath` | `Spec => []HandlerSeesItsPath` |
| | `NothingLostInParsing` | `Spec => []PiecesMakeTheRequest` |
| `Main` | `MInvInvariant` | the inductive invariant `MInv` |
| | `ReadyToServe` | `Spec => []ServesOnlyWhenReady` |
| | `ConfigThere` | `Spec => []ConfigThereWhenUsed` |
| | `FaultlessServes` | `Spec => []FaultlessStartServes` |
| | `ListenerClosed` | `Spec => []ListenerClosedOnReturn` |
| | `CleanExit` | `Spec => []CleanExitIsComplete` |
| `Tables` | `TInvInvariant` | the inductive invariant `TInv` |
| | `OwnSession` | `Spec => []NeverAnothersSession` |
| | `HitsItsUser` | `Spec => UpdateHitsItsUser` |
| | `WritesWhatWasRead` | `Spec => WriteBackIsWhatWasRead` |
| | `AtMostAnHour` | `Spec => ExpiryMovesAtMostAnHour` |
| `Relations` | `RInvInvariant` | the inductive invariant `RInv` |
| | `NobodyLikesTwice` | `Spec => []LikedOnce` |
| | `IdsNameNoOther` | `Spec => []IdsOutliveNothing` |
| `FtList` | `FInvInvariant` | the inductive invariant `FInv` |
| | `OneRing` | `Spec => []RingMatchesItems` |
| | `ForwardWalks` | `Spec => []ForwardReadsAgree` |
| `DbGen` | `DbInvariant` | the inductive invariant `DbInv` |
| | `StatementsParseTheorem` | `Spec => []StatementsParse` |
| | `InsertStoresItsValuesTheorem` | `Spec => InsertStoresItsValues` |
| | `UpdateChangesItsColumnsTheorem` | `Spec => UpdateChangesItsColumns` |
| `Config` | `ConfigInvariant` | the inductive invariant `ConfigInv` |
| | `ReadsWhatIsMeantTheorem` | `ConfigSpec => []ReadsWhatIsMeant` |
| | `AsksForWhatIsMeantTheorem` | `ConfigSpec => []AsksForWhatIsMeant` |

All proofs have the same shape. None of the properties is inductive alone, so
each module opens with the strengthening that is; one lemma says that `Init`
establishes it, one lemma per action (or group of actions) that the action
keeps it, and the theorem about it joins them. The properties then follow from
the invariant. Facts about data that several actions need (rings, queues,
sequences with one element taken out) are lemmas in front, so that the lemmas
about actions do not mention indexes.

**`Log`**, for every `LOG_QUEUE_SIZE >= 2`, every set of levels and thresholds
and every number of calls. That the worker does not sleep on a line needs that
it tests under the mutex and that the main thread puts under it (`MutexInv`);
that the stream is open needs that `log_running` is cleared only on the way out
of `log_close` and that the join waits for `done` (`MainInv`, `WorkerInv`); that
the file is complete needs the position of every accepted line
(`DeliveredInOrder`) and an empty ring at `done`. `Inv` is the conjunction of
these with the types. `NextSlotValue` removes the modulo; `RingShape`,
`PutShape` and `TakeShape` say how the count and the positions of the ring
change when a slot is filled or taken. `EchoInv` adds for the console that the
threshold is set before the first line, so that the worker's second filter
repeats the first. For the channel, `OwedShape` turns the ring and the line in
the worker's hand into the sequence of lines owed to the file; then a put
appends to it, a write takes its head, and no other step moves it.

**`Server`**, for every number of clients, sizes of requests, descriptors,
length of the accept queue and `MAX_EVENTS`. `IInv` says that the descriptor
table is one to one with the open clients (`TableInv`) and with what epoll
watches (`WatchInv`), that queue, ready list and batch name nobody twice
(`QueueInv`, `ListInv`, `Distinct`), what the thread has in hand at each point
(`LoopInv`), that a batch with the listener in it leaves somebody in the queue
(`ListenerInv`), and that what a batch says is still true (`NoStaleEvent`,
`NewsInv`). `Distinct` is what makes closing safe: the events left in a batch
are for other descriptors, so closing one and giving its number away cannot
make them stale. For `NoLostReadiness` the cases are the ways out of the ready
list: into the batch, or out of epoll. `AnswerInv` serves the refinement only:
that a client taken up has no answer yet. `OnlyItsClient` needs that the
descriptor closed a second time is free, and that the client of an event has
something in it. The refinement is proved client by
client: a step of the loop changes the view of one client, in the way
`HttpService` allows, or of none.

**`HttpServer`**, for every set of requests and every way to cut them.
`LoopInside` gives it all of the above. `HInv` adds that a reply is one that
the router makes of the segments the client was answered from, whatever that is
for a line that does not fit. For one that fits, the router looks at the first
line only, so that a part of a request which has that line is answered as the
whole (`SameLine`), and one that has not is answered 400 (`PartOrBad`). Nothing
follows for a client whose line does not fit, or for whether a handler gets the
whole of its request. `AnsweredOnce` follows because an answer needs `answered = 0`.
`RepliesStay` is stated in the proofs; no run checks it, as
`ImplementsServiceSteps` says the same of `answered` to TLC.

**`Router`**, for every set of words and paths, every size of `first_line`,
requests and tables of any length. `FindFacts` says what `strchr` and its kin return, `Pieces` and
`Rejoined` that a sequence cut at a place is put together again from its
pieces, `SamePath` that the two parsers cut the path at the same two blanks.
`PiecesInOrder` is the order of the five places at which the second parser
cuts, from which `NothingLostInParsing` follows.

**`Main`**, for any number of starts and any size of the logger's ring.
`StartInv` says how far the start has come in descriptors, statements and
signals, `EndInv` how far the end has. `FaultlessServes` is a case analysis of
what an earlier process may have left: no table is in the way of its statement,
the constraint may be and is forgiven, and the port is not, as long as
`setsockopt` succeeds. That all tables are there when the loop starts
needs the statements one by one, and that those which may fail are optional;
`Said` bounds which lines can have been logged at a point: `CleanExit` tells
refused lines by their text, so no text may be logged twice in a process.

**`Tables`**, for all names, texts, session ids and times, any time zone, any
width of the `int` and any number of copies held. `References` collects
everything that names a user by its id: rows, the caller's copies, and the
sessions that were made; `IdsInv` says that an id there is one the sequence has
handed out and names one user. With that, no stale copy of a user can reach
another one. `SessionsInv` says that the user of a session, in its row or in a
copy, is that of an insert (`FromMade`): its own, or an earlier one's that an
update from an old copy brought along. `AsReadInv` says of the session held,
until it is edited, that its expiry is one of the readings of what it was read
from.

**`Relations`**, for all users and names and any number of ids, starts and lost
statements. `IdsInv`: a row and whatever names it carry the number of its
birth. `LikesInv`: the constraint, once there, stays, and where it is not there
a start has lost its statement.

**`FtList`**, for every finite set of nodes. `Ring` is the promise without
lengths and moduli, and `RingAdd` and `RingPop` say what two assignments to
`next` and two to `prev` make of it. The walks (`Steps`) are recursive
functions. What such a function is at `k` is proved from its definition alone:
a function with the recursion's property is written down (`StepsIs`), and a
least place at which two of them could differ is refuted (`UpwardsTo`, with
`WFMin`), so that no induction principle over operators is needed.

**`DbGen`**, for every sequence of columns with a primary one that is not
nullable, every set of strings, every subset of left-out values and any number
of rows. The invariant `DbInv` is small: calls and rows fit the schema and the
key of the table is its primary columns. The work is in the lists. `Flattened`
says what `FlattenSeq` makes of any sequence of pieces: a sequence of partial
results, each the one before and one piece more; a set of numbers that has 0
and the successor of each of its members has them all (`UpwardsTo`, by a least
number missing), which stands in for induction over the list. From it follow
the items of a printed list and its commas, and that the k-th name, the k-th
placeholder and the k-th parameter belong to the same column: the number of
columns with a value up to the k-th (`Rank`) is the place of each. Then what
the database assigns is what was passed.

**`Config`**, for every file whose lines fit the buffer, every size of the two
buffers, all keys and all defaults. `ConfigInv` says what has been read between
two calls of `fgets` (`HasRead`): the first n lines, and perhaps the end of the
last of them, which a line as long as the buffer leaves behind; and each
setting is what the last of those lines about it says, or its default
(`SaysUpTo`). A piece is then a line with its end, without it, or an end alone
(`LineIsTaken`), and trimming it gives what stripping the line gives
(`TrimIsStrip`, `LineIsRead`). For the connection string, `SettingsAre` solves
the recursion of libpq's reader (`LooksOn`: each place looks only further on,
so that a solution is found from the end). Every tail of what is printed is the
end of the text, and between two tails stands one setting, without a blank in
its value and with one behind it (`SettingsStand`); so it is read, and the next
one after it (`ReadsSetting`, `OneByOne`). That no value is empty or begins with
a quote is used where the reader looks for the value behind the `=`; that none
has a backslash, so that its end is the first blank (`NotEscaped`,
`FirstBareIs`) and that it is read as it stands (`UnescapedIs`). What `atoi` makes of the digits
is left as it is: `Converted` is the same in the code and in `Meant`.

What the assumptions say, and why they cost nothing: sizes and limits are
natural numbers, and positive where the code has a positive macro; `NULL` and
`NoConn` are none of the values they stand beside; `Router`'s words are not its
separators, and its paths are made of words, because a path in a request ends
at a blank; `HttpServer` cuts each request into as many pieces as `Server`
counts, the last at its end. A schema is a sequence and has a primary column
that is not nullable, as each of `srcs/db/tables` has. Keys are not the
characters that the parsers look for, a text setting is neither a number nor a
flag, a line of the file has no end of line inside, and both buffers hold
something.

Checked by TLC only:

* Liveness, and with it the fair half of the two refinements: `CloseReturns`,
  `ImplementsFairChannel`, `QueuedIsAccepted`, `SignalEndsLoop`,
  `ImplementsService`, `SignalEndsProcess`. The prover knows no `ENABLED`, and
  so no weak fairness. What they need of safety is proved: the worker does not
  sleep on work (`NoLostWakeup`), no readiness is lost (`NothingLost`) and
  `accept4` does not block (`NeverBlocks`).
* The three runs that end in a counterexample (`dbgen_null`, `tables_owner`, and
  `ftlist_with_first` with `SpecWithFirst`), which no theorem can state.

## 5. What the checks show about the code

Properties that hold, and that a test would hardly reach:

* The logger never loses an accepted line while the process lives, whatever the
  interleaving; the second application of the level filter in the worker never
  drops what the first one let through.
* No event of a batch goes stale: a client's descriptor is closed only by the
  handling of its own event, and the second `close` after a callback's ERROR
  comes before anything else can take the number.
* A blocking `accept4` is safe here: only the server thread takes connections,
  a batch holds the listener at most once, and a connection that was reset
  while queued stays in the queue.
* The two parsers of the router agree on the path of every first line that fits
  `first_line`.
* A user that is written back after any delay lands in its own row or nowhere,
  and a session left behind by a deleted user does not become that of a user made
  later, because the sequence hands out no id twice.
* A client whose first line fits `first_line` is answered with the code and by
  the entry that its own whole request deserves, or with a 400 if `recv` came
  before the line was complete; a part of a request never reaches another path,
  and the buffer of an earlier client never shows.
* The server hangs up on a client only when that client has sent something or
  has left, never on another one in its place. A write to one that has reset its
  connection raises `SIGPIPE`, which `main` ignores before it serves.
* Every setting survives blanks, comments, overriding lines, a second `=` and a
  missing end of the file, in lines that fit the buffer.
* A process that dies between making `likes` and constraining it is put right
  by the next start. Ids in notifications, `user_tags` and callers' hands
  outlive their rows and never come to name another.
* A start that gives up has closed the listener and the epoll instance, and no
  earlier process leaves anything behind in the tables or on the port that stops
  a start in which nothing else fails.

Behaviour worth knowing, none of it contradicted by a text:

* A first line of 256 bytes or more is written past `first_line`
  (`router.c:202`), on which the process may end for all clients.
* A request that comes in two segments is answered for the first one (a 400
  unless its line was complete) and closed. Its handler gets a cut body, and
  cannot tell.
* The connection to Postgres is never closed, and neither are the clients that
  are connected when the loop ends; the system does it when the process is over.
* Clients that connect and say nothing hold a descriptor each for ever; queued
  clients then wait (`QueuedIsAccepted` says: only for that).
* SIGINT inside `epoll_wait` is EINTR, taken as a failure of the loop: `main`
  then leaves without `server_cleanup` and returns 0. A process that is stopped
  and goes on ends in the same way, without any SIGINT.
* `signal_handler` handles SIGTERM but `main` installs it for SIGINT only.
* A failed `log_init` is not noticed, and `log_close` then joins a thread that
  was never created: a crash, or a return as if all was well.
* The error path of `main` does not call `log_close`: lines the worker has not
  written are lost.
* The rest of a line longer than the buffer is read as a line of its own, even
  the rest of a comment, and may set something.
* An empty database setting takes the name of the next one for its value
  (`host= port=5432` asks for a host called `port=5432`), and one with a blank
  in it is cut there; one with a backslash loses it; one that begins with a quote
  goes on to the next quote, over the names of other settings; a long one loses
  what does not fit in 512 bytes.
* When a start loses the statement for the constraint on `likes`, it serves
  nevertheless (the block forgives `duplicate_object`, and Postgres calls a
  constraint that is there `duplicate_table`: the statement fails on every later
  start, to no effect); a pair that is then stored twice makes every later start fail
  to add the constraint, without a word.
* An update of a row that is gone is a SUCCESS, and so is an insert of a user
  that the database refused.
* The expiry of a session moves by an hour each time it is read and written
  back in the wrong season; one past January 2038 turns into 1901.
* A user that never was online, read and written back unchanged, is refused by
  the database: its `last_online` comes back as an empty string. Any other NULL
  text comes back as an empty string too.
* A user written back from the older of two copies undoes what was written from
  the newer: every column is written, and nothing tells that it has changed.
* A user selected by name holds strings whose memory is free: written back,
  they destroy the row's own strings.
* No route is registered, so every well-formed request is answered with 404.
* A request with no header at all, whose line is followed by the blank line at
  once, is refused by `router_parse_http_request`: it looks for the blank line
  after the end of the first line.

## 6. Disagreements between a text and the code

Each has a run that ends in a counterexample and a row in `PROJECT.json`.

* `db_gen.h:49-50` says that NULL passed to `db_gen_insert` stores SQL NULL.
  The column is left out, so its DEFAULT is stored (`dbgen_null`).
* `db_table_session.h:65` says that `db_tsession_update` updates a session's
  expiration and CSRF token. It writes `user_id` as well, so that the copy of a
  deleted session, written over one made later under the same id, gives that one
  to the old user (`tables_owner`).
* `ft_list.h:25` says that `ft_list_add_first` adds the node in the first
  position; it leaves the rings along `next` and `prev` different
  (`ftlist_with_first`).

Of the same kind, and visible in the operators of `FtList`:
`ft_list_get_first` returns the second node of a list of two or more, where
`ft_list.h:46` says "returns first node",
`ft_list_pop_first` takes out what `ft_list_get_first` returns (`ft_list.h:37`),
`ft_list_get_prev` of the second node is NULL (`ft_list.h:31`), and
`ft_list_find_node` answers the position of a node, counted from 0, where
`ft_list.h:52` says that it "returns OK", which is 1: so it does for the second
node alone. `ForwardReadsAgree` claims no more of it than that its answer is
negative for a node that is not in the list, and for no other.

## 7. Not modelled

* The text of responses (`router.c:11-96`): an answer is its status. Short
  writes are not told apart from whole ones, because the code ignores both.
* `ft_malloc.c`: ends the process when memory runs out. Allocation never fails
  in the models.
* `mail.c`: a pipe to msmtp without state; nothing calls it.
* Signals other than SIGINT, SIGPIPE and the ones that kill; what is on the stack
  behind `first_line`.
* Formatting and the 512-byte cut of a log message.
* `db_close` and `db_clear_result`: nothing calls the first, the second frees a
  result. Results are read where rows are selected.
* Contents of the tables beyond what ties rows together: texts, locations,
  times other than the expiry of a session.
* The length of a statement against the buffer estimated for it: no schema of
  the program comes near it.
* uthash (vendored), Makefiles, the Python clients, the database container.

## 8. Plan

The models cover the parts listed in section 1, and every invariant and action
property that the runs check is proved as well. What is left, in this order:

1. Action properties that the inductive invariants already carry: accepted
   lines and the file only grow (`Log`), an id never goes back (`Tables`,
   `Relations`), a closed client stays closed (`Server`).
2. What the atoi of `Config` returns for a list of digits of any length.
