# Verification of the NativeScript plugins

This directory holds TLA+ models of the plugins of this repository that have
logic of their own, the TLC configurations that check them on small instances,
and proofs, checked by TLAPS, of their main properties for every instance. Paths
below are relative to `src/`; `android/` stands for
`packages/nativescript-sqlite/platforms/android/native/src/`, `ios/` for
`packages/nativescript-sqlite/platforms/ios/src/`, `sqlite/` for
`packages/nativescript-sqlite/`, `mqtt/` for `packages/nativescript-mqtt/` and
`storage/` for `packages/nativescript-supabase/supabase-storage/`.

## 1. Inventory

The repository holds six plugins. Three have logic that can go wrong in ways a
test hardly reaches: SQLite, where most of the code is; the MQTT client; and the
storage client of the Supabase plugin.

| Component | State it keeps | Operations | Hard part |
|---|---|---|---|
| Thread pool (`android/async/thread_pool.*`) | task queue, `busy_`, `claimHandedOff_`, owner and depth of the inline claim, `stop_` | `enqueue`, `acquireInline`, `releaseInline`, `shutdown`, the worker loop | one mutex, one condition variable, three kinds of sleeper; a claim passed between threads |
| Android dispatcher, V8 (`android/async/android_dispatcher.*`) | per connection: pool, completion queue, eventfd registered with the looper | `dispatch`, `looperCallback`, `drainCompletions`, destructor | completions that free their own dispatcher; re-entry by a continuation that pumps the looper |
| Completion queue, Node-API (`android/async/napi_dispatcher.*`) | one queue per environment, `signalPending_`, the threadsafe function | `post`, `drain`, `requeue`, `finish`, `shutdown`, `dispatch` | a coalesced signal: a completion posted just as the drain gives up; a deadline; failing handle scopes |
| Database binding, V8 (`android/bindings/database_binding.cpp`) | `DBInstance`: connections, `closing`, `readersReady`, `pendingReads`, `openPending`, first failure | `Open`, `execute`, `select`, `initialized`, `close`, collection, transactions, `executeSync` | teardown from a completion, reads parked until the writer is open, opens finishing in any order |
| Database binding, Node-API (`android/bindings/database_binding_napi.cpp`) | the same, and the set of live instances of an environment | the same, and the environment's cleanup hook | a hook that runs in the middle of a teardown |
| SQLite connection (`android/common/sqlite_connection.*`) | handle, `txRegistry_`, `openFailed_`, statement registry | open sequence, execute, select, begin, commit, rollback, prepared statements | which transaction a statement belongs to |
| Database, iOS: writer (`ios/NSSQLiteDatabase.mm`) | writer queue, `_hasActiveWriteTx`, `_activeWriteTxId`, `_pendingTxStarts`, `_writerQueueSuspended` | transactions, synchronous calls | a gate opened and passed on in separate critical sections; a queue suspended by the thread that waits for it |
| Database, iOS: connections (same file) | reader queues, `_readerAvailable`, `_readTxHandles`, `_preparedStmts`, `_pendingOpens`, `_openError`, `_initCompletions` | opening, reads, read transactions, prepared statements, `initialized`, `close` | readers shared by plain reads and read transactions; blocks that outlive what they refer to |
| Opening sequence (`sqlite/common.ts`, and both native layers) | none | `resolveOpenSequence`, `resolveEncryptionKey`, the loop over the steps | the order of key, WAL and the caller's statements; one database behind several connections |
| TypeScript API (`sqlite/index.{android,ios}.ts`) | `_isOpen`, `_savepointCounter` | `transaction`, `readTransaction`, `transactionSync`, `savepoint`, every kind of read, `close` | what is sent after something failed, and behind what; nested calls known by a name only |
| Drizzle driver (`sqlite/drizzle-driver.ts`) | its transaction's | `transaction`, nested by savepoints; `run`, `all`, `get`, `values` | savepoints named by depth; an error replaced by another |
| MQTT client, connection (`mqtt/paho-mqtt.js`, `mqtt/index.ts`) | socket, `connected`, `_reconnecting`, timers, pingers, `connectionState` and promise of the wrapper | connect, disconnect, one handler per socket event and timer | reconnection racing user calls and the sockets it left behind |
| MQTT client, delivery | messages in flight and their store, identifiers, subscriptions and their timeouts | publish, subscribe, unsubscribe, one handler per packet | QoS 1 and 2 over lost connections and restarts |
| MQTT client, packets | `receiveBuffer` | encode, decode, cutting the stream into packets | lengths computed by one part and bytes written by another |
| Storage client (`storage/`) | `shouldThrowOnError` of each client | its 40-odd requests | a flag read when an answer arrives; paths cleaned by some methods only |
| Ripple, SMS inbox, demos, build files | little or none | | not concurrent, or not part of the program |

How they interact, on Android: the JS thread calls the binding, the binding
dispatches a task to the dispatcher of one connection, its worker runs the task
and posts a completion, the looper (V8) or the threadsafe function (Node-API)
brings it back to the JS thread, which settles a promise. A synchronous call
claims the pool inline and runs the statement on the JS thread. On iOS one
serial dispatch queue per connection takes the place of the pool, and the main
queue that of the looper; a synchronous call sends a block and waits for it.
The TypeScript API turns `transaction(callback)` into BEGIN, the callback,
COMMIT, and a ROLLBACK when anything of it fails; everything else may run in
between. The MQTT client and the storage client run on the JS thread alone: what
interleaves there are handlers of sockets, timers and answers.

What makes each part correct:

* pool: one job at a time, in order of submission, no lost wakeup, `shutdown()`
  drains and returns;
* completions: run once, in order, none stranded, none after the instance it
  refers to is gone;
* database: readers open inside the writer's lifetime; a call made early is
  answered like any other; `close()` ends; `initialized()` reports the truth; a read
  transaction keeps its reader and its snapshot; nothing that was closed or
  finalized is used;
* transactions: a statement is committed in the transaction it was made for, or
  not at all; what stands outside never joins silently; what `transaction()`
  reports is what happened; a blocking call returns; nested calls are atomic;
* opening and rows: the key comes first and once, the caller's statements run in
  his order, all connections share one database; a row comes back as it went in;
* MQTT: the client never waits for a network that may say nothing; the wrapper's
  state is the client's; a message is delivered as often as its quality of service
  says; a packet is read back as what was asked for;
* storage: failures are reported in the way the caller chose; a path that was
  answered names the object.

## 2. Modules

| Module | Models | Proofs |
|---|---|---|
| `SerialExecutor` | what the pool promises: jobs start in order, one at a time | |
| `ThreadPool` | `thread_pool.{h,cpp}` | `WorkerProofs` |
| `NapiCompletionQueue` | `napi_dispatcher.{h,cpp}` | `WorkerProofs` |
| `AndroidDatabase` | `android_dispatcher.{h,cpp}`, and opening, calls, parking and teardown in `database_binding.cpp` | `AndroidDatabaseProofs` |
| `AndroidTransactions` | transactions from `index.android.ts` down to `sqlite_connection.cpp` | `AndroidTransactionsProofs` |
| `IOSTransactions` | transactions of `index.ios.ts` and the writer of `NSSQLiteDatabase.mm` | `IOSTransactionsProofs` |
| `IOSReaders` | opening, readers, read transactions, prepared statements, `initialized()` and `close()` of `NSSQLiteDatabase.mm` | `IOSReadersProofs` |
| `Selections` | what a loop keeps of a list, in its order | `TypeScriptProofs` |
| `OpenSequence` | options into steps, `common.ts`, and the native loop that runs them | `TypeScriptProofs` |
| `StatementResults` | parameters in, rows out, on both platforms | `TypeScriptProofs` |
| `NestedTransactions` | what nested `transaction()` calls promise | |
| `SqliteSession` | one caller of the TypeScript API or the Drizzle driver, over `OpenSequence`, `StatementResults` and `NestedTransactions` | `TypeScriptProofs` |
| `MqttConnection`, `MqttConnectionState` | connect, lose, reconnect, disconnect: `paho-mqtt.js` under `index.ts` | `MqttProofs` |
| `QosContract` | what a sender and a receiver of QoS 1 and 2 promise | |
| `MqttDelivery` | messages in flight, handshakes, store, subscriptions | `MqttProofs` |
| `MqttWire` | packets as bytes | `MqttWireProofs` |
| `StorageRequests` | every request of the storage client, as a table | |
| `StorageClient` | clients, their flag, and calls side by side | `TypeScriptProofs` |

Every `MC...` module extends the module it is named after; the configurations
give it its constants.

Each lower module justifies an abstraction of the next. `ThreadPool` with one
worker implements `SerialExecutor`, so `NapiCompletionQueue`, `AndroidDatabase`
and `AndroidTransactions` take a pool to be a FIFO with one worker, and an inline
claim to be a wait for everything queued before it. `NapiCompletionQueue` and
`AndroidDatabase` show that completions come back in order, so
`AndroidTransactions` takes the way back to be a FIFO too. `SqliteSession` has what
one caller does to itself, the two transaction modules what several do to each
other. `MqttDelivery` takes the coming and going of connections from
`MqttConnection`, and whole packets from `MqttWire`.

An operator commented "Fault:" is a wrong variant of the definition after it, of
the kind a bug in that code would be: a guard left out, a flag not cleared, a
notify forgotten. No specification uses it. With the definition replaced by its
fault the property named with it in `PROJECT.json` is violated, which shows that
the property depends on the code.

### ThreadPool

Every region under `mutex_` is one action. A notify made after the mutex is
released is an action of its own, so whatever may happen between the two does. A
worker spins, sleeps (`asleep`), takes a task, runs it, and clears `busy_` unless
the task gave its claim away; a client enqueues, waits for its claim, nests it,
releases it, shuts the pool down and joins. `issued` numbers the jobs.
`NotifyOne` wakes some sleeper, `NotifyAll` all of them; spurious wakeups are
left out, since a worker that wakes only re-evaluates its predicate.

### NapiCompletionQueue

Two workers post to the one queue of the environment. The drain takes the whole
queue as a batch, runs it (a completion may dispatch more work), looks again,
may spin for completions it knows are coming, stops at its deadline and signals
again, and puts back what is pending when the handle scope fails. `shutdown()`
is the cleanup hook: from then on posts are dropped.

### AndroidDatabase

Connection 0 is the writer; a behaviour chooses how many readers there are. `conn`
is what a worker did to the connection, `work` its tasks, `done` its completions,
`efd` whether its eventfd is readable. The looper first collects events
(`responses`) and then calls back; `frames` is the stack of drains, one deep unless
a continuation pumps the looper. `inst` is the native instance and `handle` the JS
object, which may be closed or lost. `parked` are, per reader, the reads made
before the readers were started. A drain looks at the queues it polls one after the
other, each under its own mutex, so what a worker posts to a queue already looked at
is left for its event: `Gather` takes one queue, `RunBatch` ends the look. Calls of
prepared statements are calls on the writer like any other: JS holds an id, which the
worker looks up when it gets there.

`MayPump` and `LateCallbacks` switch on behaviours that need an unusual
application or an unusual moment of the looper; the run leaves them off, and
section 3 says what each leads to.

### AndroidTransactions and IOSTransactions

The two have the same outline: the queue of the writer, the answers on their way
to JS, the state of `transaction()` calls (`pc`), the JS thread, and SQLite,
which is external: `owner` began the open transaction, `unit` is whose statements
it holds, `log` are the committed units. A statement is known by whom it belongs
to: a transaction, the span of a `transactionSync()`, an `executeSync()`, or a
plain `execute()`. Contents of tables are left out; the properties are about
which statements are committed together.

On Android the worker checks the id of a transaction when the statement runs; on
iOS the JS thread checks it when the statement is made, and the gate
(`_hasActiveWriteTx`) and its list make transactions take turns. The block that
ends a transaction on iOS is three actions (`WorkCommit` or `WorkRollback`,
`Release`, `Flush`) because the code takes `_txMutex` twice, with SQL before.

### IOSReaders

Every connection has a queue of blocks; a block runs in one step, and the open of a
reader waits for the open of the writer. `free` and `handle` are the claims of read
transactions, `turn` the reader the next plain read goes to, `map` and `alive` the
statements JS may still use and those SQLite still has. The data is the number of
writes committed: `version` outside, and `snap` for a transaction that has read
(WAL mode, to which the default open sequence switches). A call remembers how many
writes JS knew of when it was made (`seen`) and how many it saw (`saw`).

Not modelled: calls made after `close()` and before it resolves, whose blocks use
readers that are deleted and statements that are finalized by then, and reads of a
transaction that block JS, which are blocks on the same queue.

### SqliteSession

A behaviour first opens a database from one of the option sets, through
`OpenSequence`, and then nests transactions, writes, fails and ends them, as the
plugin on Android, the plugin on iOS, or the Drizzle driver would. SQLite's
savepoints are a stack of names, each with the table it saved; a call knows its
savepoint by name. `StatementResults` answers the reads; the properties compare each
entry point with the rows as they were written.

### MqttConnection, MqttDelivery and MqttWire

A handler is one step. In `MqttConnection` a handler is an operator from a state
of the client (one record with the fields of both objects) to the next, because
handlers call each other: `_disconnected` calls `onConnectionLost`, in which the
application may call `connect()`, which calls `_doConnect`. A socket that was left
behind keeps its handlers and calls them (`stray` remembers that one has), and
`disconnect()` may end a reconnection that a `connect()` is waiting for (`cut`). A
handler that throws ends the connection (`Answered`: a CONNACK with no timer to
cancel), and a `connect()` that throws leaves the wrapper connecting
(`ConnectRefused` for its options, `ConnectThrows` for a socket that is there).

In `MqttDelivery` a connection is two FIFO channels that lose their content with
it. `sent` and `received` are the messages in flight, `saved` and `savedIn` what
`localStorage` holds of them; a restart takes the first from the second. Packets
carry the message they are about in a field that no handler reads and the
properties look at.

In `MqttWire` strings are UTF-16 code units and bytes are numbers. The server is
written from the standard, not from the client, so that both sides of `encode()`
are not wrong in the same way. What an application gives as a payload has a kind: a
string or `Uint8Array`, an `ArrayBuffer`, or another view, whose elements have two
bytes (a `Uint16Array` stands for all wider ones) and which may show a part of its
buffer. `AsMeant` is the packet with the bytes of its payload, `AsWritten` the one
`encode()` writes, and `Encodable` says when it throws instead.

### StorageRequests and StorageClient

`StorageRequests` has one operator per method of the five API classes: what it
sends, what it takes from the answer, which errors it catches, how it names the
object. `StorageClient` runs calls of them side by side, over clients whose flag
`throwOnError()` may be set at any moment, with a server that answers in any order.
The application begins with a client of any class the package exports. The catalog
that `from()` of an analytics client makes counts as a client too: it has no
`throwOnError()`, and its flag is that of its maker when it was made. Uploads go
through the native HTTP module, whose `toJSON()` throws for a body that is not JSON.

## 3. Runs

| Run | Instance | What it shows |
|---|---|---|
| `pool` | 1 worker, 2 clients, 5 jobs, nesting 2 | one job at a time, implements `SerialExecutor`, every job starts and `shutdown()` returns: no lost wakeup |
| `napi_queue` | 2 dispatchers, 4 pieces of work | nothing stranded, order kept, every completion runs |
| `database` | writer with 0, 1 or 2 readers, opens may fail, readers and calls at most 3 together | nothing outlives the instance, readers inside the writer, answers right and in order, `initialized()` is right, everything settles |
| `android_tx` | 2 transactions, 2 statements outside spans, 1 span | isolation, safeguard, honest outcomes, everything settles |
| `ios_tx` | 2 transactions, 1 statement, 1 span, late use | airtight spans, turns, nobody forgotten in the list, everything settles |
| `ios_second_rollback` | 2 transactions, 2 statements, COMMIT may fail | finding: the ROLLBACK after a failed COMMIT ends the next transaction |
| `ios_readers` | writer and 2 readers, 4 calls of any kinds | snapshots hold and readers are not shared, `initialized()` and `close()` are honest, everything settles |
| `sqlite_session` | every open sequence of up to 3 entries, every kind of key; nesting 4, 3 rows | opening is sound, nested transactions are atomic, the caller's error wins, rows come back whole |
| `mqtt_connection` | 2 sockets at a time, 2 hosts, fallback of the version, 3 calls; the client, the application or both bring a lost connection back | nothing stalls, the wrapper agrees with the client, attempts end |
| `mqtt_delivery` | 2 calls out of 5 kinds, 1 message from the server, 1 lost connection, 1 restart | answers are not confused, both contracts of QoS, everything settles |
| `mqtt_wire` | strings at each limit of UTF-8, lengths at the limit of one digit, payloads of every kind, pieces of 1, 2 and 7 bytes or all | packets whole and in order, the server reads what was asked, a stored message is sent again as it was; what is lost of payloads that are neither strings nor `Uint8Array`s is named |
| `storage` | 2 clients, the first of any exported class, 2 calls, 5 paths, an outcome of each kind | failures reported as chosen, paths agree |

Bounds. Two clients are the fewest that contend for a claim, and nesting of two
separates the last release from the others; five jobs allow a claim, the task
queued behind it, the one queued in front of it, and another of each. Four
completions fill a batch, be posted during it, and be posted after the last look.
Two readers distinguish the first failure from the others and the last close
from the others, and with three readers and calls together there are two calls
beside one reader, the fewest with an order. Two transactions are the fewest that
overlap; one span, and one statement per kind of mistake, since each property is
violated by one statement in the wrong place. On iOS four calls are a read
transaction, two reads in it and a write between them, or two read transactions
and what is left when one has ended. A third entry of an open sequence is a
statement between the key and WAL; four levels of nesting are a failed savepoint
left on the stack with a name used again above it. Of two sockets one is current and
one was left behind; two hosts and two versions give each kind of next attempt.
Two calls of MQTT are one identifier given out while another is in flight; the
connection is lost once and the program restarted once at every point of a
handshake, each of which starts the same handshake again. Two storage calls are one
that was made before `throwOnError()` and one after. No constant of a passing run
hides an action: every action of every next-state relation occurs in one.

`ios_tx` sets `CommitMayFail` to FALSE, because with failing COMMITs the second
ROLLBACK of `ios_second_rollback` breaks most of its properties, and lets a span
wait for a queue that it suspended itself; and it does not list `SafeguardHolds` and
`StatementsStayHome`, which the differences below refute. The theorems about iOS
(section 5) hold for both values. `mqtt_delivery` sets `Durable` to TRUE and
`mqtt_wire` sets `DropAnywhere` to FALSE for the reasons given below.

Deadlock is not checked: in every module a behaviour ends when its bounds are
used up and the pool, the database or the connection is closed.

### Finding

`ios_second_rollback`, in `PROJECT.json` with the lines it contradicts: after a failed
COMMIT the TypeScript API on iOS sends a ROLLBACK whose id nobody checks, and it
ends the transaction that has begun meanwhile.

### Other differences between the code and its documentation

Where a switch is named, the model shows the difference when it is set.

Transactions and lifecycle, SQLite:

* Android: a second `transaction()` that begins before the first has ended is
  refused; the package's README says concurrent transactions wait.
* iOS: `executeSync()` looks at the gate and then waits for its block, so it may join
  the transaction that starts in between (`SafeguardHolds` of `IOSTransactions`).
* Android: a continuation that pumps the looper frees the instance under the batch
  that is being run (`MayPump`); the looper calls back a dispatcher that was freed
  when its event was collected before its descriptor was removed (`LateCallbacks`).
* Thread pool: with more than one worker, which the plugin never creates, one
  `claimHandedOff_` for two workers lets two inline spans overlap.
* Node-API: when the handle scope of a drain fails, the batch already taken is
  destroyed with its promises unsettled; `EveryCompletionRuns` excludes it by name.
* Android: `initialized()` resolves after a `close()` that came before the writer
  was open, though the readers never open; `InitializedMeansOpen` excludes it.
* Android: when SQLite rolls a transaction back by itself its id stays registered,
  and a later statement of it runs in autocommit mode. Not modelled.
* Android: two overlapping `close()` calls both reach the native close. Not modelled.
* iOS: `close()` inside a `transactionSync()` rolls it back, and the call returns
  as if it had committed. The END of a read transaction that fails is not reported.
* iOS: `beginTransactionSync` looks at the gate, then drains the queue
  (`NSSQLiteDatabase.mm:1691`). A transaction that was waiting can be started by what
  is drained: the BEGIN of the span then fails, and the ROLLBACK it cleans up with
  (`:1719`) ends that transaction: its later statements commit by themselves and its
  COMMIT fails. `undone` remembers it, and `WaitsItsTurn` is stated as long as it has
  not happened.
* iOS: a statement made by a transaction object after its COMMIT was queued passes
  the check of the id and commits by itself.
* iOS: plain reads go to readers in turn, also to one claimed by a read
  transaction, which the README calls dedicated. Such a read may miss a write
  committed before it was made, and may fix the snapshot of the transaction.
* iOS: calls made while `close()` runs use deleted readers and finalized
  statements; a second `close()` resolves at once, while the first still drains; a
  `finalize()` made during `close()` keeps the connection open until it ran.
* iOS: a first reader that could not open refuses every read transaction for as long
  as it is the first that is free; and the writer may close before the readers,
  which Android takes care to avoid.

Opening, statements, nesting:

* iOS gives no shared memory to `:memory:` with `serialized: false`, which
  `common.ts:235-236` offers; Android gives none to an empty path.
* The index of a failing step counts the steps left after empty statements were
  dropped (`common.ts:124`), not the caller's.
* Android: `get()` and `getArray()` take an error at the first step for "no row"
  (`sqlite_connection.cpp:711`, `:742`).
* An infinite number is written as `inf`, which is not JSON: the read rejects on
  Android; on iOS its promise is never settled. A `Uint8Array` is bound as NULL.
* iOS and Drizzle leave the savepoint of a failed call on SQLite's stack;
  `ImplementsNestedTransactions` shows that this does no harm to one caller.
* Drizzle: after a COMMIT that failed, the error of the ROLLBACK replaces it.
  Concurrent sibling savepoints share a name; not modelled.

MQTT:

* A CONNACK for a socket left behind is taken for the current one's. With messages
  to send again, the client then waits for nothing; `stray` excludes it.
* A retry timer that is armed again is forgotten, not cancelled, and fires later.
* When a `connect()` is under way while the client reconnects (it was called in
  `onConnectionLost` with automatic reconnection on, or a forgotten timer fired
  meanwhile), an attempt that times out leaves one timer for both, that of the next
  attempt. `disconnect()` takes it (`paho-mqtt.js:998`), and the promise of `connect()`
  then waits for what the network may never say; `cut` excludes it.
* `disconnect()` during an automatic reconnection returns without stopping it
  (`index.ts:240`); during a connection attempt it is queued, and forgotten with the
  next host or version. `connect()` throws during a reconnection, because there is a
  socket, and for options the library refuses, in both cases after the wrapper's state
  says connecting (`index.ts:233`). It keeps saying so, and refuses every later
  `connect()`, until a reconnection succeeds. No property speaks of that state.
* A CONNACK that finds no timer to cancel, as one of a socket left behind may, ends
  the connection (`paho-mqtt.js:1273`).
* A will whose payload is no string or `Uint8Array` goes out empty: `encode()` reads a
  variable of the PUBLISH case (`:324`). `ServerReadsRequests` says so of these wills.
* A typed array that shows a part of its buffer cannot be published: the whole buffer is
  written where there is room for the part (`:367`), and `encode()` throws (`Encodable`).
  With QoS 1 or 2 the message is in flight by then, and every later resending throws
  too; `MqttDelivery` does not model this.
* `store()` loops over the `length` of the payload, which an `ArrayBuffer` does not have,
  and writes two digits for a byte and more for a wider element (`:1102`): after a
  restart the one is sent empty and the other garbled. `RestoredIsResent` says of these
  that the rest of the message is the same. Elements that are negative or fractions,
  which are garbled too, are left out.
* Automatic reconnection tries the first host only. `receivePinger` is never reset.
* Without a `localStorage` that lasts (the library then uses an object, `Durable`
  FALSE) a restarted client begins with identifier 1, and a QoS 2 message whose
  first use of it the server still holds is lost. The client finds what it stored by
  going through the keys of `localStorage` (`paho-mqtt.js:822`); an object that has its
  items behind `getItem` only, as the object of `:113-121` and the shim of the Supabase
  plugin, does not last in this sense either.
* When the program ends in the handler of a PUBREL, between the removal from the store
  (`:1383`) and `onMessageArrived` (`:1386`), the message is lost. A handler is one step
  of the model, which has no such crash.
* `receiveBuffer` survives a lost connection (`DropAnywhere`): the rest of a packet
  cut there is read from the next connection's bytes.
* Identifier 65536 is 0 on the wire; strings of 65536 bytes or more wrap; a high
  surrogate without its low one is measured as 4 bytes and written as something else.
* A clean session forgets subscriptions in flight: without a timeout their promise is
  never settled. The order of resending is not defined when one of them is among
  the messages (a comparison with a missing number).
* The wrapper passes the path `''` where its documentation says `/mqtt`.

Storage:

* An upload rejects when the network fails, whatever was chosen, and with a
  `SyntaxError` when the body of its answer is not JSON, of an error status too
  (`StorageFileApi.ts:104`, `:186`; an empty body as well, as far as the module's
  `toJSON()` parses what it is given). `exists()` rejects for any status but 400 and
  404; a body that cannot be read, or is `null` where an object is expected, rejects
  with a bare `TypeError`; some arguments found wrong are thrown at once. `AnsweredAsChosen` lists them as `Unruly`.
* The flag is read when an answer arrives: `throwOnError()` called meanwhile changes
  how earlier calls fail, except downloads, which keep the flag of when they were
  made. A catalog keeps that of its `from()` for good, so `throwOnError()` after it
  does not reach its later calls (`StorageAnalyticsClient.ts:92`). `from()` of a bucket
  client and the vector and analytics clients do not inherit the flag.
* Only one slash is dropped at each end of an upload's path, so what `//a` or `a//`
  is answered with is not what other methods, or the next upload, take it for.

## 4. Fairness

* A thread of a pool that can run does (weak fairness), and so do client threads
  inside a call; a claim is given back (strong fairness of the releases: code
  between acquire and release may do other things for a while but ends).
  Nobody has to submit work or call `shutdown()`.
* The event loop of an environment runs (weak), and takes the batch of a drain
  infinitely often if it can (strong: the alternative, a failing handle scope, does
  not happen for ever).
* `AndroidDatabase`: some worker that can run does, and the looper runs (weak, of
  each of the two together: calls are bounded, so nobody is overtaken for ever).
* The JS thread hears answers (strong: it also makes calls of its own, each of
  which is bounded), the callbacks of `transaction()` end, those of
  `transactionSync()` end. Nothing makes an application begin anything.
* `IOSReaders`: some block that can run does, the main queue runs, and callbacks of
  `readTransaction()` end (weak).
* `MqttConnection`: timers fire and sockets left behind are dropped in the end
  (weak); of the attempts that are made again and again one opens and is accepted
  (strong: with a server that never answers, reconnecting for ever is right).
* `MqttDelivery`: packets and timers are handled, the server answers, somebody
  connects again (weak); connections are lost finitely often, by the bound.

Without the assumption on callbacks nothing could be said of `transaction()`, whose
callback is the application's. `MqttWire`, `SqliteSession` and `StorageClient` have
safety properties only and no fairness. Where a liveness property is written
`[]<>` it says the same as "every one settles": what has settled stays so, and the
calls of a behaviour are bounded.

## 5. Theorems

All hold for any sets of threads and transactions and any bounds, under the
`ASSUME`s of the module, which ask only that bounds are numbers, that sets are
finite, that the marks for "nobody" and for kinds of statements differ, and that
options, columns, paths and packets are of the types the API declares and within the
limits of MQTT (`OptionSetsAssumption`, `ColumnsAssumption`, `PathsAssumption`,
`WireAssumption`). Where a theorem has a hypothesis of its own it
is named below, with the reason.

* **ThreadPool**: `TypeCorrect`, for any number of workers; `MutualExclusion`
  (`OneAtATime`), for a single worker. The latter is not inductive: that two jobs
  do not overlap follows from what `busy_` means. `ClaimInv` says it: the pool is
  busy exactly while one identified runner, the inline owner or the worker that
  took a task and did not give its claim away, will clear the flag. The
  assumption of one worker is used where a worker clears `claimHandedOff_`; with
  two the step fails there, which is the difference named in section 3.
  `PoolIsSerial` (`ImplementsSerialExecutor`) is the refinement, for one worker:
  every step is a step of `SerialExecutor` or a stutter. `JobsInv` adds to `ClaimInv`
  that the queue holds the last jobs issued in order, that whoever runs has the
  last one started, and that a waiting client waits for the one job queued for it;
  so handing a claim over changes who runs and not what runs.
* **NapiCompletionQueue**: `SignalCoalesced` (`SignalInv`: the flag is set exactly
  while one drain is due or running), `NoCompletionStranded` and
  `QueueTypeCorrect`. They are inductive together: no completion is stranded
  because it was posted with the flag set, which is a drain to come, or set it.
  `CompletionsRunInOrder` (`CompletionsInOrder`): the numbers of what ran, of the
  batch, of the queue and of each worker's own work follow each other in this order
  (`OrderInv`), which a batch that is put back in front keeps.
* **AndroidTransactions**: `TxTypeCorrect`, `RegistryCorrect`,
  `StatementIsolation`, `SafeguardCorrect`, `SpanIsolation`. The invariant `TxInv`
  is their conjunction with `SpanHeld` (a span is open exactly while the JS
  thread is in it) and `Matches` (`RegistryMatchesEngine` without
  cardinalities). No one of them is inductive alone: a COMMIT ends its own
  transaction because the registry knows the open one and no other; the
  safeguard is right because the count is the registry's; a worker never runs
  inside a span because the span holds the worker. `OutcomeCorrect`
  (`OutcomeIsHonest`) needs the way of each step to JS and back: a `transaction()`
  that waits has one step or one answer on its way and no other has any
  (`OneAwaited`), and its statements are committed exactly when its COMMIT was
  answered with success, heard or not (`LogKnown`).
* **IOSTransactions**: `IOSTypeCorrect`, `SuspensionCorrect`, `SpanIsolation`,
  `NoWaiterForgotten`. `IOSInv` adds to them `Held`: while the queue is suspended the
  JS thread is in the span or waits for a block, so neither `close()` nor the end
  of a span can find it elsewhere. That a waiting transaction is never forgotten
  rests on blocks being halfway (`block # "start"`) only if they end a transaction.
  The theorems hold with failing COMMITs and late use of transaction objects,
  unlike what the finding refutes. `TurnsTaken` (`WaitsItsTurn`): while the database is
  open and no transaction was undone, the gate is taken for one transaction, and
  the one that is open is this one (`GateHeld`); a BEGIN that is queued meets no other,
  and an end that is queued meets its own (`InTurn`). `TurnInv` is not inductive
  without that condition, which is how the failing span of section 3 was found.
* **IOSReaders**: `ReadersSnapshotsHold` (`SnapshotsHold`), for any number of readers and
  of calls, with opens that fail and transaction objects that are used late, and
  `InitializedHonest`. What a read finds when its block runs was settled when it was
  made, several blocks earlier, so `ReadersInv` speaks of every block that waits: a read
  of a transaction waits on its reader, behind the BEGIN and, unless it is late, before
  the END (`Reads`). That a late one meets no other transaction rests on who has claimed
  a reader (`Claims`), on which transaction is open on it (`Spans`), and on blocks being
  of calls that wait for them, each once (`Numbered`, `Queued`). `close()` forgets the
  claims, so `Claims` says nothing after it, and need not: then no transaction begins
  and the reads that wait are behind the last BEGIN. That the first read sees what JS
  knew of is `Versions`.
  `LifecycleHonest` (`LifecycleIsHonest`), through `LifecycleInvariant`: `close()` sends
  every connection its last block, behind everything called before, so what a queue
  holds behind it is of later calls and on the writer only (`Ends`); a connection whose
  open has not ended has it at the head of its queue (`Opened`); a statement that left
  the map has a finalize block that no use of it comes after (`Statements`); and a call
  not heard of has its block or its completion on its way, so the last close completes
  behind all earlier calls (`Answering`).
* **AndroidDatabase**: `TypesHold`, `ReadersInside`, `InitializedCorrect`,
  `AnswersCorrect` and `NothingOutlives`, for any number of readers and of calls. A task
  is on its way as work of a dispatcher, as a completion, and in the batch of a drain.
  `Inv` takes the three as one line per connection: dispatching adds a place at its end,
  working and gathering move nothing in it, a completion leaves at its head. Each line
  is an open, calls, a close, in this order (`Phase`); the latch of `Teardown()` counts
  the readers with a close in their line (`Joins`), `openPending` the opens (`Opens`),
  and a call is pending while it is in the line of its connection (`Answering`), behind
  those made before. So the completion that frees the instance is the last of all lines.
  Hypotheses: `MayPump` is FALSE, and for `NothingOutlives` `LateCallbacks` too; with
  either the instance is freed under something that uses it (section 3).
* **MqttDelivery**: `TypesHold`, `AnswersCorrect` (`AnswersMatch`), and the two
  refinements of `QosContract`, `OutgoingImplementsContract` and
  `IncomingImplementsContract`. At most one packet about each message is on its way, in
  the two channels together, and `Inv` says in what state its message is. Identifiers
  are of one message because the search ends at a free one, and it ends because no
  identifier is above the number of calls. `Held` adds what the server holds of a QoS 2
  message and how often it took it, `Kept` what the client keeps and how often it
  arrived: every step is then a step of the contract or a stutter. Hypotheses: `IdsFit`,
  that no identifier past the maximum is in use (the search does not turn round at the
  maximum, `paho-mqtt.js:1197`, and 65537 is 1 on the wire); `AnswersCorrectForFewCalls`
  and `ContractsForFewCalls` do without it for as many calls as there are identifiers.
  For the contracts, `Durable`, a store whose keys can be gone through: section 3 says
  what is lost without one.
* **MqttConnection**: `ConnectionTypesHold`, `NeverStalls` (`NeverStalled`) and
  `StateIsTrue` (`StateAgrees`), for any number of hosts, sockets and calls and whoever
  brings a connection back. The step of an event runs through several handlers, so
  there is a lemma for each operator on the state of the client. `Sound` says that who is
  connected says so, waits for nothing and has no host left to try, and that a
  DISCONNECT that waits in the queue was asked for; of such a client every handler makes
  another, `_disconnected` and a CONNACK leave a timer armed if anything goes on
  (`Ticking`), and `disconnect()` does unless it ends a reconnection under a
  `connect()`. It is a CONNACK for another socket than the current one that would break
  `Sound`. State and invariants are in `MqttConnectionState`, which
  `MqttProofs` extends beside `MqttDelivery`; the steps it instantiates (`Conn`),
  since both modules have a `Next`.
* **MqttWire**: `FramesStayIntact` (`FramesIntact`), `RequestsAreRead`
  (`ServerReadsRequests`) and `ResentIsTheSame` (`RestoredIsResent`), for any packets and
  options within the limits of MQTT (`WireAssumption`), any number of them and pieces of
  any size. The loops over bytes are functions from one position to the next. `Recursion`
  and `Descent` replace induction over data for them: a function on an interval of which
  each value is made of one further on exists, and what each position has from those
  after it they all have, since a set of numbers has a least. On these rest that
  `encode()` writes as many bytes as it has announced (`Lengths`, `DigitsOf`, `Whole`), that
  a string, a length and a list of topics are read back (`TextRead`, `LengthRead`,
  `TopicsRead`), and so that a packet is read as soon as it is whole and not before,
  whatever follows it (`MessageRead`). `FramesInv` says that what is buffered and what is on its way are,
  together, the packets sent and not handled, end to end, and that less is buffered than
  the first of them takes; `Framing`, that `_deframeMessages` then takes off the whole ones.
  Its hypothesis `~DropAnywhere` is that of the run: `receiveBuffer` is not emptied when a
  connection is lost in the middle of a packet (section 3). For CONNECT each of its seven
  parts is found where a server that goes by the flags looks for it (`PartsFound`,
  `ConnectRead`). The store's digits are two for each byte (`DigitsRead`). Payloads are
  of any kind: a packet of the client that `encode()` does not throw for is, as it is
  written, one the rest applies to, and the two theorems claim of a payload what the
  properties do, so neither claims the content of what the code loses.
* **StorageClient**: `FailuresAsChosen` (`AnsweredAsChosen`), for any clients, calls,
  paths and outcomes (a status and a body, `OutcomesAssumption`). `ResultFits` and
  `SettledFits` say, for every operation of the table, what its transport makes of an
  outcome and its handler of that; `ChosenInv` says that the flag a call took along
  is that of its client then (for a catalog, that of its maker at `from()`), and that a
  client's flag is never taken back.
  `UploadsAreFound` (`PathsAgree`), for paths of any length: what the code trims and
  collapses leaves no empty segment at either end or inside (`TrimmedEnds`,
  `CleanedEnds`, `FinalOfSmooth`), and it does not change a path without any, so every
  later spelling of the path that was answered is that path (`SpellingsAgree`).

* **SqliteSession**: `NestedImplements` (`ImplementsNestedTransactions`) and
  `ErrorsAreTheCallers` (`CallersErrorWins`), on both platforms and under the driver,
  for any depth, any parameters and any number of savepoints that calls which failed
  left on SQLite's stack. The stack alone is no invariant, since such savepoints stay
  on it and the driver uses their names again; what is invariant (`Holds`) is that the
  youngest savepoint of an open call's name is the one the call made, with the table it
  found, and that these are in the order of the calls. A RELEASE or ROLLBACK TO cuts
  above those of the calls that stay, and the next name is that of no open call
  (`NewName`): the plugin's number is new, the driver has no call of that depth. A call
  that has been undone but not released (Android), or whose COMMIT has failed, is for
  `NestedTransactions` over already (`Gone`).
  `OpensAreSound` (`OpenIsSound`), for any open sequences and options: the entries that
  JS drops, the steps that are not of a connection and those that are skipped are three
  selections, one behind the other. Each is the one increasing function onto the places
  it keeps (`AscendingOnly`), and so are two in a row (`AscendingTwice`): what a
  connection runs is in the order of the entries, and the key is behind nothing of the
  caller's but what was before it (`AscendingBehind`, `MeantSteps`).
  `RowsComeBack` (`RowsAreWhole`), for any columns: a blob is found because its number
  is how many blobs come before it in the order of the grid (`BlobsFound`), and a name
  that several columns have is read as the last of them (`HasLast`).

The proofs have one lemma per group of steps, and under it one step per part of the
invariant; the last step of each theorem is temporal.

Model-checked only: everything about liveness, which needs ENABLED and fairness.

## 6. Not modelled

* SQLite: the text of parameters, of JSON and of errors; the contents and locking of
  files, of other databases or of other processes (a statement succeeds or fails,
  whatever the reason); a transaction that SQLite rolls back by itself.
* The memory model: every shared access of the modelled code is under a mutex or
  atomic (`stop_`, `pendingCount_`); a step that polls an atomic reads its current
  value.
* The Node-API binding, whose entry points are those of the V8 binding, over
  `NapiCompletionQueue` in place of the looper; with it the environment's cleanup hook.
* The runtime adapters and the bridge: conversions without state.
* iOS: calls made while `close()` runs, and reads of a transaction that block JS.
* Handles of prepared statements on Android, finalized or closed while a step is
  queued; the path of an id that is gone is the same as that of a failed statement.
* Savepoints of one transaction that run side by side, and a SAVEPOINT, RELEASE or
  ROLLBACK TO statement that fails.
* MQTT: `disconnectedPublishing`, which the wrapper never turns on; traces; the
  WebSocket itself.
* Storage: headers and bodies of requests, `setHeader`, query strings, `getPublicUrl`,
  the encoding of paths in URLs. The `localStorage` shim and the polyfills of the
  Supabase plugin, which forward to other packages.
* Drizzle's own parts: the query cache, logging, the mapping of fields.
* Ripple, SMS inbox, demos, the benchmark and build files.

## 7. Plan

1. `NapiDatabase`: the binding over `NapiCompletionQueue`, with the cleanup hook
   at every point of a teardown and the set of live instances.
2. Prepared-statement handles on Android, over the queue of `AndroidDatabase`.
3. Concurrent sibling savepoints, over `SqliteSession` with several callers.
4. Ripple: one module of one view, with low priority.
