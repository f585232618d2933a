# A TLA+ development of Qedis

Qedis is a Redis-compatible key-value server in C++11 with replication,
transactions, RDB and AOF persistence, publish-subscribe, an optional LevelDB
backend, and an optional cluster mode (a ZooKeeper sentinel inside the server, and
a separate proxy). This directory holds TLA+ modules translated from its source,
the TLC runs that check them, and TLAPS proofs about them. Paths are relative to
the repository's root, `src/`.

## 1. The system

### 1.1 Threads and the main loop

The server (`QedisSvr/Qedis.cc`) runs one *logic thread*. `Qedis::_RunLogic`
repeats: run the due timers, `CheckChild` (reap a forked saver), and
`TaskManager::DoMsgParse`, which takes the new connections, drops the invalid ones
and lets every connection parse its packets. A command handler therefore never
interleaves with another handler. What does interleave with the logic thread:

* the receive and the send thread of `QBase/NetThreadPool.cc`, which share each
  connection's receive ring and send buffer with it;
* the AOF thread of `QedisCore/QAOF.cc`, which shares an `AsyncBuffer` with it;
* the log threads and the worker threads of `QBase/Threads/ThreadPool.cc`;
* child processes: the RDB saver (`BGSAVE`, a replica's `SYNC`, the cron) and the
  AOF rewriter, which see a copy of the memory at fork and are reaped later;
* clients, masters, replicas and ZooKeeper, over connections that may close
  between any two handlers.

Most of what is hard is still inside the logic thread: objects that outlive the
handler that made them (watch lists, lists of blocked clients, channel lists, the
replica list) are read by later handlers of *other* connections, hold weak
pointers to connections that may be gone, and are updated by roads that were
written separately.

### 1.2 Components

| component | state it keeps | operations | talks to | what makes it correct |
|---|---|---|---|---|
| Transactions: `QMulti.cc`, `QClient.cc` | flags, queue and watched keys of a client; per key the list of watchers | WATCH, UNWATCH, MULTI, EXEC, DISCARD, `NotifyDirty`, `NotifyDirtyAll` | `Propogate` of every write | EXEC runs only if no other client wrote a watched key (it does where that key was the target of RENAME or MOVE: 4.2); runs what was queued, in order, in the client's database |
| Replication: `QReplication.cc`, `QSlaveClient.cc`, `QClient::ProcessMaster` | per replica a state and a connection; the buffer of writes of a background save; on a replica the state of the link to the master | SYNC, REPLCONF, SLAVEOF, `TryBgsave`, `OnRdbSaveDone`, `SendToSlaves`, `Cron` | the saver child, `CheckChild`, every write | a replica that is online is sent each write once, in order (not those made while another replica's save runs: 4.2); every waiting replica gets a save; a save is never lost |
| RDB saver processes: `QServerCommand.cc`, `Qedis.cc`, `QDB.cc` | `g_qdbPid`, `g_rewritePid`, `dirty_` | BGSAVE, SAVE, cron, `CheckChild`, `SaveDoneHandler` | replication, AOF rewrite | a child that ends is one that was started and is known |
| RDB format: `QDB.cc` | file image | save and load of each type, length encoding | `QStore` | load of what was saved is the same data |
| AOF: `QAOF.cc`, `AsyncBuffer.cc`, `MemoryFile.cc` | logged command buffers, last database, the rewriter's pid | `SaveCommand`, `Flush`, `Run`, `Stop`, BGREWRITEAOF, `RewriteDoneHandler`, load | every write; the rewriter child | replay of the file gives the data of an acknowledged prefix, with nothing after a stop missing |
| Keyspace: `QStore.cc`, `QKeyCommand.cc` | keys of each database, deadlines, LRU clock | get, set, delete, EXPIRE, PERSIST, RENAME, MOVE, eviction | every command, LevelDB, `Propogate` | a key without a deadline stays; an expired key is not seen; deletions are propagated |
| Blocking lists: `QList.cc`, `BlockedClients` of `QStore.cc` | per database and key the queue of blocked clients; per client the keys it waits for | BLPOP, BRPOP, BRPOPLPUSH, pushes, `ServeClient`, `LoopCheck` | lists, `Propogate`, timers | an element goes to one client, first blocked first served; nobody waits beside a full list; a list in the database is never empty |
| Publish-subscribe: `QPubsub.cc` | channel and pattern lists, and each client's own sets | SUBSCRIBE, UNSUBSCRIBE, PSUBSCRIBE, PUNSUBSCRIBE, PUBLISH, recycling | `Timer` | the two views of a subscription agree; a message reaches every subscriber once |
| LevelDB write-behind: `QLeveldb.cc`, `DumpToBackends` | keys waiting to be written | load on miss, dump, delete | keyspace, eviction | a read never sees the older value |
| Migration: `QMigration.cc` | pending MIGRATE requests per target | MIGRATE, RESTORE | other servers, `Timer` | a key is deleted only after the target took it (the code deletes it whatever the target answers: 4.2) |
| String, list, set, sorted set and hash commands: `QString.cc`, `QList.cc`, `QSet.cc`, `QSortedSet.cc`, `QHash.cc` | values | the Redis commands | keyspace | each command's own contract |
| Protocol and helpers: `QProtoParser.cc`, `QCommand.cc`, `QGlobRegex.cc`, `QCommon.cc`, `QHelper.cc`, `QConfig.cc` | parser state | incremental parsing, glob matching, number conversion | `QClient` | parsing in pieces equals parsing at once; the matcher equals its definition |
| Slow log, modules, monitors: `QSlowLog.cc`, `QModule.cc`, `QClient::FeedMonitors`, `Modules/` | lists | commands | `QClient` | bounded length; a module's commands go when it is unloaded |
| Sockets: `StreamSocket.cc`, `NetThreadPool.cc`, `TaskManager.cc`, `Server.cc`, `ListenSocket.cc`, `ClientSocket.cc`, pollers | rings, task lists, poll registrations | connect, accept, read, write, close, reconnect | three threads | bytes leave in the order they were sent; a closed connection leaves every list |
| Buffers: `Buffer.h`, `UnboundedBuffer.cc`, `AsyncBuffer.cc` | ring positions, overflow list | write, peek, skip | two threads | the consumer reads what was written, in order, once |
| Thread pools, timers and logs: `Threads/`, `Timer.cc`, `Log/` | workers and queue; timing wheel; log buffers | execute, stop; add, kill, update; append, flush | all | a queued task runs; a timer fires at its time and as often as asked |
| Sentinel: `QSentinel/` | role, sequence node, watched predecessor | election, failover | ZooKeeper, replication | at most one master in a set |
| Cluster connection: `cluster/cluster_conn/` | ZooKeeper session and pending requests | connect, create, watch, ping | sentinel, proxy | answers match requests in order |
| ananas: `cluster/ananas/` | futures; event loop, connections, connector, timers | Then, SetValue, WhenAll, WhenAny, OnTimeout; loop | proxy | a continuation runs once, with the value, on either order of set and attach |
| Proxy: `cluster/qedis_proxy/` | pending requests per client and per server, shard map | forward, answer, watch shards | ananas, cluster connection | a client gets its answers in the order of its requests |
| Vendored and generated: `lzf`, `redisZipList.c`, `redisIntset.c`, `crc64.c`, jute | - | - | - | not modelled: third-party or generated |
| Unit tests and framework: `UnitTest/` | - | - | - | not modelled: tests only |

### 1.3 What is hard here

PROJECT.json lists the hazards at their lines. They fall into five groups:

1. *Objects that outlive a handler* (watch lists, blocked clients, replica states,
   link state): long sequences of legal commands of several connections, one of
   which closes at the worst moment.
2. *Forked children*: their snapshot, the writes made meanwhile, and the exit seen
   by `CheckChild` some turns later; several roads start them.
3. *Threads beside the logic thread*: the AOF thread, the network threads that call
   callbacks themselves, the two ends of an `AsyncBuffer`.
4. *Durability*: what the append-only file holds at each moment, across rewrites,
   failures of the rewriter and crashes.
5. *Propagation*: what goes to the AOF and to replicas, in which order and with which
   database selected, and whether replaying it gives the same data.

## 2. Plan

The modules, and the MC module whose runs check them. A module of the last column
is one TLAPS proves theorems about.

| module | models | checked by | proved |
|---|---|---|---|
| `QMulti` | transactions, watches, `Propogate` | `MCMaster` | `QMultiProofs` |
| `QReplication` | master side, savers, `CheckChild` | `MCMaster`, `MCServer`, itself | `QReplicationProofs`, `QMultiProofs` |
| `QReplicaLink` | replica side, its connections and callbacks | `MCLinks`, itself | `LinksProofs` |
| `AsyncBuffer`, `QAOF`, `DurableLog` | a buffer between two threads; the append-only file; what it promises | itself | `QAOFProofs` |
| `QList` | blocking lists, `ServeClient`, what they propagate | `MCData`, `MCQList` | `QListProofs` |
| `QStore` | keyspace, deadlines, eviction, the write commands and their replay | `MCQStore` | `QStoreProofs` |
| `QLeveldb` | write-behind, load on a miss, eviction and restart with a backend | `MCQStore`, itself | `QStoreProofs` |
| `Rdb` | the RDB format, DUMP and RESTORE | `MCData` | |
| `Rewrite` | the file of a rewrite and the choice between both files at the start; EXTENDS `Rdb` | `MCData` | |
| `RdbTransfer` | a full copy in pieces, with the commands behind it; EXTENDS `Parser` | `MCData` | |
| `Pubsub` | channel and pattern lists, the clients' own sets, recycling | `MCData` | |
| `Parser`, `Glob` | requests that come in pieces; the matcher of patterns | `MCData` | |
| `QMigration` | MIGRATE's queue, connection, answers and timeouts | `MCLinks` | `PeersProofs` |
| `NetThreads` | a connection between the receiving, the sending and the logic thread | `MCLinks` | `LinksProofs` |
| `ThreadPool`, `TimerWheel`, `TimerMap` | workers and their monitor; the timers of server and event loop | `MCServer` | |
| `RingBuffer`, `GrowingBuffer`, `Fifo` | the buffers; the queue they implement | `MCServer` | |
| `MappedFile`, `ServerLog`, `LineLog` | files written through a mapping; both logs | `MCServer` | |
| `EventLoop` | a connect and its connection in a loop of ananas | `MCLinks` | `LinksProofs` |
| `Future`, `Proxy` | ananas' futures and the proxy built on them | `MCLinks` | `PeersProofs` |
| `ZkClient` | the proxy's knowledge of ZooKeeper, which is external | `MCLinks` | |
| `Sentinel` | election over ZooKeeper, which is external | `MCLinks`, itself | `LinksProofs` |

*How components share a run.* Components that do not touch each other's state are
put into one run as a sum: an MC module EXTENDS one of them and INSTANCEs the others
on variables of their own, and a variable `part`, chosen at the start, says which of
them runs; the others stay as they began. The states are the sum of the components'
and not their product, and each property speaks of the part that runs. What one
component does to another is composed in the modules themselves: `QAOF` EXTENDS
`AsyncBuffer` and runs the rewriter's end; `QReplication` has the savers, `CheckChild` and
the AOF rewriter in one state; `QReplicaLink` has the network threads' callbacks and its
masters; `QStore` has the store and the copy that runs what is propagated; `RdbTransfer` EXTENDS
`Parser`, which has the bytes that `ProcessMaster` leaves; `Rewrite` EXTENDS `Rdb`, whose file is
the second choice at the start; `Proxy` and
`QMigration` have clients, connection and server; `Sentinel` several servers. The constants of an
instance that a theorem speaks of are constants of the MC module, which the cfg gives values.

What is left, in order:

* theorems: `Pubsub`'s agreement of both views; that `RingBuffer` implements `Fifo`; the types of the
  modules that have none (5);
* models: MIGRATE with the databases of both servers; a damaged RDB file; a load
  that logs what it replays (4.3).

## 3. The modules and the code

### 3.1 QMulti

Each handler that `QClient::_HandlePacket` runs is one action, `Step(c)`: the flags,
the queue and the watched keys of a client are the fields of `QClient`
(`flag_`, `queueCmds_`, `watchKeys_`, `db_`), `clients` is `QMulti::clients_`, `store`
the keys present in each database and `dbno` the database selected in `QStore`. The
loop of EXEC is unfolded (`Exec`, `ExecNext`, `ExecDone`): its commands share `dbno`
and each may change it for the next (MOVE and FLUSHALL do, as does SELECT). While it
runs no other client moves, as in the code. `Propogate` notifies the keys
`g_dirtyKeys` if there are any, and else the first argument: MSET fills `g_dirtyKeys`,
RENAME does not. `touched` and `acked` record history for the properties.

### 3.2 QReplication

`slaveState`, `bgsaving` and `buffer` are `QSlaveInfo::state`, `bgsaving_` and
`buffer_`; `qdbPid` and `rewritePid` the two globals. A write is its number. `children`
are the processes forked and not yet reaped, each with the writes in its snapshot.
`Sync`, `Bgsave`, `Save`, `QdbCron` and `BgRewriteAof` are the roads to a child, `ChildExit`
the child's end (it renames its file), `CheckChild` the whole of `CheckChild` with
`SaveDoneHandler`, `OnRdbSaveDone` and the retried `TryBgsave`. `Roads` and `MayFail` choose
which roads exist and what may fail, so that a theorem can say under which it holds.
Not modelled: ping, REPLCONF, INFO, the text of the stream.

### 3.3 QList

One database. `Execute` is a whole command; a push to a list that was empty sets
`serving`, and `ServeNext`/`ServeDone` are the iterations of `ServeClient`, each with its
propagation. `blocked` is `BlockedClients::blockedClients_`, `waiting` and `target` the
client's own view. `LoopCheck` drops the entries whose deadline has passed, any subset of
the timed ones at a time. `replay` is the data one gets by running again what was
propagated; `taken` the elements that left. A blocked client sends nothing, though the
code would accept it; a command pipelined behind a BLPOP is therefore not covered.

### 3.4 QReplicaLink

`addr`, `state`, `sizeKnown` and `master` are `masterInfo_` and `master_`; a connection
is a record (peer, phase, `invalid_`, `ClientFlag_master`, its callback, what it was asked,
what is in its receive buffer). `Cron` is two steps because the network threads call
`OnConnect`'s failure callbacks and `_OnDisconnect`'s themselves and may write the state
between Cron's read and Cron's write; SLAVEOF and packets are handled by the
logic thread and cannot. The master is external: it answers AUTH, REPLCONF and SYNC.
A message is whole, so the split of a `$size` header over two packets is not covered.

### 3.5 AsyncBuffer and QAOF

`AsyncBuffer` has the ring, `backBuf_`, `backBytes_`, `tmpBuf_` and the mutex (`locked` is
what its holder pushes). A write to the ring is one step: the reader can only make
more room, so nothing the writer decided upon gets false before it pushes. A
write to `backBuf_` is two, with the mutex held. The reader looks at the ring
(`Look`), and if it is empty at `backBytes_` (`FetchBack`, `FetchNothing`) in another
step, then uses and skips some (`Skip`). `written` and `taken` are histories;
`overtaken` is set when `backBuf_` is fetched with bytes in the ring.

`QAOF` EXTENDS it: the buffer's writer is the logic thread, which writes a command in
pieces (`Pieces`: SELECT if `lastDb_` differs, a head, a body of the size the head gives), and its reader the AOF
thread (`Drain`, `Flush`, `RunEnds`, the three parts of `Run`). `BgRewriteAof` forks and
tells the thread to stop, `StopEnds` is the end of `Join`, which drops the thread with its
buffer; commands go to `early` (`aofBuffer_`) until `RewriteDone` renames or unlinks
the child's file and starts a thread. The file is kept as what `QAOFLoader` makes of it, with a
parser (`ParseByte`) that notices a body without its head; `After` is the parser over a sequence of bytes. A crash is a crash of the
process: what was copied into the mapped file stays. `Restart` is a new process (`Started`) in `LoadDbFromDisk`: it
executes the commands of the file (`LoadAof`) or, when the last one is not whole or there are none, loads the
RDB file (`LoadRdb`), of which the module says nothing but that it has some commands' data; the append-only file
is kept, and appended to, behind the part of a command. `apart` records such a start, until a rewrite.

### 3.6 QStore

One database without a backend. A handler is an operator from a store to a store
(`Set`, `SPop`, `ZAdd`, `Rename`, ...), built from the operators for `QStore`'s methods;
the record it works on also has what it pushed to `g_dirtyKeys`, the keys its lookups
found past their deadline, and whether it returned `QError_ok`. `Execute` is the part of
`_HandlePacket` after the handler: a result that is ok goes to `Propogate`, which tells the
watchers and runs the propagated handler on `copy`, the store of an append-only file's
loader or of a replica; another goes to `Keep`, which tells nobody whatever the handler has changed by then. The command table's `QAttr_write` decides
which commands use it: EXPIRE and PERSIST do not.

Data are abstracted to what handlers tell apart: types, members, integers of a small
width that wrap, scores that saturate, and the three kinds of strings that no integer
command takes. What an edit makes of a string (APPEND, SETRANGE, SETBIT, BITOP) is a
parameter, the same for both executions. Time is the set `due` of the deadlines that have
passed; the copy's own deadlines do not pass, as it runs what it is sent at once. Two
behaviours are undefined in the code and left out by guards of `SStoreCmd`: SUNIONSTORE
whose first source is no set reads an uninitialised pointer (`QSet.cc:252`), and a store
into a key past its deadline that is also a source writes to a deleted set.

### 3.7 QLeveldb

One database with LevelDB behind it. What `QStore` has of a key is its cell: the value in
`store_`, the deadline in `expiresDb_` and whether it is in `waitSyncKeys_`, as an object or
as null (deleted, to be deleted on disk too). Values count the elements a command left.
The commands are taken by the way they reach a key: a read (`Get`), an overwrite
(`set`), a change in place (`sadd`), `del`, `expire`, and FLUSHDB and FLUSHALL
(`flush`); each that writes ends in `AddDirtyKey`, which looks the key up once more.
`DumpToBackends` writes at most `kMaxSync` of the waiting keys, `EvictItems` deletes one.
`LoopCheck` propagates a DEL for a key that is due, and `AddDirtyKey` then erases the element
it goes on to use (`QStore.cc:195-199`): undefined, and the model stops there
(`undefined`). `latest` is what the commands have left, `odd` and `evicted` are section 4.2's.
LevelDB is external: what is put is there, after a crash too.

### 3.8 Rdb, Rewrite, Parser, RdbTransfer, Glob, Pubsub

`Rdb` has the file as a sequence of bytes where lengths, integers and types are
bytes and texts, packed texts, scores and deadlines are units; `Save` writes it as
`QDBSaver` does, `Load` reads it by one operator per `QDBLoader` method. A text is an
integer as it is usually spelt, an integer spelt otherwise ("007"), or neither, since the
integer encodings tell these apart; lengths come from both sides of each boundary.
`RedisFiles` are files with the encodings that only Redis writes (ziplists, intsets, negative integers of 8 and
16 bits, which the loader reads unsigned: `QDB.cc:655`).

`Rewrite` has the text of a rewritten file as arrays' headers and bulk strings, written by one
operator per `Save...Object` of `QAOF.cc`, and `LoadDbFromDisk`: the arrays of the file are run,
or, if one is not whole, the RDB file is loaded.

`Parser` has `QProtoParser` and the inline commands, of which the proxy's `ServerProtocol` is
the same: `Arrive` brings any number of bytes, and `Parsed` is the whole of a call, with what
it keeps (`multi_`, `paramLen_`, `params_`) and what it leaves in the buffer. The stream of
requests is the reference.

`RdbTransfer` has the stream of a master: its +OK, the size, the file, the commands. Each call
of `ProcessMaster` is a step (`RecvOK`, `RecvSize`, `RecvRdb`), and once online the parser's.
`Cron`'s SYNC does not wait for the +OK. `rdb` is `slave.rdb`, which is opened without
being emptied, so that an older copy's end may be behind the new one's. A file comes in units of
ten bytes, so that its size has two or three digits; everything else comes byte by byte.

`Glob` has `QGlobRegex` as a recursive operator over the two offsets, `Means` as its
reference, over every pattern and text within the bounds.

`Pubsub` has the clients' own sets (`subscribed`), the lists of weak pointers (`listed`,
`entries`) and the cursor of the timer's round. A client may expire at any time,
and tells nobody. `owed` and `inbox` compare what a PUBLISH should and does send.

### 3.9 QMigration

The calls for one destination, each with its client and one key. `migrate` parses the
options as the code does, `strncasecmp` and all, and queues the call; `LoopCheck` is
the timer's: connect, send or time out; `OnConnect`, `ConnectFails`, `HandlePacket` and `Dropped` are
the connection's.
Commands and answers on their way are queues of the calls they are for, though the
code counts answers without names. The destination is external: it answers each
command, and may refuse a key.

### 3.10 What the server runs on

* `NetThreads`: one connection. `recvs`, `sends` and `main` are the three task lists it is
  in, `invalid` is `Socket::invalid_`, which the first to call `OnError` sets. Every place
  where one thread looks at what another changes is a step. Requests and replies
  are counted; their order is the buffers'.
* `ThreadPool`: what a thread does under the mutex is a step; `Monitor` pushes as many stop
  signals as `ThreadPool.cc:103` computes. One module serves both pools.
* `TimerWheel`: the wheels with their number of slots as constants; `UpdateTimers` is unfolded, so
  that a callback may add and kill timers in the middle of it. `TimerMap`: the multimap of
  ananas, with `Update`'s iterator kept over callbacks.
* `RingBuffer`: the reader's and the writer's operations, split at each look at the other's
  position. `GrowingBuffer`: `UnboundedBuffer` and ananas' `Buffer`, two classes of one module.
* `MappedFile`: `OutputMemoryFile` and `OMmapFile` with truncation on close, and recovery of the
  offset after a crash.
* `ServerLog`: the loggers' buffers in pieces, the log thread, change of files, `StopLog`.
  `LineLog`: ananas' per-thread buffers, the IO thread, `Stop`.

### 3.11 The cluster's programs

* `Future`: each thread is a stack of what it still has to do; a step takes, or gives back,
  `thenLock_`, or does what lies between. `Last` futures in a chain, some of them returning futures or
  using a scheduler, with OnTimeout on the last; and a collector (WhenAll, WhenAny, WhenN).
* `EventLoop`: a round of the loop takes the fired events and handles each in a step, between
  which the application's callbacks may send, close or meet an error. A connect
  with its timer and the connection it ends in; the connection's end calls the callback of a failed connect too.
* `Proxy`: `ClientConn`, `QedisManager`, `QedisConn`. One server, as the code's hash is a constant. Replies of
  either kind may come in two parts. A request keeps a pointer to its client's connection, and a client is a place
  in memory, which another client may take when the first has gone (`ClientComes`): what is sent through the pointer
  then is undefined, and `Give` has all its outcomes: nobody hears it, the new client does, or the proxy ends.
* `ZkClient`: the chain of `OnConnect`, `WhenAll` over the sets, and what an event does.
* `Sentinel`: several servers with the whole of `ZookeeperConn`: the session file, handshake,
  creation of the node, list of siblings, watch, election, SLAVEOF orders. ZooKeeper is
  external: it answers in order, ends sessions that are silent, deletes their nodes.

## 4. The runs

Six runs must pass and six show where the code and what is said of it disagree.

| run | parts, and their instance | what it shows |
|---|---|---|
| `master` | transactions: 2 clients, 2 keys, 1 database (MSET, RENAME, FLUSHDB) or 1 key, 2 databases (SET, MOVE, SELECT, FLUSHALL), or 1 key, queues of 2 commands (SET, FLUSHDB); savers: 2 replicas, 3 writes, 3 forks, every road and every failure | a client that watches is on the list of its key or dirty already; a write by another reaches it, but as the target of RENAME or MOVE; EXEC runs only a queue whose keys no other client wrote (these targets excepted), in order; an online replica is sent each write at most once, in order (that it is sent each is not said: `missed`, 4.2) |
| `server` | pool, both timers, ring, growing buffers, mapped file, both logs; savers: 2 replicas, 2 writes, 4 forks, SYNC and the rewriter, failed forks | timers fire in time and in turn; the buffers implement a queue; what is logged is in the files, whole and in order; tasks and threads come to their end; an online replica misses only writes of another's save, a waiting one has a saver and comes online |
| `links` | replica link, network threads, futures, event loop, proxy, sentinel, ZooKeeper client, MIGRATE | an online replica holds its master's data and has cut its former master; a client's answers are its own; packets come in order; only the lowest node leads; the end of a connection is told of once to each callback; links come up and peers go on after failures |
| `data` | blocking lists, RDB, rewritten files, full copies, parser, patterns, publish-subscribe | no waiter without an entry, none beside a full list; elements are neither lost nor doubled; what is propagated replays to the same lists; timed waits end; a file is loaded as it was saved or rewritten; requests in pieces are the requests, and a full copy in pieces is the master's file with its commands behind it; a pattern matches what it means; both views of a subscription agree and who has gone is forgotten |
| `store` | memory: 2 keys, 2 members, 1 field, integers 0 and 1, LoopCheck of 1 key; LevelDB: 2 keys | what is propagated makes the same data elsewhere; a command sees what was last written, in memory, waiting or on disk; every change is told to watchers, but those of 4.2's list; a deadline goes with its key |
| `aof` | ring of 2 bytes, bodies of 2, 3 commands in 2 databases, 1 rewrite, 1 crash | bytes come in order; the file implements a durable log, stands for a prefix, in the end for all; a start behind a last command that is not whole goes on beside the file |
| `repl_known` | SYNC and BGSAVE | *violated*: the assertion of `CheckChild` |
| `list_crash` | 2 clients; BLPOP, LPUSH, LPOP | *violated*: an assertion that the popped list is not empty |
| `link_crash` | 2 masters, 3 connections | *violated*: "wrong master state" |
| `aof_read` | 2 commands, no rewrite, no crash | *violated*: the file cannot be parsed after an overtaking |
| `sentinel_masters` | 2 servers | *violated*: "at most one master in a set" |
| `leveldb_cache` | 2 keys | *violated*: memory as a cache of LevelDB: an evicted key is gone from it |

Why the bounds are enough:

* `QMulti`: an interference needs a watcher and a writer, and one queued command per MULTI; the order of
  a queue is the subject of a part of its own, with queues of two. A second database and a
  second key are taken in different parts, as their product is out of reach and no handler
  uses both but MOVE and RENAME, which each part has. SET differs from MSET in one key less and
  is left to the second part, a queue with a bad command (`wrongExec`) to the first.
* `QReplication`: two replicas, one online while the other's save runs; three writes are
  one before the fork, one during the save and one after it; the pids suffice for
  two savers and a rewriter at once, and a pid is not reused as long as it is known. In `server`, where
  SYNC is the only road to a saver, a write during a save and one after it are enough.
* `QList`: a push of two elements serves two waiters in one loop, or one and meets a stale
  entry; a third key is the target.
* `QReplicaLink`: every SLAVEOF and every failure costs one connect, so 2 + 1 connections
  suffice, with AUTH, 2 SLAVEOFs, 1 failure and 1 command; a connect takes the first one free
  (`TakesTheFirst`), as they are all alike.
* `QAOF`: a body that does not fit beside its head is what sends a command on both
  roads; three commands are one before, one during and one after a rewrite.
* `QStore`: two keys are a source and a target, or one command's key and another's; two members
  tell one choice of SPOP from another and order a sorted set; 0 and 1 with wrap and
  saturation give both outcomes of each test. Clients send a text; integers come from INCR, and
  the strings that INCRBYFLOAT leaves from it. When both keys are there, one holds a set or both hold
  strings (`ReadTogether`): no command reads two values of other types.
* `QLeveldb`: a dump of one key leaves the other waiting; two values are an older and a
  newer one; a deadline may be ahead or passed; one restart comes after any of it. The part ends
  when the property speaks of no key any more (`OneIsHeld`).
* `Rdb`: lengths and integers on both sides of each boundary of the encodings; a value of each type
  under a key, an integer and an alias or a text beside each other; one key in the second database,
  two in the first, or one in each; a RESTORE.
* `Rewrite`: the values of `Rdb` and an empty list. `RdbTransfer`: files of 90 and 100 bytes have sizes of two
  and of three digits, of which the first is skipped over or taken for whole when the size is split; two
  connections leave an older file of either length.
* `Parser`: bytes come in pieces of any size, so the streams need each kind of
  request, a length of three digits and a count of two. `Glob`: patterns of three tokens have
  two stars with something before, between or behind them; texts have four characters.
* `Pubsub`: two clients, two channels and a pattern that matches one, and a round that ends
  after the first client erased, so that the cursor is used.
* `QMigration`: two calls, so that an answer may be the other's; two connections, one lost; a
  client that leaves.
* `NetThreads`: three requests with room for one in the ring and one in the kernel fill
  both. `ThreadPool`: three workers, four tasks, two rounds of the monitor: a stop signal of the first may
  still be there in a round of the second. `TimerWheel`: wheels of two slots cascade at 2 and at 4 of the
  5 ms, with intervals that end in either wheel. `TimerMap`: two timers, of which one acts on the other in its callback.
* `RingBuffer`: rings of 2, and of 3 that is rounded up to 4; `GrowingBuffer`: memory of 2 grows with pieces of
  3 to hold 4. `MappedFile`: files of twice the default size, two crashes, so that the second recovers
  what the first left. Logs: two threads of two lines each.
* `Future`: a chain of four has a future with two neighbours on either side of one that returns a future and of
  one that uses the scheduler; two of three for the collector. `EventLoop`: three packets of two
  units against room for three send one in part. `Proxy`: two clients of two requests each. `ZkClient`: two
  sets, one host, two sessions, one fault, one change of the tree. `Sentinel`: two servers, three
  sessions and two faults are one failover and the return of the first server, or its crash as well: the
  second fault is a crash with no SLAVEOF on its way (`SecondFaultIsCrash`).

Deadlock is off in every run: the bounds run out, all clients may have left, or
the server has aborted on an assertion or stays down after a crash.

### 4.1 Fairness

* `QReplication`: a child ends, and the main loop calls `CheckChild` on each turn.
* `QList`: the loop of `ServeClient` ends within its handler; the timer of `LoopCheck` runs
  every 3 ms, so every deadline is met in the end (weak fairness on the step that
  takes all of them).
* `QReplicaLink`: `Cron` runs by a timer; the main loop takes new connections, drops bad
  ones and handles packets; a connect ends; a master that was asked sends its file.
  Failures and SLAVEOFs are not fair and are bounded.
* `QAOF`: each of the two threads runs; a rewriting child ends with success or not.

* `Pubsub`: the recycling timer runs every 200 ms.
* `NetThreads`, `ThreadPool`, `LineLog`: each thread runs, and the peer reads what was sent. That
  the socket can be written is asked of a level-triggered poller again and again:
  `OnWritable` is strongly fair, the only such action of the project, since the peer's reads may
  disable it in between.
* `Future`, `EventLoop`, `Proxy`, `ZkClient`: threads and loop go on, and what was asked is answered, unless the
  connection fails; failures are not fair and bounded.
* `Sentinel`: each server takes its next step and ZooKeeper answers and ends sessions nobody uses.
* `QMigration`: its timer, with the time that passes; neither the destination nor the connection has to.

### 4.2 Exceptions stated as histories

Some properties hold but for behaviours of the code that are described here and
kept as history variables, so that the property says exactly when it holds:

* `touched` (`QMulti`) leaves out what RENAME and MOVE put at their target: `Propogate` names the first parameter
  only (`QStore.cc:898-901`), so that an EXEC runs on a watched key that another client changed. Every other
  creation, deletion or naming of a watched key is counted.
* `missed` (`QReplication`): while a background save runs `SendToSlaves` only fills the
  buffer (`QReplication.cc:157`), so a replica that is *already* online never gets those
  writes. `MissesOnlyDuringSaves` says it misses nothing else; a single replica is thus
  always a copy, a second one's SYNC makes the first diverge.
* `forgotten`, `outdated` (`QList`): FLUSHALL drops the queues but not the clients' own
  view; an entry whose wait has ended by another key is served if its client waits again.
  `parted`: a serve may leave an empty list where the replay has deleted the key, and LPUSHX
  then pushes to one and not to the other. `Targets`: a list that RPOPLPUSH or BRPOPLPUSH fills
  serves nobody, so keys that are such targets may hold elements beside their waiters.
* `overwritten`, `doubled` (`QReplicaLink`): Cron writes over a state a callback has just
  set, after which the link may stay in connecting or wait_rdb; a connect of an older SLAVEOF that
  comes through late gives the link a second connection.
* `overtaken`, `gap`, `misplaced` (`AsyncBuffer`, `QAOF`): the buffer's second road
  overtakes its first; a rewrite that fails leaves a gap, as `Stop` dropped what the thread
  had not written; a rewritten file ends in a database other than the `lastDb_` of its fork, so that
  later commands, before which no SELECT is written, replay in the wrong one.
* `apart` (`QAOF`): a server that starts behind a last command that is not whole, or with an empty file beside an
  RDB file, has other data than the file, and keeps it: the commands it stood for are lost (`QAOF.cc:406`), and the new
  ones behind the part of a command are never read, until a rewrite. `qedis.conf:272-276` promises that a crash costs
  a single write at most.
* `synced` (`QStore`) becomes false with a change that is made and not propagated, or whose text
  makes another one, until a full copy is taken: a lookup that deletes a key past its
  deadline; a handler that fails after a change (SMOVE to a target of another type, ZADD,
  ZINCRBY and SETBIT with a bad number); PERSIST, which deletes the key; eviction; SPOP inside
  EXEC, where the rewritten command is not the one sent (`QClient.cc:397`); RENAME where only one
  side has a deadline, as EXPIRE is not sent; INCR of digits that are not encoded as an
  integer on one side only (after INCRBYFLOAT the server answers an error, and a replica
  that loaded the same text from an RDB file increments it).
* `untold` (`QStore`) leaves out the target of RENAME, SMOVE and BITOP and the later keys of
  DEL, which `Propogate` tells nobody of (`QStore.cc:901`), so that an EXEC may run on a
  changed key; what a handler has changed when it fails, since a failure goes to nobody (`silent`: the string that
  SETBIT has created, the pairs ZADD has added and the sorted set ZINCRBY has created before a number that is none, the
  member SMOVE has taken out before a target of another type); the key PERSIST or an eviction deletes, and a key
  found past its deadline; and one command's key after an append-only file with MSET was loaded, as
  `g_dirtyKeys` still has that MSET's keys.
* `orphaned` (`QStore`): SREM, SPOP and ZREMRANGE of the last member, FLUSHDB and eviction delete keys
  and leave their deadlines.
* `odd`, `evicted`, `undefined` (`QLeveldb`): keys whose deadline is not what a load gives (a load moves the
  object before it reads the time it has left, `QStore.cc:483`, so a loaded key has no deadline;
  EXPIRE of a key that does not wait is never dumped), keys that FLUSHDB took from memory only, or whose
  deadline it left; evicted keys; and the use of an erased element in `LoopCheck`.
* `broken` (`Parser`): a piece that ends within a number: `GetIntUntilCRLF` takes three or more digits for all
  of it, or the array's asterisk is dropped (`QCommon.cc:356-379`).
* `excused` (`RdbTransfer`): a size that comes in two pieces, of which each try skips a byte or takes three
  digits for whole (`QClient.cc:109`); a +OK that comes after SYNC was sent, together with the size: behind its K
  the size is read as 0, and `assert (s > 0)` fails.
* `HasDeadlines` (`Rewrite`): a file with a deadline is not loaded (`QAOF.cc:182`); the property then says that no part
  of it is, and that the data are those of the RDB file, or none. `aof # <<>>`: a rewrite of
  empty databases leaves an empty file, which counts as none: an older RDB file's keys come back.
* `GoesBeyond`, `ReadsBeyond` (`Glob`): a bracket that excludes, where the text ends, takes the final zero for
  a character (`QGlobRegex.cc:207`).
* `late` (`EventLoop`): what onWriteComplete sends after the peer has shut its side down and the rest is with the
  kernel: `SendPacket` accepts it (`Connection.cc:310`), and the close that follows (`Connection.cc:265`) loses what
  is not sent at once.
* `KeptDeadline` (`Rdb`): of two keys whose names a file makes one ("7" and "007") the later one stays, and one without a
  deadline gets that of the other (`QDB.cc:564`). `KeptText`: a negative integer that Redis has encoded comes back as another one.
* `IsKept` (`Rdb`): an integer spelt in another way comes back as usually spelt (`QDB.cc:272`), scores have six
  digits, minus infinity comes back as plus infinity (`QDB.cc:985`).
* `misled` (`Sentinel`): a server took an older node for its own, or obeyed one whose session had ended.
  `misled`, `crashed` (`QMigration`): an answer counted for another call, after a timeout or a reconnect; an
  assertion (`QMigration.cc:218`) or the end of a queue used. `refused`: a key that the destination answers an
  error for is deleted here and stored nowhere, that is lost, as the answer is not looked at (`QMigration.cc:244-263`);
  `KeysAreSentFirst` says that no other is.
* `astray` (`Proxy`): requests answered once a bulk reply of the connection has come in two parts, each of which is taken
  for a reply without content (`Protocol.cc:298`), so that all that follow may get another's answer; and requests of
  a client that has gone, whose answer is sent through the pointer to its former connection (`ClientConn.cc:142-145`).
* The last callback of a chain of futures that is given to a scheduler or returns a future (`Future`): the timeout is
  then taken for the chain's while that one is on its way, and both run.
* `lost` (`Proxy`): requests that were pending on a connection that ended: they get no answer.
  `exited` (`ZkClient`): a handshake without an answer ends the program.
* `excused` (`TimerWheel`): a timer added late or to the list being emptied, or one whose list was
  passed over by the cascade (`Timer.cc:316`).
* `abandoned` (`LineLog`): the IO thread let go of a logger before `Stop` had shut it (`Logger.cc:708`).
  `blank` (`MappedFile`): a crash before the first byte leaves a zero (`MemoryFile.cc:231`).
* `ThreadPool` takes it that the signals of a round are gone by the next one, a second later: were one still
  queued, the unsigned difference of `ThreadPool.cc:103` would wrap.

### 4.3 Met on the way, not stated as properties

* A replica that asks for a save while another's runs is served only by a later SYNC or
  a save that was not for a replica (`Qedis.cc:410`): it may wait for ever.
* A saver that fails still puts its replicas online (`QReplication.cc:69`); `dirty_` is set
  to 0 when a saver ends, forgetting the writes since its fork (`QDB.cc:385`); SAVE does
  not reset it; `SendToSlaves` sends no SELECT.
* `NotifyDirtyAll` also marks a client that has unwatched (`QMulti.cc:116`); an unknown
  command inside MULTI does not make EXEC fail (`QClient.cc:243`).
* RPOPLPUSH does not serve those
  who wait for its target; an immediate BRPOPLPUSH ignores its target (`QList.cc:195`).
* RENAME of a key without a deadline to one with a deadline deletes the value (`QKeyCommand.cc:271`:
  `ClearExpire` is `ExpireIfNeed` with the largest time); so does PERSIST; RENAME k k deletes
  k. ZADD does not update a member's score. A value stored by SDIFFSTORE, BITOP or GETSET keeps
  the deadline of the value it replaces. `LoopCheck` looks at the first 2000 deadlines of
  its table only, so with more of them one behind may stay past its time until it is looked up.
* The handler of a rewrite starts the AOF thread even with `appendonly no`.
* A transaction is propagated command by command, without MULTI and EXEC (`QClient.cc:235`): a crash or
  a replica sees half of it. A queued FLUSHALL resets the selected database under the loop of EXEC
  (`QServerCommand.cc:65`). A handler that ends early leaves `s_current` behind, by which the next timer's
  deletions are propagated for that client's database (`QClient.cc:177`).
* FLUSHDB and FLUSHALL propagate themselves, and do so while the append-only file is loaded
  (`QServerCommand.cc:52`, `:64`; a push asks whether there is a reply, they do not): they are logged again,
  behind all that the file has, and the next start ends with their database empty.
* UNSUBSCRIBE without a channel iterates over the set it erases from (`QPubsub.cc:58`). `Sync` gives `msync`
  an address that is not that of a page (`MemoryFile.cc:197`).
* With LevelDB the RDB file, a full copy, KEYS, SCAN and DBSIZE see what is in memory only; DEL of a key that is
  only on disk answers 0 and deletes it.
* MIGRATE reads its options inverted, as `strncasecmp` is not compared with 0: COPY is taken for REPLACE,
  and any other word for COPY.
* The first callback of `f.Then(xx).Then(yy).OnTimeout(zz)` may run and zz too, where `Future.h:499` says
  both xx and yy or zz; yy and zz both run only if yy is given to a scheduler or returns a future. Late log lines of ananas appear on the screen
  several times, as the thread's buffer is not emptied.

## 5. The proofs

All are checked by TLAPS for every value of the constants; the assumptions are those
of the modules (`...Assumption`) and, where named, of the theorem. A component that an MC module
INSTANCEs is proved about there: its proof module EXTENDS the MC module, so that the theorem is about
the run's specification and the very property the run checks, with the instance's constants left open
(`LeveldbAssumption`, `ReplicationAssumption`, `PeersAssumption`: the bounds are naturals, MaxTime is not 0).
No assumption keeps a case of the code away: where the code does not do what a property says, the property
names the case (4.2), so that the theorem is about all behaviours.
As the runs of the sentinel and of LevelDB have a bound in a conjunct of their own, the same is also proved
without it (`AnyFaultsLeaveTheLowest`, `AnyKeyReadsItsLatest`).

| theorem | says | inductive invariant |
|---|---|---|
| `QMultiProofs`: `TypeCorrect`, `NoWriteIsMissed`, `WatchersAreListed`, `ExecRunsOnlyUntouched` | `[]TypeOK`, `[]TouchedIsDirty`, `[]WatcherIsListed`, `ExecIsSafe` | `IInv`: the three with `QueueIsAcked` (the queue is what was answered +QUEUED) and `ClosedWatchesNothing` |
| `QReplicationProofs`: `TypeCorrect`, `StreamsAreInOrder` | `[]TypeOK`, `[]InOrder`, whatever roads exist and whatever fails | `OrderInv`: a buffered write is later than what the file will hold (`SinceFork`), and nothing sent is ahead of the master (`NothingAhead`) |
| `QMultiProofs`: `SlavesStayInOrder` | `[]SlavesInOrder`: the same in `MCMaster` | that of `StreamsAreInOrder`, which it cites |
| `QReplicationProofs`: `WaitersHaveSavers`, `BufferEndsWithSave` | `[]WaiterHasSaver`, `[]BufferOnlyWhileSaving`, if no child fails | `SaverInv`: pids are unique, a save in progress has its child, an idle one no waiter |
| `OnlineMissesOnlyDuringSaves` | `[]MissesOnlyDuringSaves`, if SYNC is the only road and no child fails | `CopyInv`: `OrderInv` and `SaverInv` with one saver at a time, and what its file and the buffer hold |
| `LinksProofs`: `TypeCorrect`, `OnlineReplicasHoldTheirMaster` | `[]TypeOK`, `[]OnlineHoldsItsMaster` | `OnlineInv`: who is online or about to be written online loaded from `addr` |
| `WaitersHaveAskedTheirMaster`, `FormerMastersAreCut` | `[]WaitsForAnAskedMaster`, `[]FormerMasterIsCut` | `LinkInv`: the link's connection goes to `addr` and has its callback, and at most one living connection bears the master flag |
| `QListProofs`: `TypeCorrect`, `QueuesHoldTheWaiters`, `ServesNeverFail` | `[]TypeOK`, `[]NobodyIsForgotten`; no serve meets `UnblockClient`'s assertion | `QueueInv`: who waits has its entry, with its target, and is connected; a client that FLUSHALL forgot is in no queue; no full list beside a waiter but the one being served |
| `ReplayIsTheMaster` | `[]ReplayGivesTheLists` | `ReplayInv`: until they part, both stores have the same elements under each key and the same strings, also in the middle of a serve |
| `ElementsStayInOnePlace` | `[]ElementsAreKept` | `KeptInv`: the lists are `Apart` (no element twice, none in two) and with `taken` hold exactly what was pushed |
| `QAOFProofs`: `BytesComeInOrder` | `[]InOrder`, any capacity, any writer and reader | `BufferInv`: `backBytes_` is the length of `backBuf_`, a reader that saw the ring empty has an empty `tmpBuf_`, and it never has more than there is |
| `TypeCorrect`, `BytesComeInOrderHere`, `FileStaysAPrefix` | `[]TypeOK`, `[]InOrder` in the AOF's use of the buffer, `[]FileIsAPrefix` | `Inv`: `BufferInv`; `ThreadInv`, which states of thread, rewrite and buffers go together; `StreamInv`, the file with all that is still on its way is whole; `ImageInv`, so is a rewriting child's with the early buffer; `FileInv`, the file is sound; `RoomInv`, what either stands for only grows; all of it of a file that is not apart |
| `TheFileIsALog` | `Spec => KeepsALog`: `QAOF` implements `DurableLog` | the same |
| `QStoreProofs`: `TypeCorrect`, `DataIsReplayed`, `WatchersAreTold`, `DeadlinesStayOwned` | `[]TypeOK`, `[]ReplayGivesTheData`, `[]ChangedIsTold`, `[]DeadlinesAreOwned` | `Inv`: the four together |
| `KeyspaceTypes`, `KeyspaceKeepsData`, `AnyKeyReadsItsLatest` | `[]AllTypeOK` and `[]DataIsKept` of `MCQStore`; `[]ReadsTheLatest` of `QLeveldb` | `Inv` and `LInv`: of a key that is not excepted, memory has what the commands left, or says that it is gone, or leaves it to the disk, which has it (`MemoryAgrees`) |
| `LinksProofs`: `TheEndIsToldOnce` | `[]EndsOnce` of `NetThreads` | `NetInv`: where the logic thread has the connection tells which callbacks were called |
| `LinksProofs`: `PacketsGoInOrder` | `[](SendsInOrder /\ ToldOnce)` of `EventLoop` | `LoopInv`: how far the connection is tells what is registered and what was told, and the loop is in its callback only while it is registered; `WireInv`: kernel and buffer together hold what was accepted, and nothing waits when the end the peer chose is told, but what came late |
| `NobodyIsBelowTheMaster`, `AnyFaultsLeaveTheLowest` | `[]MasterIsLowest` of `Sentinel`, any number of servers and faults | `Election`: handshake and create are alone on a connection, what a list on its way lacks is newer than all it has, who asks for the set's data has the lowest node |
| `PeersProofs`: `AnswersKeepTheirOwners` | `[]AnswersAreOwn`: of `Future`, `Proxy` and `QMigration`, any length of chain, any members, clients, requests, calls and connections | `ChainInv`: the value has one place in the chain, and what is behind it has run; `CollectInv`: the results are the first that were counted; `ProxyInv`: those waiting or pending rise and come after whoever was answered; `MigrationInv`: what is on the way is a pair of commands and two answers for each call that is out, in the order of the queue |

Why the strengthening is needed, in the cases that matter most. In `QMulti`, that a
touched client is dirty does not follow from itself: the write has to *find* it, so the list
must hold every live clean watcher; and the list loses entries whenever a dead
or dirty one is met, so the invariant is about clean clients only. In `AsyncBuffer`, order
depends on the writer using `backBuf_` exactly while it is non-empty, which
it reads from `backBytes_`: hence the count must be right also between the lock and
the push.

In `QAOF`, what the file stands for says nothing of what comes next: a thread that drains
after a rewrite, a command half written, bytes in three buffers. The invariant is therefore about
the file *after* all of these (`After(file, Stream)`): that is whole, which means that it stands for every
command executed and has the database `lastDb_` selected. Writing a piece, taking
bytes and appending them leave it as it is; a new command makes the log and the stream longer by
the same. What the file stands for now follows, as a parser over more bytes never stands
for less (`Weight` never shrinks) and a command adds one at most. The same holds of the image of a
rewriting child and the early buffer, which is what makes the renamed file whole. In the refinement,
SaveCommand is the log's `Execute`, what writes the file and a rewrite that ends are its `Write` or stutter,
and crash and restart are its own, the restart from the file (`RestartFromFile`) and the one beside it
(`RestartBesideFile`).

In `QList`, a serve is cut into steps, so the replay may not be a step behind: the invariant equates both
stores between any two of them. An entry alone does not show that its client waits for that key, which
is why `outdated` is excepted.

In `QStore`, all rests on one fact about each of some thirty handlers (`Runs`): it leaves a store that is
one, changes what it may change and no more, pushes what it may to `g_dirtyKeys`, leaves no deadline
without its key but where it is known to, and if it succeeds without having met a deadline that has passed,
then the handler the replica runs makes of a store *shown alike* one that is shown alike. It is not true of
equal stores only: a full copy has an integer where the server has its text, and
for INCR and RENAME the fact needs what the model excepts (`EncodedOtherwise`, a deadline on one side). Most
handlers look one key up and edit it, so the fact is proved once for such a pair (`EditRuns`,
`TouchRuns`, `UpdateRuns`, `ChangeRuns`) and instantiated; MSETNX, SMOVE, RENAME and the stores of sets compose two.
What a handler that fails has changed is a fact of its own (`Quiet`): nothing, in most of them, as they look before
they write, or what `silent` lists.
`Inv` is then kept by whatever `Runs` (`ExecuteKeeps`, `KeepKeeps`), and Next has one lemma for every command.

In `QLeveldb`, that a lookup sees the latest value does not say what the next one sees once the key was
evicted, dumped or lost in a restart. `MemoryAgrees` says it of the cell, the disk and the clock at
once: a value in memory is the latest one with its deadline and is not marked deleted; a key that
waits without a value is one that the commands deleted, or whose deadline has passed; and one that neither is
in memory nor waits is on disk as it was left, or dead in both. It must count the deadline as well as the value, as
a key that has expired on disk is still there, and an expiry that memory has not seen yet is a
deletion that nobody asked for.

In `Sentinel` the master's claim is old when it is made: the list of children was sent before
other nodes came or went, and between it and `OnBecomeMaster` lies another exchange. The
invariant follows the claim through the connection. A list (`ListsAreOld`) lacks only nodes made
after all it has, so the lowest of the list is the lowest still; from the request for the data on
(`DataIsForTheLowest`) it stays so, as new nodes get higher numbers; and a server's own number does not change
meanwhile, which needs that the answer to its create cannot still be on the way (`Alone`) and that a second
list finds the same number. `ExistsIs` and `Lists` (no two children with one number) show that the
`CHOOSE`s of `Lowest` and `Highest` mean what they say. In `EventLoop` that all was sent when the end is
told rests on who may send when: in `CloseWaitWrite` the buffer only shrinks until onWriteComplete is reached, what that
one sends is counted (`late`), and a connection that is told of is not registered, so no handler can send on it.

In `Future` the value goes from one future to the next, a callback being called where the value is set, joined from a thread of
its own or run by the loop, while main still appends futures at the other end and the timeout may be on its way to the
root. `ChainIs` names four things of a state, how far main has built, which thread has the
value, what it does there and at which future, and says from these what every stack holds, which callbacks have run
and whether the timeout can still succeed; all steps are then moves of these four. That nothing runs twice follows, as the
value is at one place; that the last callback and the timeout exclude one another follows, as both
need the root's `progress_`.

In `Proxy` an answer is right only as the oldest pending request is the one the server answers next. The invariant says that
`pending` and what the server has are the same sequence while the connection is up, that nobody
waits for a connect beside it, and that the numbers of the requests rise along each queue and are above
those of the answers given, of which a connection that fails forgets some and moves none. After a bulk reply in
parts (`split`) the two sequences are no longer the same, and all that is answered on the connection from then on is in
`astray`.
In `QMigration` the count of the answers says which call they are for as long as nothing was mistaken
(`misled`): `PairsOf` lines up the commands not yet read by the destination, its answers on the way and the one
counted with the calls of the queue that are out, so that a second answer is always that of the call at the
head. Which keys are here and which are there follows from what each call was told.

`SequenceLemmas` has what the proofs need of sets of elements, reversals, ends and concatenations of
sequences, and three facts the library states with an operator as a parameter, restated for sets: a
set of naturals has a least element (`LeastNat`, from `NatLessThanWellFounded` and `WFMin`), from it
induction (`Induct`), and from that the existence of a function defined by recursion over a sequence
(`Recursion`). With them what `After`, a recursive function, does with any sequence of bytes is proved by
induction, the induction hypothesis being membership in a set (`AfterInductIn`).

The proof of each step has one case per action and under it one per conjunct that the
action disturbs; operators that several actions use (`Told`, `TryBgsave`,
`OnRdbSaveDone`, `CronBegin`, `ServeClient`'s) have lemmas of their own.

Only model-checked: everything about liveness (`WaiterComesOnline`, `TimedWaitEnds`,
`LinkComesUp`, `FileCatchesUp`, `PeersGoOn`, `ThreadsGoOn`, and of `SubscribersAreServed` that who has gone is forgotten), since the prover does not
handle fairness; `Glob`, `Rdb`, `Rewrite`, `Parser` and `RdbTransfer`, which are about recursive definitions over data; the
refinement of `Fifo` below; and all of the modules without a proof module in section 2. Of the invariants that a run checks, no theorem states
`AllTypeOK` of `MCLinks`, `MCServer` and `MCData`, sums of types of many modules of which `QReplicaLink`'s and `QList`'s are
proved, `LogsAreWhole`, or `TextsAreUnderstood`, whose module declares recursive operators.

### 5.1 Refinements

* `DurableLog` is what the append-only file promises: of the commands executed it keeps a first
  part, which only grows, and a server that starts again goes on from that part if its last command is whole, and
  apart from it, until a rewrite, if it is not. `QAOF` implements it
  (`KeepsALog`, checked and, as `TheFileIsALog`, proved), the file being mapped to the number of commands it stands for, through rewrites, their
  failures and a crash.
* `Fifo` is a queue of bytes. `RingBuffer` implements it with `held` as the cells between the two positions, whatever
  part of an operation either thread is in, and `GrowingBuffer` through growth, moves and shrinking
  (`BuffersAreFifos`, checked only).

## 6. Not modelled

Section 1.2 lists the components and PROJECT.json what is left out of each. In short:
configuration (read once, at start); slow log, modules and monitors (bounded lists and `dlopen`);
LRANGE, LTRIM, LINSERT, LREM, LSET, LINDEX, SCAN, SORT and the commands that only read; REPLCONF, the ping
and INFO; kqueue and the accepting socket; ananas' datagrams and `WhenIf`; the text of ZooKeeper's messages,
as jute is generated; what each type is encoded to in LevelDB. Vendored code (lzf, ziplist, intset, crc64) and
the unit tests are not part of the system's own logic.
