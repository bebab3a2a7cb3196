# bacs: a verification project

TLA+ models of the concurrent and failure-prone parts of bacs (the archive of
programming problems, the broker that runs tasks, the package manager that
both use, and the libraries they stand on), TLC configurations that check them
on small instances, and proofs of their central invariants that the TLA+ proof
system checks for every instance. Paths are relative to `src/`.

| module | what it is |
| --- | --- |
| `Archive` | the archive server: problems on disk, client threads, the executor, failures, kills and restarts |
| `ArchiveTracking` | what the archive promises about imports, abstractly; `Archive` implements it |
| `ArchiveFrontEnd` | the gRPC and web handlers: calls on several problems, streams that break off, what the caller is told |
| `ProblemImporter` | problem directories read by the drivers, and the packages generated of them |
| `WorkerPool` | the broker's worker pool, with any caller |
| `Broker` | the broker's service program around the pool (it extends `WorkerPool`), with RabbitMQ as environment |
| `TaskDelivery` | what the broker promises of tasks, abstractly; `Broker` with one job implements it |
| `BrokerClient` | the .NET client of the broker: connections, `Send`, `Listen`, acknowledgements |
| `PmRepository` | the package manager: publication, update with its cache, interruptions |
| `PackageUpdates` | what an update promises, abstractly; `PmRepository` implements it |
| `PmEntry`, `ConfigArchive` | names of packages; configurations and indices saved, edited and loaded |
| `PmCache`, `StatementProvider` | the cache of installations that threads share, and the web server that reads it (it extends `PmCache`) |
| `Pm` | the repository beside the cache and its server |
| `FileLock` | the lock of processes and threads the package cache is locked with |
| `FileGuard`, `Tempfile`, `OwnedFiles` | values that own a lock file, values that own a temporary file, and both |
| `QueuedWriter`, `BufferConnection`, `Connections` | `bunsan::asio`: a writer on framed connections; a relay of two streams; both |
| `ProcessExecutor` | programs started by several threads of one process |
| `UtilityTools` | archivers, builders, fetchers and resolvers |
| `CurlEasy`, `HttpClient` | values that own a handle of libcurl; heads of HTTP responses |
| `Application` | static registration, factories, global states shared by applications |
| `Lifetimes` | what handles and registrations promise together |
| `Ranked` | the elements of a set of numbers by their place |
| `MCArchive`, `MCBroker`, `MCPm`, `MCPlatform`, `MCServices` | small instances for TLC |
| `ArchiveProofs`, `BrokerProofs`, `PmProofs`, `ServicesProofs`, `ConnectionsProofs`, `FileProofs`, `PlatformProofs`, `RankedProofs` | theorems |

`Pm` (which `MCPm` instantiates), `MCPlatform` and `MCServices` put components that share no state side by
side: a variable (`part`, `library`, `service`) chosen in the initial state says
which of them a behaviour exercises, the others keep their initial state. A
property of such a run is the conjunction of what several of them promise.

`PROJECT.json` lists the runs, the code lines each definition stands for, for
each property of a passing run a mutated definition that breaks it, the
hazards and the theorems.

## 1. Inventory

### 1.1 How the parts interact

    users -> web forms, gRPC -> archive server -> problem importer -> pm distributor (files)
                                      |                                      |
                            disk: problems, flags                    file server (HTTP)
                                                                             |
    site (.NET client) -> RabbitMQ -> broker service (Go) -> pm repository: cache -> task's program
             ^               |               |                               |
             +--- results ---+---------------+         statement provider: pm::cache -> web

The archive turns problems into packages. The broker service receives tasks
that name a package, lets the package manager fetch and build it, runs the
program in it and sends status messages, a result or an error back. The
statement provider serves files out of installed packages. All C++ programs
stand on the bunsan libraries: locks, temporary files, processes, tools,
configurations, HTTP, registration.

### 1.2 Components

**Archive repository** (`bacs/archive/src/lib/repository_impl.cpp`,
`repository.cpp`, `src/bin/server.cpp`). State: per problem a directory with
the packed data, a revision (a hash of the data), the last import's result and
a set of flags (LOCKED, READ_ONLY, IGNORE, PENDING_IMPORT, custom); in memory a
readers-writer lock, an import mutex, a queue of posted imports and an archive
revision for polling clients. Operations: upload, download, flag edits,
schedule, import, status queries. Client threads run them concurrently; one
executor thread runs posted imports. Hard: an import converts a problem
without the lock while everything else goes on; upload replaces several files;
the server is killed and restarted. Correct when: revisions, results, flags
and packages never contradict each other; a pending problem is imported;
locked problems keep their data.

**Archive front end** (`bacs/archive/src/web`, `archive_service.cpp`,
`rpc.cpp`). State: per call what has arrived and what has been done. Hard: a
call on many problems is a loop of calls on the repository, between which those
of others fall, and which an exception leaves in the middle; streams break off.
Correct when: what the caller is told is what has happened.

**Problem importer** (`bacs/problem`). State: the directory being converted and
the packages written so far. Hard: any package may fail; names in the
directory meet in one package. Correct when: a root package is there only if
everything it imports is.

**Worker pool** (`go/bunsan/broker/worker/worker_pool.go`). State: a wait
group, a channel closed by Cancel, one closed by the first Add, the channel of
requests. Operations: Add, DoAll, Cancel, Abort; a goroutine per worker. Hard:
all of it. Correct when: DoAll returns, and then nothing runs and nothing is
left in the channel, unless cancelled.

**Broker service** (`go/bunsan/broker/{bunsan-broker,service,worker}`). State:
the connection, a consumer goroutine per resource, the loop variable
requests refer to, requests in the pool, unacknowledged deliveries at
RabbitMQ. Operations: connect and reconnect, receive, run a task, answer,
acknowledge, abort on a signal. Hard: lost connections, redelivery, closing
channels that others send on, shutting down. Correct when: no task is lost, a
result is sent once, a signal ends the program, tasks are served across
lost connections.

**Broker client, .NET** (`bunsan/broker_net`). State: per connection its channel
and lock, consumers, unacknowledged answers, work items. Operations: Send,
Listen, Close, reconnection. Hard: reconnection by work items while Close and
Listen wait for the same lock; acknowledgements on a channel that has ended; a
queue of statuses that goes with its consumers.
Correct when: no result is acknowledged before it was handled, what is closed
stays closed, answers are handled across lost connections.

**Package repository** (`bunsan/pm/src/lib/repository*`). State: in a cache
directory per package the fetched checksum, index and sources, and build and
installation archives, each with the snapshot of what it was made of.
Operations: create (on the publishing side), extract / install / update,
clean_cache. A file lock lets one process in at a time. Hard: publication while
an update fetches; a process killed between two writes; deciding from
snapshots what must be rebuilt; circular imports. Correct when: an update that
returns has installed a current release of everything.

**Package cache** (`bunsan/pm/src/lib/cache.cpp`) and **statement provider**
(`bacs/statement_provider`). State: a directory of installations, a shared mutex
that entries hold, per request the entry and what was sent. Operations: get,
clean; requests. Hard: `get` decides without a lock what must be updated, and
releases the exclusive lock before its entry takes the shared one. Correct
when: an entry's files are complete, and what is sent is of one revision, the one
asked for.

**File lock and guard** (`bunsan/process/src/interprocess/sync`): a mutex of
threads and processes out of an in-process mutex and a lock file, shared
through a factory; a file whose existence is the lock. Hard: record locks
belong to processes. Correct when: one thread holds it.

**Temporary files** (`bunsan/common/src/tempfile.cpp`): a value that removes its
file at the end. Hard: names clash, values move. Correct when: each file is
removed by one value.

**Asynchronous connections** (`bunsan/common/include/bunsan/asio`): a queued
writer on a strand, framed reads, a relay. Hard: completions, errors, close and
terminate in any order. Correct when: messages and bytes arrive whole and in
order, and close closes.

**Processes** (`bunsan::process`): file descriptors of parent and children. Hard:
threads start programs at once and share the descriptor table. Correct when:
a program gets the three streams its caller asked for and nothing else.

**Utilities** (`bunsan::utility`): sequences of programs, each with a directory
of its own. Hard: relative paths. Correct when: what is asked for is done where
it was asked for, and nothing else is.

**Configuration** (`bunsan::config`): values to property trees and back. Hard:
operators edit the trees. Correct when: what was saved is loaded.

**HTTP** (`bunsan::curl`): handles of libcurl with what their options point
at; heads of responses. Hard: copies, moves and swaps of what libcurl points at;
redirects and later transfers. Correct when: nothing dangles, and an answer's
status and headers are its own.

**Application, factories, global registry** (`bunsan/common`): what static
initializers register. Hard: their order is unspecified; applications of several
threads share states that the last one destroys. Correct when: no registration is
lost and states outlive their users.

**Not modelled**: the broker service in Python, the task drivers' line protocol,
the judge library, the other foundation libraries, the bindings (section 10).

## 2. Archive

### 2.1 Correspondence

`dirs`, `data`, `revision`, `result`, `flags` are the files of a problem;
`package` is what the pm repository has of it (a revision, or `Torn` while or
after a rewriting that did not finish); `posted` is the queue of `m_io_service`;
`call[t]` is what thread t is executing; `m_import_lock` is the import mutex;
`seen` is what a polling client got with the archive revision it has, or
`Stale` when its revision is no longer the server's.

What a handler does while it holds `m_lock` exclusively is one action, trailing
calls included: `UploadStore` is the exclusive section of `upload`,
`ImportFinish` that of `import_`. What runs without the lock is split:
`Upload` (the test before the lock) and `UploadStore`/`UploadRefused` (the test
after it); `SchedulePrepare` per problem, `SchedulePost` per problem at scope
exit; `ImportBegin` (import mutex, upgrade lock, unpacking, revision regenerated
if unreadable), `ConvertReject`/`ConvertStart`/`ConvertEnd` (the importer and
the package distributor), and the exclusive end: `ImportFinish`,
`ImportChanged` (another revision is on disk) or `ImportUnreadable` (no
revision: `read_revision_` throws).

An exception or a kill inside an exclusive section is an action of its own:
`UploadThrow` and `UploadCrash` leave any of the states that the statements of
`upload` pass through (`FailedStages`, `UploadStages`), `FinishCrash` those
after the result is written. An exception of an import on a client becomes an
error of the call; on the executor nothing catches it and the server goes down
(`Escapes`). `Restart` is the constructor: it posts all pending imports, in any
order, and cannot succeed while a pending problem has no revision, because
`status_all` throws. The lock file of a killed server is taken to have been
removed by the operator.

Data is abstract: contents are model values with a hash, some of which cannot
be unpacked. Left out: `download` and queries without a property, the two
`create_directory` calls of a new problem (one step), a revision file torn by a
kill, `rename` (not implemented), and the test of `exists()` before the lock
(problems are never removed).

### 2.2 Runs

| run | instance | what it shows |
| --- | --- | --- |
| `archive_safety` | 1 problem, 2 contents and a broken one, 2 clients, 5 calls | `PackageCurrent`, `ImportResultReadable` |
| `archive_crash` | the same with 4 calls, a poller, exceptions and kills | `TypeOK`, `PendingIsPlanned`, `RevisionOfData`, `ResultOfRevision`, `LockedDataKept` |
| `archive_live` | 2 problems, 3 calls, fairness | `PendingIsImported`, `CallsReturn`, `ImplementsFairTracking` |
| `archive_v_upload` | exceptions | refutes `UploadAtomic` |
| `archive_v_revision` | one poller | refutes `CacheFresh` |

Bounds. The properties are about one problem at a time; two problems are needed
for the order of posted imports and for schedules that span problems, which
`archive_live` has. Five calls are enough for two uploads that overtake an
import, an edit before and a schedule after. Two clients and the executor are
all the kinds of thread there are. Deadlock is not checked: when the calls
are used up, the server is idle.

`archive_crash` and `archive_live` let clients set LOCKED only: with the web
form's PENDING_IMPORT, which `set_flags` accepts and does not post,
`PendingIsPlanned` does not hold; the theorem assumes the same (`NoMarking`).

Fairness (`archive_live`): weak fairness of `RunPosted`, and of each thread's
steps inside an import or a call. The operating system schedules the threads,
and the mutex is free whenever no thread converts; clients need not call. No
failures there: a failed upload of a pending problem takes the server down.

### 2.3 Proofs (`ArchiveProofs`)

For any problems, contents, hash, clients, flags and number of calls, with
exceptions and kills unless said otherwise:

- `TypeCorrect`: `Spec => []TypeOK`.
- `StorageAgrees`: `Spec => []StorageInv`. `ResultOfRevision` is not inductive: an
  import records its result by comparing the revision on disk with the one
  it converted, so nothing prevents a step from pairing a regenerated
  revision with an older result unless one knows that unhashed data has no
  result (`UnhashedUnimported`), that an overtaken import's problem has none
  (`OvertakenUnimported`) and that only the holder of the import mutex converts
  (`ImportLockHeld`). Those, with `RevisionOfData`, are `StorageInv`.
- `RevisionMatchesData`, `ResultMatchesRevision`: its two consequences.
- `PackageIsCurrent`: `PackageCurrent`, assuming that the server is not killed,
  from `StorageInv` and `BuiltPackage` (a thread about to report success has
  built the package). A kill in the middle of a rewriting does break it
  until the pending import is done again.
- `PendingImportsArePlanned`: `PendingIsPlanned`, assuming `NoMarking`. The flag
  and the plan are written by different steps, so the invariant `PlanInv` follows
  a problem from the flag to the post and to the end of the import, through
  overtaking uploads and restarts.
- `LockedDataIsKept`: `LockedDataKept`, an action property. The test before the
  lock does not matter; the one under it does.
- `ResultIsReadable`: `ImportResultReadable`, assuming that uploads neither throw nor
  are killed, from `UploadInv`. `UploadAtomic` says something only where they may;
  there it does not hold, as `archive_v_upload` shows.
- `TracksImports`: `Spec => ImplementsTracking` under the same assumptions: every
  step of the archive is a step of `ArchiveTracking` or a stutter. The fairness
  that `ImplementsFairTracking` adds is model-checked.

### 2.4 Findings and observations

The violation runs: an archiver error in `upload` leaves a problem without data
and revision where the documentation promises that nothing is done; the archive
revision does not change with uploads and flag edits.

Seen while modelling, without a run: `set_flags()` accepts PENDING_IMPORT without
posting an import (`repository_impl.cpp:287`); the condition of `unset_flag()` is
inverted (line 303 against the comment above it and `repository.hpp:333`); a kill
in the re-upload of a pending problem makes a restart impossible; a kill after the
revision is written and before the problem is marked leaves a problem that is
neither pending nor imported; a kill between the result and the IGNORE edit of a
failed import (line 567) leaves it without IGNORE; a schedule during a running
import has its PENDING mark cleared by that import (the posted import still
runs); `import_()` rewrites a package that is shown as imported, without a lock,
where `repository.hpp:409` says "Atomic, exclusive-lock."; a package named
`a/.install/data` would meet the installation of `a`.

## 3. Services around the archive and the broker (`MCServices`, run `services`)

### 3.1 Archive front end

A call is `start`, then for uploads `receive` (chunks, `got` of `Parts`) and
`unpack`, then `each`: one problem of `todo` per step, in any order, then `send`
(chunks of a file, or the answer); `answer` is the map of statuses and errors,
`done` a history of what was changed, `told` what the caller got. A gRPC caller
may hang up between two chunks (`gone`); cppcms has the whole request before the
handler runs. The repository is reduced to `store` (contents) and `marks` (flags);
its calls are atomic here, and `Archive` has their inside. `AnswersAreTrue`: with
"ok" the answer covers every problem asked for and says of each whether it was
changed; who was refused has changed nothing; no call works on part of a file.
`CallersAreTold` (in `RequestsAnswered`): every call ends.

Proof (`ServicesProofs`, `AnswersTold`): `AnswersAreTrue` for any callers, problems,
batches, refusals and broken streams. The inductive invariant `FrontInvariant` says
that what the loop has come to and what it has not (`todo`) are apart and are
together what was asked for, that the answer has an entry for exactly the former,
that `done` is what those entries report as changed, and that a call has nothing of
either before its file is whole.

Observations: the web front end authorizes nobody; the gRPC flag calls answer
CANCELLED although they never ask `authorize`.

### 3.2 Problem importer

Reading a directory is operators (`problem_type`, tests, groups, versions,
utilities of both drivers); generating is one action per package, in the order of
`internal0.cpp`, any of which may throw. `RootIsComplete`: a root index is there
only with every package it imports, each complete, and each version has the
package the overview names unless one of the same language and format took its
place. `TestsAllTested`: each test is asked for by a group.

Proof (`ServicesProofs`, `ConversionCorrect`): `ProblemConverted` for any problem
directories. The inductive invariant `ConverterInvariant` says that each package was
made as the problem wants it before the next was begun, up to the root, and that an
earlier conversion's packages stand where this one has not come yet; that the groups
ask for every test is a fact about the reading of a directory, not of the steps.

Observations: `format_simple0.md:71-76` documents `in = text|binary`, the code
reads `data_in`; SI units of memory are documented, only binary ones are read; a
failed import of a problem that was imported before leaves its old packages
without their root; `score_` or `continue_condition_` of an undeclared group makes
a group with an empty id; two versions of one language and format overwrite each
other (`statement.hpp:82`).

### 3.3 Broker client

Per client (sender, listener) `running`, `connection`, `channel` and `Lock` of its
`Connection`; `at_[t]` is where a thread stands: the caller of Send, of Listen, of
Close of each, and the thread pool, which serves one reconnection at a time.
`Enter`, `Connect`, `Rebind`, `Leave` are the stretches of `Channel` and
`Reconnect()` between which the connection may be lost; `ListenRebinds` is the
second binding by Listen. `Ends` is the end of a connection or of its channel: each
consumer queues a reconnection and RabbitMQ queues again what is unacknowledged.
The queue of statuses is autoDelete and read without acknowledgement
(`ClientListener.cs:171`, `:174`): with its last consumer it goes, and what is in it
or on the wire then is `Lost` (`Returned`); a status without consumer may be
dropped when it is sent. A delivery of a status (`Deliver`) and its arrival
(`StatusArrives`) are two steps for that reason. A channel that RabbitMQ closes alone
leaves `connection` "shut": `IsOpen` is still true, so `reconnect()` does nothing, and
when such a connection is lost too nobody is told ("deaf").
`items` are the deliveries under way in the thread pool: callback,
acknowledgement or rejection on the channel the answer came by, `error_callback`.

`AnswersKept`: a result or error leaves RabbitMQ only once its callback was called
or, if it cannot be read, `error_callback` is to be; it is handled again only after
a loss, a status never, and only statuses are lost; what was closed stays closed.
`ClientsAnswer` (in `RequestsAnswered`): Send and Listen return, and a listener that is
not closed handles every result and error across losses, and every status as long as
nothing is lost. It excepts a client whose channel was closed alone (`Stopped`), which
does nothing more.

Proof (`ServicesProofs`, `ClientKeepsAnswers`): `AnswersKept` for any answers,
losses and calls, with statuses that are lost, from three invariants.
`ConnectionsInv`: who was closed is not open, and the listener has at most one channel
more than losses. `AnswersInv`: what is gone is accounted for, an item past its
callback has been handled, and only statuses are lost.
`DeliveriesInv`: calls made, calls under way and a delivery that is possible now
are together at most the number of channels, which is what bounds `handled`.

Observations: Listen always subscribes twice (the rebinding of its connection and
its own); a rebinding that throws in a work item ends the process; Close waits
while the broker is unreachable, as the lock is kept across the sleeps; the
thread pool handles messages in any order; BasicAck that fails after a handled
result reports an error for it, and it is delivered again; a channel that RabbitMQ
closes alone (a second acknowledgement, a missing queue) is never replaced, as
`Connection.cs:78` asks only for the connection: Send then tries for ever and the
listener hears nothing, though neither was closed; exceptions of the
status callback are reported as errors of the task though `ClientListener.cs:109`
says they can be ignored; Send without confirmations can lose a published task.

The types of the three components together are `ServicesTyped`; those of the client
need `ConnectionsInv` and `DeliveriesInv`, as they bound its counters.

### 3.4 Instance, bounds, fairness

Two gRPC callers, one of them without the right to write, and a web caller, two
problems and an identifier that is none, two calls; seven problem directories
(two of each driver that are legal in different ways, and three that cannot be
read), three conversions, so a good one follows a failed one and the reverse; one
answer (`MaxAnswers`), which is a status, a result, an error or an unreadable
result, as answers meet nowhere but in the channel that brings them; two losses of a
connection or channel, two sends. Two reconnections may wait: a third
would find done what the first two do. Fairness: threads and the thread pool run,
callbacks return, RabbitMQ delivers and can be reached some time after each
loss. Callers need not call. Deadlock is not checked: calls are bounded.

## 4. Worker pool and broker

### 4.1 Correspondence

`WorkerPool`: `pc[w]` is where worker w's goroutine stands in `run()` (the two
selects are two steps: Cancel may come between them), `job[w]` its request,
`requests`/`closed` the Go channel, `ready` that `Set` was called,
`canceler`/`firstWorker` the closed channels, `doAll` where the call of DoAll
stands, `late` a history variable. `workersWaitGroup` is not a counter but the
set of workers it counts. `DoAllReturn` follows `sync.WaitGroup`: a wait that
wakes to find the counter in use again panics. `select` with two ready cases
takes either. Callers call DoAll and Cancel once, and do not send after they
close. The broker does not keep to the last: its send on the closed channel is
`PutPanics`, and when that happens is a property (`PanicOnlyWhenHalfSubscribed`).

`Broker` extends `WorkerPool` and replaces its environment: `Subscribe`,
`Receive`, `Put` are the reader function and its goroutines; `maintain`, `read`
and `conn` are `maintainConnection`; `stage[w]` is `worker.Do`; `delivery` is the
loop variable that every request of a consumer points to
(`request_reader.go:118`), and `Settle` acknowledges what it holds by then. A
delivery settled twice makes RabbitMQ close the channel. External are queues,
prefetch (`Deliver`), closing channels (`CloseChannels`, which requeues) and
the loss of a connection. A write on a lost connection may fail or seem to
succeed, as nothing waits for confirmations. `Killed` ends the program at any
time. A send on the closed `r.tasks` panics (`PutPanics`).

Left out: delivery tags (a task is delivered at most once per connection), the
order of queues (nothing relies on it), status messages, the timer between two
dials (a failed dial changes nothing), what a task's program does.

`TaskDelivery` is the promise to clients without connections, channels and
workers: a task that was sent is held until it was answered; it may be answered
several times while it is held, and never after. `Broker` maps `sent` to the tasks
published and `held` to those in a queue of RabbitMQ or unacknowledged; results
and errors are the same in both. A step of the program is one step of the
promise or none: an acknowledgement is `Complete`, a requeue is nothing.

### 4.2 Runs

| run | instance | what it shows |
| --- | --- | --- |
| `broker_safety` | 1 job, 2 resources, 2 tasks, one of them unreadable, 2 connections of which 1 is lost | `TypeOK`, `PanicOnlyWhenHalfSubscribed`, `ShutdownInOrder`, `ImplementsDelivery` |
| `broker_live` | 1 job, 1 resource, 2 tasks, 1 lost connection, fairness | `SignalEnds`, `Served` |
| `broker_v_alias` | 2 jobs, 1 resource, no faults | refutes `ResultOnce` |
| `platform` (pool) | 2 workers, 2 requests, any caller | `PoolIsOver`, `DoAllReturns` (in `WaitsEnd`) |

Bounds. Two workers race each other and Cancel; two requests fill and empty the
channel. In the broker, two resources are needed for a reader that fails between
two subscriptions, two connections for answers on a lost one. Two jobs are
where the shared loop variable matters: with them `ImplementsDelivery` fails too (a
wrong delivery is acknowledged and the program is killed before it answers),
which is why the passing runs and the two theorems about tasks have one job. Deadlock is not
checked: the program ends.

Fairness: the Go scheduler runs every goroutine that can run; a task's program
ends; RabbitMQ delivers what it can. Nobody need send tasks or signals, and no
connection need be lost; the pool's caller need only finish an Add it has
begun.

### 4.3 Proofs

All are in `BrokerProofs`. The pool, for any number of workers, requests and capacity: the
inductive invariant `PoolInv` says that a worker stops only for a reason that
lasts (cancelled, or closed and empty), that somebody has started before DoAll
passes `firstWorker`, and hence that whoever starts after DoAll has returned
finds nothing to do. From it: `PoolTypeCorrect`, `DoAllLeavesQuiet`,
`DoAllDrains`, `OneLateRequest`, and together, as the run checks them,
`PoolIsOverAfterDoAll`.

The program, for any number of tasks, resources, connections, jobs and
faults: `BrokerInvariant` (types, the pool's invariant, channels are opened
before they are used, consumers handle their own deliveries, a worker's request
and stage go together), and `ProgramTypeCorrect`. `ShutsDownInOrder`: `ShutdownInOrder`,
that is, DoAll of the program returns only after a signal, with the pool over and
every request settled, though `run()` removes the workers' directories right then. It
holds because the pool is over only when it was canceled or its channel closed, and
both come from a signal (`ToldToEnd`). `PanicsOnlyHalfSubscribed`:
`PanicOnlyWhenHalfSubscribed`. That a send on the closed channel needs a reader that
returned early rests on two facts: consumers start only while the reader has its wait
group (`NoReader`), and `close(r.tasks)` waits for all that a complete subscription has
started (`ReadersLeave`). That `WaitGroup` never panics in DoAll, which `WorkerPool`
allows with any caller, rests on every worker being added before DoAll is called
(`AllAdded`).

One job (`Capacity = 1`): `OneJobLosesNothing`. `NothingLost` is
not inductive: it needs that what is acknowledged is what was answered, though
the code acknowledges whatever the loop variable holds. With one job, a prefetch
limit of one and a channel with one place leave the only unacknowledged
delivery of a resource in one place (library, consumer, channel or worker),
equal to the loop variable (`OnePlace`, `Unsettled`); with
`AnsweredBeforeSettled` this is `OneJobInv`, which is inductive.

`OneJobDeliversTasks`: `Spec => ImplementsDelivery`, which says more than
`NothingLost`: what is done with never comes back, and no answer is written for a
task that RabbitMQ has let go of. That is about steps. An answer is written while its
task is held because what a worker has in hand is the only unacknowledged delivery of
its resource, or was queued again by the loss of its connection (`OneJobInv`); an
acknowledgement lets go of an answered task because a worker only acknowledges after it
has answered and the loop variable is the task in its hand. The other steps move a task
between places that all count as held.

### 4.4 Findings and observations

`broker_v_alias`: `client.md:52` promises a result exactly once; with two jobs it
comes twice even if nothing fails.

Seen while modelling: after Cancel a worker may start one more request
(`worker_pool.go:85`; the interface's comment says "Do not process new
requests"); Add while DoAll wakes panics; `Abort` never aborts a running task
(`ErrCantAbort`); a message that cannot be read is not settled and with one job
stalls its consumer; the reader that returns early because one resource
failed leaves its other consumers running, and a signal then closes the channel
they send on; a result written just before the connection is lost is sent again
(`worker.go:84`).

## 5. Package manager (`MCPm`, run `pm`)

### 5.1 Package repository

`remote[p]` says which release of package p the server has of each of the
index, the sources and the checksum: `create` replaces them in that order, and
an update may come in between (`Publish`). `checksum`, `index`, `source`,
`build`, `installation` are the files of the cache. An archive's content is
what it was made of: pairs of a package and the index and sources that were
unpacked. A snapshot is pairs of a package and its checksum; a checksum stands
for the index and sources it covers, so an archive is as its snapshot says when
the two are equal.

An update is a sequence of actions under the cache lock: `UpdateChecksum` and
`UpdateIndex` per package (`update_meta_tree`), then the depth-first walk of
`update_package_depends` with its `stack` (the set `in`) and `done` (`updated` and
`snapshot_cache`): `Descend` into a dependency, `UpdateSources` for a source
stage, and for a build or an installation `UpToDate`, or `Pack` and
`WriteSnapshot`; a torn archive among those to be extracted fails the build
(`ArchiveUnreadable`). `Tree`, `Content` and `SnapshotOf` are the recursion of
`builder::unpack_source`, which is not that of the walk. The assertions after each
build are kept: phase "asserted". Fetched files are compared with the checksum
before and after the fetch (`update_file`); a mismatch ends the update.
`Interrupt` is any failure or kill, and `Tear` what it leaves of the file being
written. `CleanCache` is `clean_cache()` and the reset of a cache of another
version.

Left out: the order in which dependencies are visited (any), file names and
paths inside archives, a torn checksum file (it is always fetched again before it
is read), fetches that fail (an interruption without a torn file). The update
here ends with the archives of the cache; their extraction to a destination is a
step of `PmCache`. Names of packages and how indices resolve them are `PmEntry`
and `ConfigArchive` (section 6).

`PackageUpdates` is the promise without cache, snapshots, walk and crashes: an
update picks one release of each package it comes to, current at that moment, and
installs exactly what the imports of these call for, or nothing. `PmRepository` maps
`published` to the release of each checksum on the server, `updating` to `target`,
`picked` to the checksums of the packages whose turn has come in this update
(`visited`, and `current` while its index is fetched), and `installed` to the
installation when `update()` returns. So what an earlier update left in the cache is
worth nothing by itself: a checksum counts only once this update has fetched it.
Releases of different packages may have been current at different moments; no single
moment at which all were is promised, and the code does not provide one. Once a
release has been published a second time (`Republished`: a package has come back to
checksum, index and sources it had and left) only the snapshot is promised.

The run shows `ImplementsUpdates`, `AssertionsHold`, `SnapshotHonest` (until a release is
published again, no snapshot that could be taken for current vouches for another
archive) and `UpdateEnds` (in `PmAnswers`). `UpdatedIsFresh` is what
`ImplementsUpdates` says of the state in which an update returns, so it is proved and has
no place of its own in the run.

Instance: a has nothing to build and is made of the sources of c; b is built from its
own sources, those of c and the installation of a, and its installation holds that of
c. So c reaches b directly, as sources, and through a: the package of an import of an
import. The second release of c imports b, which closes a circle, and the third is the
first one again. One interruption or cleaning at any point: it is enough to leave
any one torn file or missing snapshot for a later update; a second only leaves
another. Fairness: the update that has the lock goes on, and its caller lets go of it.

A release that comes again is the case in which the code does not do what it should,
and TLC refutes `SnapshotHonest` and `UpdatedIsFresh` without their condition: an update
is killed between `pack` and `write_snapshot`, the release that the old snapshot names
is published again, and the old snapshot vouches for the newer or half-written
archive. Nothing is assumed of the releases; the properties say what is left then.

Proved (`PmProofs`), for any packages, import graphs and releases, any number of
publications and interruptions: `UpdatesInstallTheirPicks` (`Spec => ImplementsUpdates`),
`UpdatesAreFresh`, `BuildsAsExpected`, `SnapshotsAreHonest` and the types
(`RepositoryTypes`). The properties are not inductive: an entry that an old update left
is reused because of what all updates since have kept. The inductive invariant
`CacheInv` has two layers. `GenInv` holds whatever is published:

- `OlderInv`: the checksums in snapshots are releases no newer than the one in the
  cache, which is no newer than the one on the server; `ArchivesReleased`: what is in
  archives was released.
- `DoneInv`, `WalkInv`, `MetaInv`: the stages visited have the snapshots they must have
  and are closed under dependencies, those on the stack are distinct and not visited; the
  indices visited are those of the checksums and closed under imports. A stage that
  is up to date has the snapshot the walk has computed, and one that is built gets that
  of the builder, which is the same; this is where `AssertionsHold` comes from.

`FreshInv` holds until a release is published again:

- `EntryInv`: a snapshot all of whose checksums are those in the cache is the one
  of the current releases, its archive is made of it, and so are the entries of all
  installations below it. That is what lets an update reuse it.
- `UpdatedInv`, `PackedFresh`: what takes in a stage that has been made again, and has
  not been visited yet, is not current. So a crash leaves nothing that looks
  current above what it has touched.
- `ArchivesInv`: the archives of the stages visited are as their snapshots.

That publications never make it hold again (`RepublishedStays`) is what lets the two be
proved together: a step into a state without republication comes from one without.
With `OlderInv`, a new checksum then makes no old snapshot current
(`UpdateChecksumKeeps`).

What an archive is to be made of, and the trees that the builder unpacks, are
closures of imports. They are written as least closed sets (`Below`, `Tree`), so the
proof compares them without induction: to show that one is inside a set, show that
the set is closed (`UnpackedIs`, `ContentIs`, `DependsSnapshotIs`, `MadeOfIs`). The
assumptions on `None` and `Torn` say that neither is a checksum or a snapshot of
releases.

`UpdatesInstallTheirPicks` goes through the steps with `CacheInv` and `TargetInv`
(whoever does not hold the lock has no target). A fetched checksum is a pick because
the walk of indices comes to no package twice (`ChecksumPicks`); publication changes
what the promise sees only with its last file (`PublishPublishes`); every failure and
kill lets go of the lock and ends the abstract update (`UnlockEnds`). The step that
ends the walk is `Install`: all that is below the target was visited
(`PicksWhole`), so the closure of what the picks need is the one the archive is made of
(`PartsAreOrigins`, `UpdatedAsPicked`).

Observations: a snapshot file torn by a kill makes every later update of its
package fail until someone cleans the cache (`cache.cpp:259`, `:276`), though the
extractor treats the same condition at the destination as "outdated"
(`extractor.cpp:69-72`) and the cache resets itself when its version cannot be
read.

### 5.2 Package cache and statement provider

`data[p]` is the release whose manifest is among the files of p's installation, `whole`
the packages of which all the files are there, `meta[p]` the file an installation ends
with. They are apart because nothing ties them together on the disk: an extraction
that fails may have written the manifest and not the rest, and a `reset_dir` that fails
has removed some files and not others (`RemovePartly`: any of them, in any order).
`owner`, `sharers`, `blocked` are the shared mutex (a waiting writer keeps new readers
out); `pc[u]` walks `get`: the test of meta and its age without a lock, the exclusive
lock, the test of the repository, reset, extraction, the copy of meta, unlock, the
shared lock of the entry. An update finds the release of some moment while it runs, and
may fail before the disk is touched, in the removal, in the extraction, and in the copy
of meta (`FailsBefore`, `FailsToReset`, `FailsToExtract`, `FailsToStamp`). `clean()` may be
called at any time and fail like any `reset_dir` (`CleanFails`). `asked`, `pieces` and
`response` are a request of the provider: it is verified, gets an entry, compares the
manifest's revision with the one asked for, and sends the file in pieces while it holds
the entry. No manifest is an error; other files are not looked at, so a file that is
missing or ends early is found only when it is sent (`Incomplete`, `SendEnds`), and may
be answered "ok".

`StatementsWhole`: an entry is a complete installation unless it is excused
(`InstalledWhenHeld`), and nothing is sent that is not of the revision asked for,
from the first piece to the last (`ServedAsked`). Two things excuse an entry, both
named in the model and both facts of the code. `overtaken`: between `get`'s decision
that the installation is good and the lock of the entry (`cache.cpp:34-49`) somebody
else removed it, by `clean()` or by an update that then failed. `damaged`: files were
removed without meta telling, and `get` or an update takes the rest for whole. That
happens in a `clean()` that fails, and when a removal that fails leaves the meta of a
release that is then published again; it ends when all of them are removed. So the
property says that no other order of updates, failures, cleanings and releases hands out
an incomplete entry, and that a file which ends too early is always one of these
two. `RequestsEnd` (in `PmAnswers`): every request and every `clean()` returns, stated as
`[]<>` idle, which forbids the same as leads-to does and is cheaper to check.

Instance: two threads, one package with two releases, two publications (so the first
may come again), a clock with two times that goes forward only, one failure or
cleaning, two requests, files of two pieces: one thread can update, clean or fail
inside every window of the other. The requests (`RequestsMade`) are for a file of
either release, of no release at all, or of an index, and two that fail the test of the
signature or of the message; the proofs take any set of requests. The packages of a
cache share nothing but the lock. Fairness: the threads run, and the
mutex lets a waiting thread in when it can.

Proof (`PmProofs`), for any threads, packages, releases and bounds:
`ProviderInvariant` and its consequence `StatementsServedWhole`. `FilesInv` is the part
that is not plain: a meta may stand over files that are not whole, after a removal
that failed, but only if it has expired and is not of the current release, or if
the package counts as damaged; as expiry lasts and the update compares snapshots, nobody
believes such a meta. `UpdatersInv` says how far the disk is at each place of an
updating thread, `LocksInv` that places and locks agree, `HeldInv` and `SendInv` carry
both to the entry and to the last piece. `PmTypes` puts the types (`ProviderTypes`) and
those of the repository together.

Observations: `get` reads meta without a lock and throws if an update removes it
meanwhile. The hole at `cache.cpp:48` is closed by the provider's test of the manifest
only where the manifest is gone; if a failed extraction has left one of the revision
asked for, the file that is sent may be cut short, with an announced length that
fits it. After a `clean()` that failed, the same lasts until the meta expires, and
longer if its release is still current, since the update then only renews the time of
meta (`extractor.cpp:76-82`).

## 6. Libraries (`MCPlatform`, runs `platform` and `lock_v_exclusion`)

**`FileLock`.** `m_instances` is the factory of each process, `m_mutex[t]` the
mutex a thread's handle points at, `mlock` who has each mutex, `flock` the process
that has the file, `pcLock` the statement a thread is at: getting a handle and
destroying it (lookup, insertion, removal by the deleter), `lock` with its back-off
(wait for the file with the mutex released, then try the mutex, then release the
file), `try_lock`, `timed_lock`, `unlock`. The file lock is a record lock: any
thread of its process gets it again, and releases it for all. Kills release it.
`ExclusiveUnlessStolen`: threads of a process always exclude each other, and those
of several until one has released the file of another (`stolen`); `LockReturns` (in
`WaitsEnd`). `lock_v_exclusion` refutes `MutualExclusion`, which the cache lock of
the package manager needs. Proved for any processes, threads and mutexes
(`FileProofs`): `LockInvariant`, `HandlesShare` (a process has one mutex per
file, however handles are made and destroyed), `LockExcludes`. The invariant ties
each place of a thread to what it has: `MutexIsTheirs`, `FileIsTheirs`,
`HandlesPoint`. Observed: `timed_lock`'s clean-up (`file_lock.cpp:124`) captures its
flags by value, so a timeout on the file leaves the mutex locked (`LockReturns`
excepts it); the sharable family is not implemented.

**`FileGuard`, `Tempfile`, `OwnedFiles`.** Move-only values and what is in the
directory; `OwnedExactlyOnce`: a file that some value removes at its end is no
other's. Names may clash, and a directory's name may meet a file. Proved for any
values, names and tries (`FileProofs`: `FilesAreGuarded`, `TempsAreOwned`,
`FilesHaveOneOwner`). Observed: `create_directory` on the name of an existing file
throws past `auto_remove(false)` and removes that file (`clashed` in the property);
the move constructor leaves `m_do_auto_remove` unset.

**`QueuedWriter`, `BufferConnection`.** Handlers posted to a strand, completions
among them, frames in two parts, errors at any write or read. `ConnectionsKeepOrder`:
whole messages in the order queued, bytes without a gap. `ConnectionsClose`: close,
or the end of the source, closes, unless a write has failed. Proved (`ConnectionsProofs`,
`ConnectionsDeliver`) for any messages, sizes, buffers, errors and closings: the
writer's queue is what was pushed, from the front on; at most one write is under way,
of the front; what is on the wire and what was read are, part by part, the messages
pushed. The relay's chunks hold exactly the bytes between the last one relayed and the
last one read. Observed: after an
error the writer never closes, the relay never closes its sink (the discard branch
is dead) and may report its end twice; `block_connection` posts an error and writes
all the same when a header fails. Nothing in the repository uses these classes.

**`ProcessExecutor`.** `table` is the parent's descriptor table, shared by its
threads, `child[t]` the copy a fork makes; opening, `dup2`, closing and exec are
steps, so another thread's files are open meanwhile. `ProgramsGetTheirFiles`: a
program starts with the three streams asked for and nothing else, but perhaps a
file of input data that another thread is writing just then (opened without
CLOEXEC), and nothing is left behind. Proved (`PlatformProofs`, `ProgramsStartRight`) for any
number of threads, calls and programs: the inductive invariant (`ExecutorInvariant`)
gives every descriptor that is open and close-on-exec one owner, a stream of one call,
and every other one to the input data being written, in the parent's table and in each
fork's copy of it. The one assumption is that the constant for "no file" is not a
file. Observed: `inheritable()` asks F_GETFL and
inverts it (unused); the error of a moved-from context is empty.

**`UtilityTools`.** A small file system of absolute locations; each tool is the
sequence of programs the code runs, each with its own directory, found by a
resolver; a program fails and leaves a part of its output. `custom_resolver` follows
aliases and then has the name's absolute path, looks for it in PATH, or leaves it as it
is; a name left as it is is looked up in PATH when it is executed (`Starts`,
`context.cpp:78`), so it starts if PATH has it. Archivers get the file's own name, or ".",
relative to a directory they are told to go to or are started in (`cwd_split.cpp:13`,
`:28`), and the archive's absolute path. `BuiltWhereAsked`: a
task that succeeds leaves its source's content at its destination and every task
leaves the rest alone. Proved (`FileProofs`, `ToolsBuildWhereAsked`) for any tasks,
paths, resolvers and failures, under three assumptions on what is asked for: paths are
sequences of names, a source that is built is not in the directory that
`builder::pack` empties first, and the root directory is not packed. The inductive invariant (`ToolInvariant`) says that the
programs left are the last ones of the task's, that what the ones before were to copy
is where the next one looks for it, and that no place but those below the destination
and the working directory has changed; that every program's relative paths lead there
is a fact about the sequences (`FivePrograms`, `OneProgram`). Excepted and observed:
`meson install` takes a relative
DESTDIR from ninja's directory (`meson.cpp:77` against `cmake.cpp:81`); curl may
leave an old file when the new one is empty; a custom resolver without a
configuration never asks the one behind it.

**`ConfigArchive`, `PmEntry`.** Values of the types the repository saves, the trees
they become and what is loaded of them, an operator's edit of one field in
between; indices made absolute. `ConfigsKept`: what was saved is loaded; an edit
changes its field or makes loading throw; names mean the packages they name in the
package they are of. Observed: bools do not come back, absent fields become `T()`,
durations are decimal only; `get_checksum()` of the format's configuration reads
`index` (`pm/config.hpp:38`).

**`CurlEasy`, `HttpClient`.** Handles, options and the objects libcurl points at,
copied, moved, swapped, set and reset; heads parsed line by line over all transfers
of a client. `OptionsOutlive` (in `LifetimesKept`), `HttpHeard`. Proved
(`PlatformProofs`): `HandlesServe`, for any variables, options and refusals (each easy
has a handle nobody else has, its handle points only at options it holds, and the
numbers of the options are the places of a queue, by `Ranked`), and `RepliesAreHeard`,
for any transfers: what the client keeps are the fields after the last status line
among the lines heard, values of a repeated field in the order they came. Observed: setting an
option of two ids on a copy fails an assertion (`option_set.cpp:71`); a self-move
loses the handle; `reset()` forgets the back pointer; a transfer without a status
line returns the status of the one before; "HTTP/2 200" is no status line.

**`Application`.** Units are initialized in any order and libraries opened later;
`factories`, `state_factories` and the lazy storage; applications of two threads
share a registry through a weak pointer. `StatesOutlive` and `RegistrationsKept` (in
`LifetimesKept`). Proved (`PlatformProofs`, `ApplicationInvariant`) for any threads,
units, registries and factories that throw: a builder has the mutex and its states are
a beginning of `state_factories`; nobody holds a registry while another is built;
registries being destroyed are not those held or built; the first unit of a name keeps
it; nothing is in the lazy storage before it is initialized. With `HandlesServe` it
gives `LifetimesKept` (`LifetimesHold`). Observed: a new registry can be built while the states of the old
one are still being destroyed (`global_registry.hpp:53-57`).

Bounds. Two processes, of which one has two threads, is the least in which a
record lock is shared and contended; three lock calls (four for the violation);
three guards of two processes on two paths; two temporary files and two names with
two tries, so every try can clash; three messages, one unwritable, and one error;
four bytes in chunks of two; two threads that start two programs with the contexts
that differ in how streams are given; tasks of every tool, two in a row; two curl
variables with copies; responses with repeated headers, a redirect, an error, none
and a bad line, three requests; two units of one name, two applications, two
registries. Fairness: threads, strands and goroutines run; nobody need call, and
whoever has a lock need not give it back unless the property says so. Deadlock is
not checked: calls are bounded.

Model-checked only in this section: `ConfigsKept`, `PlatformTypeOK` and the liveness
properties (section 8 says why).

## 7. What the runs ask

| run | properties | about |
| --- | --- | --- |
| `archive_safety`, `archive_crash`, `archive_live` | 2.2 | one archive |
| `archive_v_upload`, `archive_v_revision` | `UploadAtomic`, `CacheFresh` | findings |
| `broker_safety`, `broker_live` | 4.2 | one program |
| `broker_v_alias` | `ResultOnce` | finding |
| `pm` | `PmTypeOK`, `ImplementsUpdates`, `AssertionsHold`, `SnapshotHonest`, `StatementsWhole`, `PmAnswers` | repository; cache and provider |
| `platform` | `PlatformTypeOK`, `ExclusiveUnlessStolen`, `OwnedExactlyOnce`, `ConnectionsKeepOrder`, `ProgramsGetTheirFiles`, `PoolIsOver`, `BuiltWhereAsked`, `ConfigsKept`, `LifetimesKept`, `HttpHeard`, `WaitsEnd`, `ConnectionsClose` | libraries |
| `lock_v_exclusion` | `MutualExclusion` | finding |
| `services` | `ServicesTypeOK`, `AnswersAreTrue`, `AnswersKept`, `ProblemConverted`, `RequestsAnswered` | front ends, importer, .NET client |

## 8. What is proved, and what is model-checked only

Proved for every value of the constants, under the named assumptions on constants
in the modules and those said above:

- the archive: types, storage, package, plan, lock and upload properties, and its
  refinement of `ArchiveTracking` without fairness;
- the services: what a caller of the front ends is told, what a conversion makes,
  `AnswersKept` of the .NET client, the types of all three;
- the broker: the pool; the program's types, its shutdown and panics; with one
  job, its refinement of `TaskDelivery`, and `NothingLost`;
- the package manager: the refinement of `PackageUpdates` by `PmRepository` and its
  three invariants, the cache with the statement provider, the types of both;
- the libraries: the file lock, owned files, connections, processes, tools, replies of
  HTTP, handles of libcurl, registration.

That is every invariant and action property of a passing run but two, which are
model-checked only:

- `ConfigsKept`: `ConfigArchive` saves and loads trees by operators declared
  RECURSIVE, which the prover does not reason about, and what they compute rests on
  induction over data, as do the names of `PmEntry`, which are folds.
- `PlatformTypeOK`: it includes the types of `ConfigArchive`. Those of the other
  libraries are part of their inductive invariants.

Model-checked only, too: all liveness (`PendingIsImported`, `CallsReturn`, `SignalEnds`,
`Served`, `PmAnswers`, `RequestsAnswered`, `WaitsEnd`, `ConnectionsClose`), which is
out of the prover's reach, and so is the fairness of `ImplementsFairTracking`. The
violation runs are counterexamples on small instances.

## 9. Running

    tlc -config archive_safety.cfg MCArchive        # or any run of PROJECT.json
    tlapm ArchiveProofs.tla                         # or any *Proofs.tla

Every run ends within four minutes with two workers.

## 10. Not modelled, and why

- The broker service in Python: the Go program has replaced it, and it has the
  same duties with one consumer. Observed: `close()` joins a thread that
  reconnects for ever (`service/consumer.py:58-93`).
- The judge library: translation of results, sequential. Observed: the response
  is collected with `readfunction` where `writefunction` is meant
  (`judge.cpp:53`), so it is always empty.
- The task drivers' line protocol: text in, text out. The broker's model lets a
  task end in every way the drivers can report.
- The foundation libraries that are not named in section 6 (file system
  operations, crypto, protobuf and rpc helpers, enum streams, logging, test
  support): sequential wrappers without state of their own, which their unit
  tests reach.
- Bindings: they pass calls on.
- Pages, templates and sessions of the web front end; settings of tests (limits,
  scores) in the importer; the Windows executor.

## 11. Plan

What would add most next, in this order:

1. `PackageUpdates` in `PmCache` in place of its one step, so that what the statement
   provider serves is tied to what the repository installs.
2. `TaskDelivery` composed with `BrokerClient`: a task sent is answered to the
   listener. Its liveness half needs the fairness of both.
3. The steps of `ConfigArchive` apart from the trees they work on, so that what they
   do with the results of saving and loading can be proved, given what those are.
4. The Python service, if `Broker` is parameterised to cover it.
