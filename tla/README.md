# liquidiot-duktape-server: TLA+ models

The server runs small JavaScript applications ("liquidiot" apps), each in a
Duktape heap of its own, offers a REST API to deploy, inspect, pause and delete
them, and keeps a remote server, the RR manager, informed. This directory holds
TLA+ models of its concurrent core, TLC configurations that check them, and
proofs checked by TLAPS. Paths below are relative to the repository.

## 1. The system

| component | state | operations | talks to |
|---|---|---|---|
| `main.cpp` | none | start the device, the applications, the HTTP thread; join at the end | all |
| SIGINT (`globals.cpp`) | `interrupted` | `sigint_handler` sets it and notifies condition variables | every application, `Device` |
| `JSApplication` (`application.cpp`) | `app_state_`, `is_ready_`, `eventloop_`, `duk_context_`, `ev_thread_`, `app_response_`; `app_mutex_`, `duktape_mutex_`, `cv_mutex_`, `evcv_` | construct/`init`, `instantiate`, `run`, `pause`, `start`, `updateAppState`, `getResponse`, `getDescriptionAsJSON`, `deleteApplication`, `shutdownApplication` | event loop, `Device`, handlers |
| registry and ids (`application.cpp`, `applications_manager.cpp`) | static `applications_`, `next_id_`, `app_names_` | `addApplication`, `getNextId`, `parsePackageJS`, `getApplicationById` | handlers |
| event loop (`custom_eventloop.cpp`) | `exit_requested_`, `current_timeout_`, static `all_eventloops_` | `eventloop_run`, `request_exit` | the app's heap, `evcv_` |
| timers (`custom_eventloop.cpp`, `js/custom_eventloop.js`) | `all_timers_`, `next_id_` | `create_timer`, `delete_timer`, `expire_timers` | callbacks in the heap |
| HTTP server (`http_server.cpp`) | one libwebsockets context, per-connection `user_buffer_data` | dispatch of callbacks by URL and method | request handlers |
| request handlers (`http/*_request.cpp`) | per-connection buffers | GET, POST, PUT, DELETE on `/app`, requests to `/app/{id}/api/..` | registry, `JSApplication` |
| response writer (`http/http_request.cpp`) | `buffer_idx`, `large_str`, `len` | `writeHttpRequest` in chunks | libwebsockets |
| `Device` and manager client (`device.cpp`, `http/http_client.cpp`) | device id and data; per-thread request, client, thread; one mutex | device and app registration, update, deletion | RR manager, config |
| configuration (`util.cpp`) | `config.json` | `get_config`, `save_config` | `Device`, HTTP server |
| file operations, Node modules, console, logs, fatal handler | files | load, extract, delete, resolve, append | `JSApplication` |
| `c_eventloop.c` | | dead code | nothing |

Three kinds of thread touch an application. The HTTP thread runs every handler
of every connection, one after another. Each application has `js_instance_`,
which runs `instantiate()` once and is never joined, and `ev_thread_`, which
runs the event loop until an exit is requested. Requests to the RR manager are
made, by any of them, through a short-lived client thread which the caller
joins.

What is hard here:

* **Locks given back by hand.** Many `lock_guard`s are followed by an extra
  `unlock()` "if for some reason they are not released". On a recursive mutex
  this takes a level from a caller further up, on a plain mutex it frees what
  another thread holds. Who owns what at which line is not readable from the
  code.
* **A join under a lock.** `deleteApplication` joins the event loop thread with
  the app mutex held.
* **The heap as a key.** The registry and the event loops are found by the
  heap's address, which a crash sets to null.
* **State set from several threads.** `app_state_` is read and written outside
  locks; `pause()`, `start()` and `setAppState()` call each other.
* **Notifications without the mutex.** A wake-up can fall between the predicate
  and the sleep, and only a time limit saves the waiter.
* **A timer algorithm in two passes**, marked in one turn, called in a later
  one, over a value stack that is pushed once and popped many times.
* **Requests in pieces.** Headers, pieces of a body and the write of an answer
  are separate callbacks, between which other clients are served; what one
  callback looked up the next one uses. Uploads share a folder, and an
  application keeps one response object for all of its clients.

What would make each component correct: an application that starts ends up
running, one that is deleted is gone, a request is always answered, the heap is
used by one thread at a time and never after it was destroyed, SIGINT ends the
process; a timer fires, not early and a timeout not twice; ids tell
applications apart; the manager's list agrees with the device; a response is
the one to the request.

## 2. Plan

The order follows the importance of the behaviour.

1. `Locks`, `AppLifecycle`, `AppLifecycleProofs`: one application, three
   threads. *Done.*
2. `EventLoopTimers`, `EventLoopTimersProofs`: timers of one application.
   *Done.*
3. `AppRegistry`, `AppRegistryProofs`: several applications, ids given by the
   server, by `package.json` and by the URL of a POST; failing constructors;
   directories; the abstract specification `AppNames`. *Done.*
4. `ManagerClient`, `ManagerClientProofs`, `DeviceIdProofs`: the per-thread
   request slots of `Device`, lost and empty answers, and the device's own
   registration over restarts; the abstract specification `AtomicRequests`.
   *Done.*
5. `RestSessions`: requests on several connections whose phases interleave,
   with uploads and the responses of applications. *Done.*
6. `AppDeletionProofs`, `RestSessionsProofs`: what DELETE and a reload may rely
   on; the properties of the sessions for any number of clients. *Done.*
7. `AppStatusProofs`, and the one timer of `agent.js` in
   `EventLoopTimersProofs`: what is told of an application's state, to whom and
   when; the regularity of an interval. *Done.*
8. `AppService`: an application as a REST client and the manager see it, which
   `AppLifecycle` implements. *Done.*

Left for later: a composition of the threads of several applications over one
registry.

## 3. The modules

### Locks

What `std::recursive_mutex` and `std::mutex` do in glibc when misused, as this
code does: an unlock by a thread that is not the owner is ignored for the
recursive kind and frees the plain kind. A recursive mutex is its owner and a
count; a plain one its owner.

### AppLifecycle

One application from the end of its constructor to its deletion. `pc` gives for
each thread the code it executes next, `frame` the pending call of
`updateAppState` or of `requestExit` it is inside. A step lies between two
operations that another thread can notice: taking a mutex, reading or writing a
shared field outside one, notifying, destroying.

| variable | code |
|---|---|
| `proc`, `interrupted` | the process; the global flag |
| `appState`, `exitReq`, `ready` | `app_state_`, `exit_requested_`, `is_ready_` |
| `inReg`, `loop`, `ctx`, `joinable` | entry in `applications_`; `eventloop_`, `duk_context_` not null; `ev_thread_.joinable()` |
| `app`, `dukt`, `cv`, `sleepers` | `app_mutex_`, `duktape_mutex_`, `cv_mutex_`, waiters on `evcv_` |
| `manager` | the application's entry at the RR manager |
| `op` | whether `deleteApplication` or `shutdownApplication` runs: their common tail is modelled once |

The sections of the module are the functions of the code: `updateAppState` and
its kin (any thread), `instantiate()` ("init"), `run()` with `eventloop_run()`
("loop"), the handlers ("http"), the two deletions, SIGINT. The recursion
`setAppState` → `pause()` → `updateAppState` is a counter of updates still owed
to the manager, bounded by `MaxNest`. `Scripts` says what the JavaScript may
do: end normally, throw an `Error` (which, through `Duktape.errThrow`, requests
an exit), call `response.end()` late, or fail outside a protected call. A
failure of the last kind unwinds C++ frames or skips them, depending on how
Duktape was built; `Unwinding` chooses, and `lifecycle_full` checks both.

Using a null or freed heap or event loop is `Die`, which aborts the process. A
timed wait may end at any time (`ParkedTimeout`, `WaitTimeout`,
`ReadyTimeout`).

### EventLoopTimers

The timers of one application and the turns of `eventloop_run` over them: two
values pushed, rounds of marking and calling, one pop per round, the wait
computed from the last timer. Time is relative and counted in ticks, `Tick` of
them in a millisecond, so that a target strictly passed, reached and ahead are
told apart. `Slack` is the time a turn takes, `Late` how late a wake-up is,
`Parks` how long the application may be paused. `age` and `calls` are history.

### AppRegistry

All applications of one device, a request or a directory loaded at start being
one step: the HTTP thread, and `main()` before it, are the only ones that
construct and delete applications.

| variable | code |
|---|---|
| `disk`, `todo` | `applications/`, a directory being a folder name with or without an id at its end; what `loadApplications()` has yet to visit |
| `reg` | `applications_`; its key is the heap; an entry has an id and `app_path_` |
| `nextId` | `next_id_` |
| `up` | `main()` loading, serving, or dead |

A package is a name, an id or none, and one of four forms: it starts, its
`package.json` is no JSON (the constructor throws and leaves a dangling entry,
`freed`), its `liquidiot.json` is not read (the constructor cleans up and
throws), its id is no number (the process dies). `Starts`, `Fails` and `Kills`
are the constructor in the registry `others`, which for a reload is the registry
without the old application; `Moved` and `MoveDies` are the renaming of the
directory at the end of a POST.

### AppNames

What the registry promises, as a specification of its own: `names`, the id of
each application there is, and the four ways it may change. `AppRegistry`
implements it with `names` being the ids of the entries that are alive
(`Naming`, `ImplementsAppNames`): a deployment or a directory loaded at start is
`Enter` or nothing, a reload `Reload` or, when the new application fails,
`Leave`, a restart and the end of the process `Clear`.

### ManagerClient

The functions of `Device` that send a request are alike, and are the same
steps: join an old client thread (`ExitClient`), take the mutex and start a new
one (`Enter`), wait at most a second (`Woken`, `TimedOut`), join (`Join`), and
read the slot in a last step of their own (`DeviceExists`, `SendDeviceInfo`,
`AppExists`, `RegisterApp`, `UpdateApp`, `DeleteApp`). `Run` to `Ready` are the
client thread.

| variable | code |
|---|---|
| `devId`, `saved` | `id_`; the id in `config.json`, "torn" while the file is empty |
| `mtx` | the device mutex; it is never taken twice by the same thread where it matters, so its owner is enough |
| `pc`, `call` | per thread, the step of the function it is in, and which function |
| `slot`, `client`, `ready` | `ClientRequestConfig`, the client thread and `ready_` of a thread id |
| `told` | applications whose `instantiate()` has talked to the manager |
| `answer`, `devices`, `given`, `listed` | the manager, which is external: it knows devices, and applications by device |
| `faults` | history: whether a request was lost, or the process crashed |

The manager is modelled from what the device expects of it: `null` for a device
it does not know, a fresh id for a new device, an error for an application it
does not list. The body of a description is abstracted to `"info"`, of which
`cleanDeviceId` keeps nothing. A crash loses everything but `config.json`;
`Forget` empties the manager while the device is off.

### AtomicRequests

What the functions of `Device` promise: at most one request is under way
(`owner`), the manager may act on it (`Close`) after it was made (`Ask`) and
before its function returns (`Return`), once, and nothing else the device does
changes `devices` and `listed`. `ManagerClient` implements it (`Atomic`,
`ImplementsAtomicRequests`), the stage of the request being read off the mutex
and the client thread of its owner (`Stage`). This is what makes the time limit
of the wait harmless: a function that stops waiting after a second still joins.

### AppService

What one application promises to a REST client and to the RR manager, without
its threads, labels and mutexes: where it is in its life (`stage`), a register
(`status`), what the manager lists (`told`), whether the event loop runs
(`alive`) and what the PUT that is being answered asks for (`asked`). While it
serves, only a PUT writes the register, with the state asked for (`Set`); the
manager is told nothing but the present value, and only if it lists the
application (`Report`); the PUT is answered when both have happened (`Answer`).
A DELETE pauses the application before it is taken off the list, and its heap
goes after its thread (`Leave`, `Pause`, `Withdraw`, `Vanish`). During the
start, when `instantiate()` and the new thread write by turns, less is promised:
running or paused, and running when it is over (`Ready`).

`AppLifecycle` implements it (`Service`, `ImplementsAppService`): `status` and
`told` are its `appState` and `manager`; `Stage` and `Asked` are read off the
label of the HTTP thread and the frame of its call. That it is implemented is
not a matter of form: three threads call `setAppState`, which tests the state,
writes it and sends it in separate steps, and the event loop thread may still be
in the `updateAppState` with which it began when the application already serves.
A signal makes the loop pause and withdraw the application without being asked,
and a fatal error sets "crashed", so `AppService` holds without both.

### RestSessions

Two or more connections, all served by the one libwebsockets thread. A
transaction is `phase[c]`: "idle", its "body" arriving, its handler having run
("copy"), its answer ready to be written ("reply"), or "stuck", when no answer
will be written.

| variable | code |
|---|---|
| `asked`, `got` | per connection the request; what a client has just received |
| `large`, `str`, `len`, `idx` | `large_str`, `str`, `len`, `buffer_idx` of `user_buffer_data` |
| `err`, `name`, `fd`, `pos` | `error_msg`, `filename`, `fd`; pieces of the body so far. `fd` is "detached" when another client has removed the file |
| `app` | `app_request.app_`, looked up with the headers and used after the body |
| `temp` | the folder for uploads: for each file name the pieces written |
| `code` | for each directory the upload that was unpacked there last (`top`), whether all of its files are there, and the uploads of which files may be left (`rest`) |
| `apps` | the registry |
| `resp`, `body` | per application `app_response_`; the response object of its router |
| `later` | handlers that will call `end()` from a timer |
| `reading`, `freed` | the client whose handler has run and whose response is copied; whether it was deleted meanwhile |
| `clash`, `deferred` | history: two clients sent files of one name at a time; an `end()` was left to a timer |
| `sent`, `failed` | history: the uploads that came to the end of their file; what went wrong on the disk: a write that was too short, an archive that could not be unpacked to its end, one that could not be removed |

A text is the request it belongs to, what it is, and its size class: empty,
fitting `str`, fitting one write, or neither. An archive is a sequence of
pieces, each of which bears the number of its request and is the last, not the
last, or torn by a short write. Nobody looks at the result of a write, of the
extraction or of `remove()`, and so they fail in the model without any
consequence but what is on the disk. `Overlay` writes an upload over what is in
the directory, which nothing clears: all of it, part of it (`extract()` returns
at an error, or goes on after a failed `copy_data()`), or none. Only a whole
archive can be unpacked to its end, but an application is loaded from whatever
is there. The body of a form may end without a file or before the end of the
file (`Done`); then `PostWithoutFile` and `PostReload` load an application anew
all the same. A form has one file at most: the code keeps one name and one
descriptor. When an application that was shut down does not start again the
process ends (`PostDies`), as in `AppRegistry`. A handler writes and ends
("writes"), ends without writing ("bare"), leaves the end to a timer ("later")
or never ends or throws ("silent"). libwebsockets is external: that it gives
each connection zeroed memory, and new memory when
`lws_http_transaction_completed` is called, is what the code relies on.
Creating, reloading and deleting applications is one step here; `AppLifecycle`
and `AppRegistry` have the rest.

### Proof modules

`AppLifecycleProofs`, `AppDeletionProofs`, `AppStatusProofs`,
`EventLoopTimersProofs`, `AppRegistryProofs`, `ManagerClientProofs`,
`DeviceIdProofs` and `RestSessionsProofs`: see section 6.
`MCEventLoopTimers`, `MCAppRegistry` and `MCRestSessions` hold constants and
symmetry for TLC.

## 4. The runs

Passing runs:

| run | question | bounds |
|---|---|---|
| `lifecycle_full` | are mutexes given back and callbacks alone in the heap, whatever happens when | every request, script and signal, requests from the first step on, lost messages, two nested updates; about a million states |
| `lifecycle_settled` | what a client may rely on once the application has started; is `AppService` implemented | all requests, scripts that run or throw; no crash, no signal, no loss |
| `lifecycle_crash` | is the heap destroyed under the loop | crashes, signals, late answers |
| `lifecycle_sigint` | does SIGINT end the process and unregister the app | reading requests only, no PUT or DELETE |
| `timers_agent` | does the one timer that `agent.js` sets work | delays below, at and above `MaxWait`, jitter below half a millisecond |
| `timers_many` | too early, twice | up to three timers and four ids, created and cleared by callbacks, late wake-ups, pauses |
| `registry` | do ids and directories tell applications apart, does a reload keep the id, is `AppNames` implemented | two names, two applications at a time, ids up to 3, packages without an id of all four forms, any number of restarts; 1.4 million states |
| `manager` | one request at a time, the right answer to each, the manager's records, a restart without a crash; is `AtomicRequests` implemented | `main()` and two threads, one application, two device ids, at most one loss and one crash; 210 thousand states |
| `rest` | does each client get its own answer and each application its own archive, is anybody left without an answer | two connections, one file name, one directory, bodies of at most two pieces, three requests or failures of the disk, all four kinds of handler; 1.6 million states |

`lifecycle_settled` leaves out what, as told below, breaks its properties:
requests during start-up, crashes, late answers. `MaxNest = 2` lets one thread
be overtaken twice in a row by another; requests are not bounded, since a
handler returns to `idle`. In the timer runs `MaxWait` is 6 ms in place of
60000 so that a delay of 10 exceeds it; `MaxTimers` is 3 in place of 4096, so
that callbacks run out of slots.

Two names in `registry` are enough for a folder name to be taken by another
application; with `MaxId` 3 an id is given out, freed, searched past and met
again as `name-id`. The two heaps and the two names are symmetric: nothing
orders them. In `manager` two threads besides `main()` compete for the mutex
and reuse their slots, and a second device id is there for the registration
that follows `Forget`; its properties that speak of answers are stated for runs
without a loss, because a single loss breaks them (`manager_stale`), and
`StartsAgain` for runs without a crash.

In `rest` the two clients compete for one file name and one directory, so that
every pair of uploads meets; three requests let a reload or a deletion come
between the headers and the body of a third. The constraint `Bound` counts a
kind of failure of the disk as one of the three, and goes no further once the
server is down. `OwnFiles` and `UploadIntact` are stated for histories without
two uploads of one name at a time, `UploadIntact` also for a disk that does not
fail, `ArchiveUsedOnce` for archives that can be removed, `OwnAnswer` for
handlers that write and end at once: without these conditions they fail (see
below), and TLC reaches both kinds of history in this run. The connections are
symmetric. `View` leaves out what a session holds for its body once that is
over: no action reads it between the answer's making and the new session, and no
property speaks of it, with one exception that is kept, the number, the kind and
the handler of the request.

Runs that refute what the repository says (the findings of `PROJECT.json`):

| run | what the code does |
|---|---|
| `delete_at_start` | DELETE joins, with the app mutex held, a thread that needs that mutex to start: it never returns |
| `timers_two` | with two timers the second round looks callbacks up in the wrong object |
| `manager_stale` | after a lost request a function reads the slot of the request before, and reports success |

The modules show more of the kind, for which no run is kept. Each is found by
taking a configuration and changing what is named here:

| what the code does | configuration, property and changes |
|---|---|
| after a crash of the application, DELETE answers "deleted" and leaves the entry in the registry | `lifecycle_settled`, `DeletedIsGone`; `Scripts` with `"fatal"`, `Unwinding = {"unwound"}` |
| after a crash of the application, GET uses a null heap and the server dies | the same, `ServerSurvives` |
| DELETE never returns while a script is inside `response.end()` | `lifecycle_settled`, `RequestAnswered`; `Scripts` with `"late"` |
| an application whose loop ended before SIGINT stays listed at the manager | `lifecycle_sigint`, `ForgottenOnSigint`; `Scripts` with `"error"` |
| `$terminate` is evaluated without the duktape mutex | `lifecycle_settled`, the invariant that two threads are never `InHeap` at once |
| without timers the value stack grows by two every turn | `timers_agent`, the invariant `StackRestored`; `Initial` is `{<<>>}` |
| a timer of one millisecond (`setTimeout(f)`) is never called | `timers_agent`, `TimersRun`; `Initial` is `{<<[delay \|-> 1, oneshot \|-> TRUE]>>}` |
| a crash while `config.json` is written leaves it empty, and the server refuses to start | `manager`, the invariant `up # "refused"` |
| two clients send archives of one name at a time: an application runs from pieces of both | `rest`, `UploadIntact` or `OwnFiles` without its clash condition |
| files of an earlier upload, which the new archive does not have, stay in the directory of the application that is made from the new one | `rest`, the invariant that `code[a.dir].rest` is empty for every application `a` |
| a `POST` to `/app/{id}` whose archive cannot be unpacked, or which has none, loads the application anew from what is there and is answered 200 | `rest`, `UploadIntact` without `"extract" \notin failed`; the invariant that `a.by` is `code[a.dir].top` for every application `a` |
| a `POST` to `/` that is answered with an error has overwritten files of a running application | `rest`, the invariant that `code[a.dir].top` is at most `a.by` for every application `a` |
| a handler that ends without writing, or not at all, gives its client the answer made for the client before | `rest`, `OwnAnswer` with any handler in `Prompt` |
| a request with a body for an interface that there is not, or for an application that was deleted while the body arrived, ends the server | `rest`, the invariant `up`, without `Faults` and `CopyDies` in `Next` |
| a timer's `end()` deletes the response that the server is copying | `rest`, the invariant `~freed` |
| a handler that writes an empty body leaves its client without an answer | `rest`, the invariant that no `phase` is "stuck" |
| after a restart ids are given anew, a new directory is renamed to the `name-id` of an old one, and the server dies | `registry`, the invariant `up # "dead"`; packages of form `"good"` only |

## 5. Fairness

`AppLifecycle.Fairness` is strong fairness of each thread, and of the server's
test of `interrupted`: the operating system schedules every thread, a timed wait ends,
and a thread that waits for a mutex which keeps being released gets it at last.
Strong rather than weak fairness is needed because a mutex can be taken again
before a waiter is scheduled; glibc mutexes are not queued, so this is an
assumption on the scheduler. Nothing is assumed of clients and of SIGINT.
`EventLoopTimers` assumes weak fairness of the loop thread: its wait ends.
`ManagerClient.Fairness` is strong fairness of each thread inside a function,
for the same reason, and weak fairness of each client thread: libwebsockets
closes a connection on which nothing happens, so that a client thread ends.
Nothing is assumed of the manager beyond that, nor of crashes and restarts.
`AppRegistry` and `RestSessions` have no liveness property and no fairness: a
client may always stop sending.

## 6. Proofs

All theorems hold for every value of the constants that the named assumptions
of the modules allow (`...Assumption`), and for what a theorem assumes besides,
which is said below.

| module | theorems | assumed besides |
|---|---|---|
| `AppLifecycleProofs` | `TypeCorrect`, `CallbacksAloneAlways`, `FinishedHoldsNothingAlways` | |
| `AppDeletionProofs` | `DestroyAfterLoopAlways` | `Settled` |
| | `DeletedIsGoneAlways`, `ServerSurvivesAlways` | `Settled`, no `"fatal"` in `Scripts` |
| `AppStatusProofs` | `StartLeavesRunningAlways` | `Settled` |
| | `PutReachesManagerAlways` | `Settled`, no `Signals`, no `LossyRR`, no `"fatal"` |
| | `ApplicationImplementsService` | `Settled`, no `Signals`, no `"fatal"` |
| | `ForgottenOnSigintAlways` | `Settled`, no `LossyRR`, no `"error"`, no `"fatal"` |
| `EventLoopTimersProofs` | `TypeCorrect`, `OneshotOnceAlways`, `NeverEarlyAlways` | |
| | `AloneAlways`, `LooksUpInTableAlways`, `StackRestoredAlways` | `OneTimer` |
| | `SteadyIntervalAlways` | `OneTimer`, and `Short` or `Punctual` |
| `AppRegistryProofs` | `TypeCorrect`, `DirsApartAlways`, `ReloadKeepsIdAlways` | |
| | `UniqueIdsAlways`, `RegistryImplementsNames` | `NoPackageIds` |
| `ManagerClientProofs` | `TypeCorrect`, `OneRequestAlways`, `OwnAnswerAlways`, `RequestsAreAtomic` | |
| `DeviceIdProofs` | `StartsAgainAlways`, `DeviceIsKnownAlways`, `RegisteredOnceAlways`, `AppsListedAlways` | |
| `RestSessionsProofs` | `TypeCorrect`, `NeverLeftAlways`, `OwnAnswerAlways`, `UploadIntactAlways`, `ArchiveUsedOnceAlways`, `OwnFilesAlways` | |

**`AppLifecycleProofs`.** The theorems follow from the inductive invariant
`LockInv`. None is inductive by itself: that no other thread is in the heap
during a callback depends on the loop thread owning the duktape mutex there,
and this on how often each earlier `unlock()` was effective. `LockInv`
therefore says, for each thread and label, how many levels of the app mutex
(`AppInv`) and of the duktape mutex (`DuktInv`) the thread may hold, who may
hold the cv mutex (`CvInv`), which labels a thread can be at (`HttpFlow`,
`InitFlow`, `LoopFlow`), with a pending call standing for the label it returns
to (`Place`). The proof that a step preserves it is split by part: `FlagsStep`,
`SyncStep`, `PcStep` and `FrameStep` for the types, `FlowStep` for the labels,
`AppStep` and `DuktStep` for the mutexes, each with one case per action;
`LockNext` puts them together and `LockDiscipline` is the temporal conclusion.

**`AppDeletionProofs`.** `DeletionInv` says that while `instantiate()` runs no
request does (`Waits`, which is what `Settled` gives), and that the loop thread
is joinable as long as it runs and has ended once the deletion is past the join
(`Joins`). From it alone `DestroyAfterLoop` follows, crashes included.
`GoneInv` adds that the loop thread does not crash (`NoCrash`) and in which
order event loop, registry entry and heap are taken away (`Dismantled`), so
that no step finds one of them missing and the process is not aborted.
Without `Settled` the theorems are false: `is_ready_` is waited for at most a
second, and the thread that is to be joined may not have been made.

**`AppStatusProofs`** continues both. `StartLeavesRunning` rests on `Turns`:
until `instantiate()` has ended the loop thread gets no further than the duktape
mutex, because `instantiate()` holds it (`DuktInv`). Until then only these two
threads write the state, and both ask for "running" last (`Starts`), so that the
order of their writes does not matter. For `PutReachesManager`, `Steady` says
that no other thread updates the state while a handler is active, and `Reported`
follows what the handler has yet to send and what it sent. `ForgottenOnSigint`
needs `Forgotten`: at each place of each thread from which the process can still
go on to its end, the application is not listed yet, not listed any more, or a
signal will take the loop thread through `deleteApp()`. It fails when a script
throws, since the loop then ends before the signal (section 4).
`CallEffects`, `LoopEffects`, `InitEffects`, `HttpEffects` and `RequestEffects`
say what the steps of each thread do to the state and to the manager, action by
action; the arguments are made on top of them.

`ApplicationImplementsService` shows each step to be one of `AppService` or a
stutter. Three invariants carry it: `Fresh`, that nothing is told of the
application before its thread was made and that it is never shown as crashed
while it starts; `Settling`, that what the new thread still does when the
application serves changes nothing and sends the present state; `Asking`, that
a handler finds the state as it wrote it until it is done, and that a DELETE
past its pause finds it paused. The last two are what the missing locks around
`setAppState` could break. `ServiceInitThread`, `ServiceLoopThread`,
`ServiceUpdates`, `ServiceHandlers` and `ServiceRequest` take the steps of the
threads in turn. Requests to the manager may get lost: `Withdraw` and `Answer`
then promise less of it (`Lossy`).

**`EventLoopTimersProofs`.** `Inv` is the types, `Chosen` (the timer that is
called exists, is marked and has not been removed), `AllOK` (a timeout that was
called was called once and is to be removed) and, until a callback has failed,
`AllDue`: a timer not called yet is as old as its target says, or, once it is
marked, as its delay. This carries `NeverEarly` from the turn in which a timer
is marked to the later one in which it is called. `LeastNatural` and
`GreatestNatural`, from the library's well-foundedness of `<`, say that the last
timer, from which the wait is computed, exists.

Its second half is about an application whose only timer is made by its main
module (`OneTimer`), as `agent.js` does. `Alone` says that a turn then has one
round, with the table of callbacks on the stack. `SteadyInterval` is not
inductive, and what carries it differs with the delay. When the delay is at most
`MaxWait` (`Short`), a marked timer ages as its target comes nearer, and the
wait ends less than a millisecond before the target (`Near`). With a longer
delay a marked timer is called one wait later, long before its target; the call
is then due to the call before it having been early by as much, which `Far`
keeps account of, and this works only as long as the time a turn takes, with the
lateness of the wake-up, varies by no more than a millisecond (`Punctual`).
Without either condition the interval is not steady: in `timers_agent` it is
enough to put `Slack = {1, 9}`, which the timer of 10 ms does not stand.

**`AppRegistryProofs`.** `NoPackageIds`, which `documentation/README.md:38`
recommends, says that no `package.json` defines an id. Uniqueness is not
inductive: what keeps the next application apart is that `next_id_` is not in
use (`NextIdFree`), also while a reloaded application is out of the registry,
and that a URL can only name an id in use. The inductive invariant `IdsInv` is
the types, `UniqueIds` and `NextIdFree`. The lemmas `StartsApart`, `FailsApart`
and `DiesApart` say that a constructor keeps it in any registry `others` in
which it holds, so that deployments, reloads and loads at start are all
instances of them. `RegistryImplementsNames` maps each action to one of
`AppNames` or to a stutter, with `IdsInv` for the freshness that `Enter` asks
for. `DirsApartAlways` needs no assumption on ids. Its invariant `DirsInv` says
that live applications have distinct directories (`Distinct`) which exist
(`Housed`) and hold a package that starts (`Sound`, unless the process has
died), and that while directories are loaded no application is in one that is
yet to be visited. `ReloadKeepsIdAlways` needs no invariant: the constructor
gives the id of the URL to any package without one of its own.

**`ManagerClientProofs`.** The inductive invariant `Inv` adds to the types that
a client thread which runs is awaited (`Awaited`: its function is at the wait or
at the join) and that a process that does not run has no function under way
(`AtRest`); with the part of `TypeOK` that ties the mutex to the labels, at most
one function can be at the wait. `RequestsAreAtomic` shows each step to be one
of `AtomicRequests`, or a stutter, under the mapping `Stage`. `OwnAnswerAlways`
adds `Answered`: the slot of a thread whose client has ended holds the answer to
the call the thread is in.

**`DeviceIdProofs`** continues it. `Phases` says which functions can be under
way while the device registers and while it serves, and `Torn` that the file is
empty only while it is written or after a crash. `Known` follows the answers of
the two calls of `init()` to the device's id, `Once` counts the devices along
the same calls, `Alone` and `Listed` follow an application through `appExists`,
`registerApp` or `updateApp`. That the answers are those to the calls themselves
is `Answered`, from the module before.

**`RestSessionsProofs`.** `TypesInv` is the types and, for each session, which
buffers it can have in which phase (`Sessions`); `NeverLeft` follows. `AnswerInv`
adds that the response being copied, and the text that will be written, were
made for the request of the session (`Owns`), and that a late `end()` leaves its
trace (`History`). `UploadInv` numbers the requests (`Numbered`), says that a
request whose body arrives has made no application, that its file is closed when
it has come to its end, and that no application came out of a file that is still
in the folder, unless one could not be removed (`Unused`), and that a directory
belongs to one application (`Apart`). As long as there was no clash, the file
that a session has open holds the pieces of its own request and nothing else, in
their order and whole but for short writes, and no directory has got any of them
(`Separate`). From this follow `ArchivePieces` and `WholeArchive`: what the end
of a form unpacks is its own upload, and all of it when nothing failed. So each
directory that an application runs from is `Complete` (`Intact`, which is
`UploadIntact`), and `OwnFiles` follows because no other step puts files into a
directory (`StepUnpacks`). The conditions of the properties on `clash` and
`failed` are the conditions of the theorems; nothing else is assumed.

TLC checks all of these properties in the runs of section 4, on the instances
given there, but `StackRestored`, which only the theorem states; the invariants were tried with it before they were proved.

Every invariant and every action property of the runs that pass is stated by
one of these theorems, under the conditions of its run or weaker ones. Only
model-checked are the liveness properties, which TLAPS does not reach:
`RequestAnswered`, `ResumeReachesLoop`, `ExitEndsLoop`, `SigintStopsServer`,
`TimersRun` and `RequestReturns`; and what the three runs of the findings refute.

## 7. Not modelled

The static mutex (taken and kept by the HTTP thread only); the threads of more
than one application at a time, and so races on the static maps; the fields of
forms and JSON texts, and the contents of archives and files beyond whether they
are whole; logs, module lookup, and `registerAppApi()`, which nothing calls: see
the notes in `PROJECT.json`.
