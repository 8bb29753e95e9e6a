# A verification project for web-client

`src/` is a small C++20 client: a websocket connection that keeps itself alive
and reconnects (`web-socket.h`), and an uploader that sends the files of a task
to a server in parts and can resume (`sender.cpp`).  This directory holds TLA+
modules for the parts that carry state, TLC configurations that check them on
small instances, and TLAPS proofs of the properties that matter most for every
value of the constants.

    tlc -workers 2 -config ws_client.cfg WebSocketClient
    tlapm WebSocketClientProofs.tla

`PROJECT.json` says for each definition which lines of the source it models,
for each property which change of the code would break it, and for each hazard
of the code which property watches it.

## 1. The system

| component | source | state | operations |
|---|---|---|---|
| `websocket::Client` | `web-socket.h` 52-416 | one `io_context`; a resolver; a websocket stream; one receive buffer; `heartbeat_timer_`, `reconnect_timer_`; `is_closing_`; a weak pointer to the Manager | `start`, `write`, `stop`; the handlers of resolve, connect, TLS, handshake, read, write, close; `handle_error`, `start_heartbeat`, `do_ping` |
| Manager | `web-socket.h` 24-50 | none of the client's | `on_connect`, `on_disconnect`, `on_message`, `on_error`, `get_ping` |
| `main` | `main.cpp` | one client of a `ws://` url | `start()`, never `stop()` or `write()` |
| `send_file` | `sender.cpp` 182-311 | a row of `file_transfers` (`transfer_id`, `transferred_size`, `transfer_state`), a copy of it, a `FILE` | one upload: meta request, then parts |
| `check_transfer_result` | `sender.cpp` 152-180 | none | the code, id and message of an answer |
| `upload_one_task_to_cloud` | `sender.cpp` 374-443 | the `state` of a row of `tasks`; jobs in a thread pool | scan the directory, one job per file, wait, "upload-end" |
| thread pool pointer | `sender.cpp` 117-150 | one global `shared_ptr`, `request_url` | `start_thread_pool`, `stop_thread_pool` |
| session sketch | `sender.cpp` 14-115 | `meta_info_t` | `session_process`; its helpers are stubs |
| log cleaner | `Log.cpp` 14-65 | a stop flag, a `std::thread`, a directory; the file sink of `init` writes into it | `start_clean_routine`, `stop_clean_routine`; every log record |
| HTTP helpers | `http-utils.*` | none | `parse_request`, `construct_multipart_formdata` |
| certificates, build | `root_certificates.hpp`, `CMakeLists.txt` | none | - |

How they interact.  `main` starts a client and stays in `ioc_.run()`: every
handler runs on that thread, one at a time.  Only `stop()` comes from elsewhere
(a signal, another thread), because `start()` does not return while there is work.
Handlers call the Manager if it still exists; the Manager may call `write` or
`stop` back.  The uploader is separate: `upload_one_task_to_cloud` queues
`send_file` jobs in a shared pool, and both talk to the server through
`util::Http::transfer` and to the database through `core::update_items`, neither
of which is in the repository.

What is hard in it, and what makes each part correct:

* **Client.**  Two lookups can be outstanding, a new connect closes the socket
  under the operations of the previous one, reconnecting restarts a heartbeat that
  is pending (whose handler then treats the abort as a failure), every failure
  re-arms one reconnect timer, and `stop()` interleaves with all of it.  Correct
  means: until `stop()` the client is never left without anything that could bring
  the connection back; attempts keep their distance; what the Manager hears
  alternates; frames do not overlap, for `write` keeps no queue; after `stop()`
  has returned nothing happens but what the handler that was running still does.
* **`send_file`.**  The process may die between the server storing a part and the
  row saying so; answers get lost; the server may forget an id; an empty file and a
  multiple of the chunk size end with an empty part; two calls can work on one row, each
  with its own copy.  Correct means: the
  server has got every part of a Completed file, each with the bytes of its place; the
  row is never ahead of the server; the retries end.
* **Task.**  Several callers with copies of one task, jobs of several tasks in one
  pool, a pool that is stopped, or replaced and destroyed, while it is used, a crash in
  `File_Transfering`.  Correct means: one upload-end per task, after all its files, no
  task left behind, and no job that outlives the call it works for.
* **Receive buffer.**  One buffer serves every connection of the client; a read that
  fails leaves fragments in it.  Correct means: the Manager is handed each message,
  whole, and nothing after `stop()` but the message being handled.
* **Log cleaner.**  Ages are measured from before a sleep of four hours, files are removed
  while the sink may have them open, an error ends a scan, and stop and start race with a
  thread that looks at its flag once a round.  Correct means: no record is lost, no young
  file goes, every old one does in the end, a stop ends the thread.

## 2. The modules

| module | what it is |
|---|---|
| `WebSocketClient` | the client, handler by handler |
| `ReconnectLoop` | what the client promises, without sockets, queues or timers |
| `ReceiveBuffer` | `do_read`, `on_read` and the buffer that outlives the connections |
| `TransferResult` | `check_transfer_result`, as operators |
| `SendFile` | one `send_file` at a time: its row, its FILE, the server and the faults between them |
| `MCSendFile` | the answers a server may give, for its instances |
| `ResumableUpload` | what `send_file` promises, without requests, answers, copies or crashes |
| `OverlappingSends` | several calls of `send_file` for one file, each with its copy of the row |
| `UploadJob` | what those calls look like to the thread pool |
| `UploadTask` | `upload_one_task_to_cloud`: tasks, overlapping callers, the shared pool |
| `MCUploadTask` | the files of its small instance |
| `LogCleaner` | the cleaner thread, its start and stop, the file sink it works against |
| `TaskDelivery` | `UploadTask` and `OverlappingSends` together, for one file of one task: only proved about |
| `WebSocketClientProofs`, `ReceiveBufferProofs`, `SendFileProofs`, `OverlappingSendsProofs`, `UploadTaskProofs`, `LogCleanerProofs` | the proofs |

The abstract ones are `ReconnectLoop`, `ResumableUpload` and `UploadJob`; each is
implemented by the detailed module before it, which TLC checks and TLAPS proves.
`UploadJob` is also the seam between two detailed modules: the calls of `OverlappingSends`
implement it (`ImplementsJob`), and the jobs of `UploadTask` are, file by file, what it says
(`JobsAreSends`).

### WebSocketClient

One action is one completion handler with everything it calls, one expiry of a
timer, or one of the five steps of `stop()`.  `stop()` is on another thread, and
`ioc_.stop()` does not wait for the handler that is running: the last step of `stop()`
leads to `returned`, in which one more handler may run, with all it tells the Manager,
writes and arms, before `run()` returns (`stopped`; `RunReturns` if none was running).  Between
the earlier steps of `stop()` handlers run whole: the timers and the stream are not made for
two threads, and what the code would do if two calls hit one of them at the same moment
is not modelled; in which order such calls take effect is.

| variable | in the code |
|---|---|
| `loop` | `start()` not called, running, after each line of `stop()`, `run()` returned |
| `resolves` | `async_resolve` operations outstanding |
| `stage` | what the stream is doing: idle, connect, ssl, handshake, handshakeClosing (a close was sent meanwhile), open, closing |
| `reading`, `writes`, `writeLeft` | the `async_read`, the `async_write`s, the 2 s of `expires_after` |
| `killed` | operations aborted by a new connect whose handlers are queued |
| `refused` | `async_write`s on a stream that is not open, handlers queued |
| `heartbeat`, `hbFired`, `hbAborted` | the wait of `heartbeat_timer_`, its queued handler, its handlers queued with `operation_aborted` |
| `reconnect`, `rcFired` | the same for `reconnect_timer_`; an aborted wait only logs, so it leaves no trace |
| `manager`, `view` | whether `manager_.lock()` succeeds, and what it was told last |
| `sinceAttempt`, `appWrites` | history, for the properties and a bound |

Helpers carry the names of the functions they stand for: `HandleError`,
`DoClose`, `StartHeartbeat`, `DoResolve`, `DoConnect`, `DoPing`, `Write`.

What is assumed of Boost, all of it visible in the module:

* `async_connect` on a `tcp_stream` closes its socket first, so that every
  operation that uses the socket ends with an error: `DoConnect` moves them to
  `killed`.  A close or TLS handshake among them only reports an error (`on_close`,
  `on_ssl_handshake` do not call `handle_error`), which is why it is told at once
  and not counted.
* `expires_after` and `cancel` on a timer queue the handler of the pending wait
  with `operation_aborted`; a handler that was already queued keeps running
  without error.
* A websocket stream accepts a write while it is open, and during its handshake,
  when it does not know itself to be closed; holds it back while a close is
  under way; and fails it otherwise.  The same test lets a close through: on an open
  stream and during the handshake, which may then still succeed (the stream is open and
  closing), or fail with the close.  On another stream a close fails and changes
  nothing.  This is the build without assertions; with them, some
  of these calls abort the process.
* The io_context is first-in first-out.  Handlers queued when a socket is closed run
  before the new connection makes progress (`killed = 0` guards the progress of a
  connection).
* Time is discrete, and `Tick` needs an empty queue: handlers take no time compared
  with seconds.  Two timers due at the same tick fire in either order.

### ReconnectLoop

Nine actions over four variables: begin, wait, attempt, answer, up, down, close,
return, end.  It says that between `start()` and `stop()` lookups begin at least
`ReconnectDelay` apart, that the Manager is only told "up" or "failed" while the
client is active, and that after `stop()` has returned at most one of these steps is taken, that
of the handler which was running then.  `WebSocketClient`
implements it with the phase of `loop`, `resolves` and `sinceAttempt` as the
refinement mapping (`ImplementsReconnectLoop`).

### ReceiveBuffer

A connection is here just a period in which a read is outstanding; `WebSocketClient` says
when there is one.  A byte is the pair of its message and its place in it, so that the
properties can tell whose bytes the Manager is handed.

| variable | in the code |
|---|---|
| `reading` | an `async_read` is outstanding |
| `incoming`, `message`, `size`, `got` | the message the peer is sending and how much of it has arrived, in fragments of any length |
| `buffer` | `buffer_` |
| `closing`, `manager` | `is_closing_`; `manager_.lock()` succeeds |
| `heard` | what the last `on_message` was handed |
| `cut`, `late` | history: bytes left behind by failed reads; messages of this connection handed over after `stop()` |

`stop()` runs on another thread, so it may also run during the callback: `OnReadOk` picks
whether it did before it looks at `is_closing_`.

### TransferResult and SendFile

An answer of the server is a record: whether it is a JSON object, its `code`, and the
texts under `msg`, `meaage` (the key line 170 looks for) and `message`.  `ResultCode`
and `ErrorInfo` are what `check_transfer_result` makes of it; the first is -1 for what
has no code or is no JSON.

`pc` follows the control of `send_file`: idle, open, meta, metaReply, chunk,
chunkReply, complete.  The row survives a crash, everything else in the client does
not.  A request and its answer are two steps, so that the server may have acted when
the answer is lost.

| variable | in the code |
|---|---|
| `fileSize`, `rowId`, `rowSize`, `rowState` | the row: `file_size`, `transfer_id`, `transferred_size`, `transfer_state` |
| `myId`, `offset` | the copy `file_transfer` and the local `offset` |
| `position`, `handles` | where the FILE stands; FILEs open in the process |
| `reply` | what `Http::transfer` hands to the callback |
| `issued`, `known`, `stored`, `final`, `misplaced` | the server |
| `resumed`, `faults` | history: ids a call went on with at an offset above 0; faults |

The server is external.  It stores a part under the id it knows, keeps per id how far
the file is there without a gap and whether a part said "finally", and flags an id
that got bytes from another place than its Part-Info says.  `Received(id)` says that parts
for the whole file have arrived under an id, of whatever bytes; that the bytes are the right ones is
a second matter, and true (`DoneIsReceived`, by `InPlace`) exactly of uploads that no call has
resumed: what a resumed one sends is the finding `resumed_bytes`.  How the server words acceptance, a
refusal and a forgotten id are the constants `AcceptAnswer`, `ErrorAnswer` and
`NotFoundAnswer`: the code stores the result of `check_transfer_result` in a `bool`
(line 275), so a refusal with a code other than 0 is not seen.  Safety is stated for servers
that refuse with 0 (`RejectsWithZero`); the run `rejected_part` shows the other kind.

A call of `send_file` is retried while the row is not Completed, one call at a time:
that is the pool of one thread that `LOCAL_DBG` selects, which `CMakeLists.txt`
defines.

`ResumableUpload` has four actions: the server holds more, the row claims more of what is
held, both start over, the upload finishes once the server was given a part for every byte.
`held` is `stored` of the id in the row, `whole` says that some id is `Received`: both are about
ranges, not about their contents.

### OverlappingSends and UploadJob

With the pool of ten threads two callers of one task send one file twice at a time.  What
matters then is who writes which column: `update_items` writes the id, the size or the state
alone, `update_file_transfers` ("not find file_id") the whole row from the copy of the
call.  So the module keeps the actions of `SendFile`, one set per call, and leaves
out what it says nothing new about: the bytes of a part, the FILE, the wording of
refusals (the server refuses with 0).  A file is `Parts` parts, the last one marked "finally"; a
call that resumes behind it sends an empty one, as the code does.

| variable | in the code |
|---|---|
| `rowId`, `rowSize`, `rowDone` | the row |
| `pc`, `myId`, `offset`, `reply` | per call: its place, its copy, its next part, the answer its callback is about to read |
| `issued`, `known`, `stored` | the server |
| `sound`, `misread`, `overlapped` | history: whether the row a call read was `Consistent`, i.e. claimed no parts of another upload; whether some call read one that was not; whether calls have overlapped |

Calls that overlap can leave a mixed row: one writes its id, another its size.  While
they run this is harmless, for each goes by its copy; but a call that begins later, after
a crash say, resumes the one upload at the place of the other, skips parts the server
never got under that id, and marks the row Completed.  `DoneIsReceived` says that this is
the only way to lose a part of a file, `MisreadIsOverlap` that it takes an overlap.  No comment
promises otherwise; `Exclusive` in `UploadTask` is how an application avoids it.

`UploadJob` is a job as the pool sees it: it starts on a row that is not Completed, and
ends with the row Completed, as it was, or turned back.

### UploadTask

`pc[c]` follows one call of `upload_one_task_to_cloud`: held (a copy of the task has
been fetched), creating, replacing and naming (the pool and the url of `start_thread_pool`),
marking (the test of the copy), scan, exec, wait, check, ending, ended, failing.  A caller may hold its
copy for as long as it likes before the call, since the overload that takes a `core::task` is public.
A copy that is no longer used is set back to "wait", which nothing reads and which saves TLC states.

| variable | in the code |
|---|---|
| `state`, `completed` | the rows of `tasks` and the Completed rows of `file_transfers`; they survive a crash |
| `task`, `copy`, `toScan` | `task_id`, `task.state`, what the directory iterators have not reached |
| `pool`, `named` | the object the global `thread_pool` points to; `request_url` is set |
| `stopped` | the object `stop_thread_pool` has called `stop()` on, until it resets the pointer |
| `mine` | per caller: the object it waits on (line 420), or is destroying (line 135 or 137) |
| `handed` | jobs whose caller has read `thread_pool` and not yet called `exec` on what it read |
| `queued`, `running` | jobs <<pool, caller, task, file>>: a job refers to the `task_id` of its caller and owns its path |
| `ended` | tasks whose upload-end was answered, or had no url to go to |
| `orphaned`, `faults`, `crashed` | history; `orphaned` are the tasks of `Exclusive` a pool was running jobs of when it was replaced |

A job is a call of `send_file` seen from outside, the `UploadJob` that `OverlappingSends` implements: it returns at once if the row is Completed when
it starts; otherwise it leaves the row Completed (`JobDone`), or as it was, or written
over with the copy it had read ("not find file_id", `JobFails`).  The files of a task
are those that have a row; `send_file` and the scan skip the others.

Who calls this code is not in the repository.  `Exclusive` is the set of tasks the
application uploads in one thread at a time; what holds for all tasks and what only for
these is the question the module answers.

The pool is replaced in the order of the code.  The assignment of line 135 or 137 makes the new
pool the one everybody uses (`CreatePool`, after a test of the pointer that may be old) and only
then destroys the old one, which waits for the jobs it runs (`DestroyPool`); `stop_thread_pool` stops
the one it finds (`StopPool`) and resets the pointer, whatever it points to by then (`ResetPool`).
Of the pool itself, which is not in the repository, it is assumed that `wait_for_all_done`
returns when it has no job of anyone queued or running, that `stop()` and the destructor
wait for the jobs that run, and that the jobs it has not started by then, or is given after that,
never run.  A caller that waits on a pool that is stopped or destroyed under it (`Stranded`; nobody copies
the `shared_ptr`) may return from the wait or stay there for ever; that it crashes is `Crash`.  Using
`thread_pool` when it is null ends the process.

So a caller can wait on a pool that is not the one its jobs are in, and give its task back while they
run; they then refer to a local variable that is gone.  A task this has happened to is
`orphaned`, and what is said of `Kept`, the tasks of `Exclusive` that are not, is all that can be said: such
a job can turn the row of an extracted task back, or send a file beside a second one.  What the dead
variable holds goes only into the requests of the job, which finds its row by the path; that they are
refused for it is a fault like any other (`JobFails`, `Crash`).

### TaskDelivery

Both modules in one state space, for one row of `file_transfers`, which they share: `rowDone` of
the sender's side is the row's place in `completed`.  A job for the row starts with the query of a call
(`StartCall`), the call then goes on by itself (`Within`), and the step that ends it ends the job
(`EndCall`): what that step leaves in the row is what the job leaves in it.  Everything else of the task's
side leaves the calls alone (`Elsewhere`), and a crash is one of both.  That a call is
on its way exactly while its job runs (`Linked`) is not part of these actions; it is the
theorem `JobsAreCalls`.  The two keep their own faults: a request that fails is
one of the sender's and, when it fails the job, one of the task's.  The module is for the
proofs alone; TLC cannot run it as it stands, for it does not find what a step
of an instance leaves unchanged.  That its behaviours are not empty was seen on the same
actions with the definitions of the two modules copied out: with two callers and one file
it has 2.95 million states, among them a task extracted after faults, and, once a pool was replaced
under its jobs, overlapping calls and a mixed row that is read.

### LogCleaner

A tick is half an hour, so that truncation to hours (line 49) is visible; scans take no
time, but the application may log between any two of their steps.

| variable | in the code |
|---|---|
| `process` | running, exited, or ended by `std::terminate`: the assignment of line 41 and the end of `main` destroy a `std::thread` that is joinable |
| `starting`, `flag` | between lines 40 and 41; `clean_thread_stop_flag` |
| `thread`, `pc` | `clean_thread`, and where its loop is |
| `slept`, `toVisit`, `victim` | the age of `now`; what the iterator has not reached; the file found too old, between line 50 and the end of line 52 |
| `info` | whether records of severity info pass the filter of `init` |
| `exists`, `age`, `open`, `dayOver`, `toMidnight` | the files, the time since their last record, the one the sink has open, whether a midnight has passed since its last record, the time to the next |
| `lost`, `late` | history: a record went to a removed file; scans begun after a stop |

Of Boost.Log it is assumed that rotation happens with the first record after midnight or with
a record that finds the file full, that the new file has a name not in use, and that a record
reaches the file at once (`auto_flush`).  The line "delete log:" of the cleaner is such a record
too, and may open a new file in the middle of a scan.

An error of the file system ends a scan (`ScanFails`) at any file and any number of times, also in every
scan at the same file, which then starves those behind it; nothing in the code prevents that, and
`OldRemoved` makes it the one exception.

## 3. The runs

| run | asks | bounds |
|---|---|---|
| `ws_client` | the client of `main.cpp`: the inductive invariant, recovery pending, pings apart until a close, connects alternate, `ReconnectLoop`, handlers drain; never quiet; without a Manager a scheduled reconnection happens | periods 3, 3, write timeout 1, two lookups, two pings held back by a close |
| `wss_client` | over TLS, with an application that writes once: after a TLS failure the next heartbeat schedules a reconnection | write timeout 2 |
| `receive` | what the Manager is handed ends with the message; in front of it is exactly what failed reads left; one message at most after `stop()` | sizes 0, 1, 2, 4; 5 messages; any fragments, any number of connections |
| `send` | the inductive invariant; of a Completed file every part was received, and in place unless it was resumed; finally is last, the row moves on, handles are lost to faults only; `ResumableUpload`; every step leaves less work, and the file is Completed in the end | sizes 0, 1, 4, 5 with chunks of 2; 3 handles; 5 ids; 4 faults |
| `sends` | a call that read a sound row gets every part to the server; so does a Completed row but for a mixed one; a mixed row takes an overlap; `UploadJob`; the row stays Completed in the end | 2 calls, 3 parts, 6 ids, 2 faults |
| `task` | the jobs of the current pool end within their call; no task is left behind without a crash; for an `Exclusive` task no pool was replaced under: extracted means complete, and nothing of it is taken back; the jobs are those of `UploadJob`; a missing upload-end is a fault or was sent before the url was set; calls return, and a task that waits is uploaded, unless the process crashes or a pool is taken from under its caller | 2 callers, 2 tasks (one `Exclusive`, with 2 files; the other without), 3 names for pools, 2 threads in each, 1 fault |
| `log_cleaner` | no record is lost, only old files go, at most one scan after a stop; a stop ends the thread; old files go in the end, unless scans fail again and again | 4 files; an age, a day and a sleep of 1 hour; ages up to 2 hours |
| `reconnect_starves`, `reconnect_of_open`, `resumed_bytes`, `rejected_part`, `stale_prefix` | the five disagreements of section 6 | as small as shows them |

Why the bounds are enough.

* Client.  What matters about its times is their order, and it is kept: the write timeout
  is shorter than the heartbeat, the heartbeat equals the reconnect delay (5, 5 and 2
  seconds in the code), and with 3 there are ticks before, between and at the
  deadlines.  `MaxResolves` = 2 allows the overlap of two connection attempts, the
  cause of every `killed` operation; a third adds only more of the same.  The counters
  `killed`, `refused` and `hbAborted` need no bound of their own: they drain before
  time passes.  `MaxSuspended` bounds the pings queued behind one close, which the code does
  not bound: a close waits for the peer, or behind the read for up to 28 s, and a ping comes every
  5 s.  Two show that they queue up.
* Buffer.  Empty messages, single bytes and longer ones, with enough messages for two
  cuts of different length and messages after each.
* `send_file`.  The sizes are the empty file, one short of a chunk, an exact multiple
  and a multiple with a remainder; four faults allow a crash on top of a forgotten
  id on top of a lost answer, twice in one upload; `MaxIds` is one more than the faults, so that
  a server never runs out of ids.  Two overlapping calls show every mix of two copies;
  three parts have a first, a middle and a last one; six ids are one for each call and each
  retry of it, and are never all handed out.
* Tasks.  Two callers suffice for every race on the pool pointer and on the state of a
  task, a pool of two for two jobs of one call at once, three names for the pool in use, the one that was
  replaced and the one that is waited on; a name is used again once nobody remembers its pool.  The
  fault is a failed job, a stop of the pool, a crash or a lost request.  The task for which callers
  overlap has no files: its callers create pools and wait for them, under the jobs of the other.  Jobs
  of one row that overlap are the subject of `sends`, and of the proofs, which set no bounds.
* Log cleaner.  Four files are one that is open, up to two that are old, so that one can be behind
  the one that fails, and one to rotate to.  That one is left to the record of the thread: the application
  does not rotate into it, and no error strikes between a record that has just taken it and
  the removal that frees the next (otherwise errors that come back would need ever more
  files).  The age is one day, the shortest `start_clean_routine` can ask for.  The sleep is as
  long as the day, in the code a sixth of it: that the order of the two does not matter is
  left to the proofs, which hold for any.  Ages are counted up to the first
  that is certainly old (age plus sleep), past which nothing changes.

Deadlock is checked in every run.  `Stopped`, `Finished` and `Over` are the places where
the system may rest: after `stop()`, once the row is not to be sent, after the process.  A caller
of `UploadTask` can always fetch a task again.

## 4. Fairness

`FairSpec` of the client is weakly fair for what `ioc_.run()` and the timeouts
guarantee: queued handlers run, timers expire, lookups, connects (30 s), the
websocket handshake, writes (2 s) and closing handshakes (2 s) end one way or the
other, time passes.  It says nothing of `OnReadOk`, `OnReadFailed`, `AppWrite`,
`ManagerGone` or `stop()`: nothing makes the peer speak or anyone stop the client.

`FairSpec` of `SendFile` is weakly fair for each group of steps the caller, the
request and the parts take when nothing fails; faults are not fair and are bounded.

`FairSpec` of `UploadTask` is weakly fair for each caller (a thread), for the pool and for
the second half of a stop, but not for a wait on a pool that is gone (`Strays`),
and strongly fair for fetching a task that waits: the application comes back to it
however busy its threads are with other tasks.  That is an assumption about code that
is not in the repository, and `WaitingIsUploaded` needs it; `CallReturns` does not.

`FairSpec` of `OverlappingSends` is weakly fair for the steps of each call, which includes
that the file is sent again while its row is not Completed; faults are bounded.

`FairSpec` of `LogCleaner` is weakly fair for the thread, for the second half of a start, and
for time.  Nothing makes the application log, start, stop or end.

## 5. What is proved

All proofs are for every value of the constants that satisfies the named
assumptions (`SchemeAssumption`, `TimingAssumption`, `BoundsAssumption` of the client;
`MessageAssumption` of the buffer; `SizeAssumption`, `ServerAssumption`, `LimitAssumption` of
`SendFile`; `PartsAssumption`, `BoundAssumption` of `OverlappingSends`; `CallerAssumption`,
`TasksAssumption`, `FilesAssumption`, `PoolAssumption` of `UploadTask`;
`FileAssumption`, `TimeAssumption` of `LogCleaner`): any periods, any
number of lookups, any messages, sizes, chunks, parts, ids and faults, any callers, calls,
tasks, files and pools, any ages.  In every module `Invariance` is `Spec => []IInv`, with
`IInv` a conjunction of named parts; the type invariant is the first of them.

Client (`WebSocketClientProofs`): `TypeCorrect`, `HeartbeatStays`,
`RecoveryStays`, `PingsApart`, `ConnectsAlternate`, `StormsEnd`, and `PromiseKept`, the
refinement of `ReconnectLoop`, for `ws://` and `wss://`.  They rest on `IInv`, which is inductive part by part (one lemma each,
one case per action):

* `HeartbeatAlive` and `RecoveryPending` are nearly inductive: the second needs that a
  `ws://` client never enters the TLS stage.
* `PingsApartUntilClose` is not.  It follows from `PingClock`: while a ping is
  outstanding, the heartbeat is at least the difference of the two times further away
  than the deadline of the ping, so that the deadline comes first.  This is where
  `WriteTimeout < HeartbeatPeriod` is used.
* `OneConnectPerLoss` follows from `ViewClock`: a Manager that believes the connection
  up is right, or the handler of an aborted operation is still queued; that needs
  `ReadsOpened`, for it is the read that is aborted.  `on_handshake` runs after that
  handler.
* The refinement needs `AttemptClock`: the reconnect timer was armed after the last
  lookup, for the full delay.
* `StormsEnd` says that handlers cannot keep each other going.  A failure aborts the wait of
  the heartbeat, whose handler calls `handle_error`, which closes and schedules again, and a new
  connect fails every operation of the old one: whether that comes to rest is not seen from one
  handler.  `Load` weighs what is to be handled by the handlers it can lead to: a lookup more
  than the connection it begins, a reconnection more than a lookup and the heartbeat it
  aborts.  Every handler but `on_read` of a message leaves less of it, that one not more, and it
  is a natural number (`LoadIsNat`), so that after finitely many handlers the loop is idle and
  waits for time or the peer.  A `handle_error` that scheduled the reconnection for at once
  would break it.

Buffer (`ReceiveBufferProofs`): `MessageIsHeard`, `StopIsHeeded`, `PrefixIsWhatWasCut`.  The
part of `IInv` that carries them is `BufferIsCutAndMessage`: the buffer is as many bytes as
were ever cut off and then what has arrived of the message.  Consuming the length of the
message keeps it, although it is not the message that is consumed.

Uploader (`SendFileProofs`): `TypeCorrect`, `RowOnlyMovesOn` and `LeaksBounded` for every
server; `Delivery`, `SavedBehindStored`, `FinallyComesLast` and `UploadKept`, the refinement of
`ResumableUpload`, under `RejectsWithZero`.
`CallInv` says what `send_file` knows by itself: `Copy` (memory and row agree, place by
place) and `ReadsWithin` (the FILE is never ahead of the part, so no read falls short).
`InPlace` says that the FILE and the part are at the same place unless the call has resumed.
`Answers` says what an answer tells of the server, "ok" that the part is there; it is
here that a refusal that passes as success breaks the proof, as it breaks the property
in the run `rejected_part`.  The lemma `ServerStep` says once what any step may do to
the server: bytes and marks are only added, and only for the part at hand.
`LeaksBounded` needs `LeakClock`: a fault either costs a handle or leaves a trace that says
it has not yet done so (`Credit`: a part that failed, an id that was forgotten), and no handle is
lost without using such a trace up.
`EveryStepCounts` is the half of `EventuallyDone` that needs no fairness.  `Work` measures what is
left until the row is Completed: the steps of the call (two for each byte at most, for
every part moves `offset`), and a whole call for each obstacle on the way, an answer that turns
it down (`TurnedDown`) or an id the server no longer knows (`Forgotten`).  It is a natural number,
every step of the uploader makes it smaller, also those that give up or start over, and a fault
adds `WholeCall` at most.  So a row with f faults ahead is Completed after a number of steps that is
bounded by its size and f; that these steps are taken is what fairness adds.  It is stated for
servers that refuse with 0 and say "not find file_id" where the code looks for it: a server that
words it otherwise is asked for ever.  Only `OpenFailed` is left out, a process without handles.

Overlapping calls (`OverlappingSendsProofs`): `SoundCallsDeliver`, `DoneMeansReceived`,
`MixNeedsOverlap`, and `SendsAreJobs`, the refinement of `UploadJob`, for any number of
calls.  `CopyInv` says of each call that read a sound row that the server has what its copy
claims: no other call can take that back, since `stored` only grows.  `AloneInv` says that
as long as no calls have overlapped there is one, and its copy is the row; a second
`Query` is what ends it.

Tasks (`UploadTaskProofs`): `TypeCorrect`, `JobsEndFirst`, `NoTaskLeft` and `EndsAreHeard` for
all callers; `ExtractedIsComplete`, `SentOnce` and `OneSenderEach` for the tasks in `Kept`.  Here
`IInv` adds `Apart` (one caller holds the task, and its copy is right until it marks
it) and `EndIsComplete` (a caller past its check has every file Completed).  The step
that needs care is a job that writes a row over while someone is past the check: if it runs in the
pool of the pointer then by `JobsWithinCall` its caller is still scanning or waiting, by `Apart` for another
task; if it runs in another one, its task is orphaned (`Placed`).  `Handing` says that a caller that waits
does so on the pool its jobs are in, as long as that is the pool of the pointer.  `JobsEndFirst` is therefore
about the jobs of that pool, stopped or not: of a replaced one it is false, which is the race of
lines 135 and 420.  Without `Exclusive` the claims about rows are false too: a copy that is
older than an upload starts the task again, and three callers of one task suffice to
extract it while the last job turns a Completed row back.
`OneSenderEach` (no two jobs of one file are queued or running) needs `OneJob`, for a caller makes
one job of a file: what it has still to scan has none.  `SentOnce` says that the task stays
extracted and that none of its Completed rows is turned back; the second is not inductive, for
`JobFails` may write any row over, and rests on `SendsAreNew`: a job of such a task is for a row
that is not Completed.  The scan tests that, and nobody else completes the row before the job ends.
`JobsKeptToSends` holds for all tasks: for each row the starts and ends of jobs are steps of
`UploadJob`, and every other step leaves the row alone.
`EndsAreHeard` counts: `LostClock` bounds by the faults the tasks ended unheard together with
those whose caller is about to end them (`Lost`), and one step adds one task at most.

From the task to the server (`TaskDelivery`).  By the lemmas `TaskHolds` and `SendsHold` each step of the
composition is one of `UploadTask` and one of `OverlappingSends`, or none, so that all theorems of both
hold in it.  Neither suffices alone: `UploadTask` does not know what a Completed row means to the server, and
`OverlappingSends` promises it only when no mixed row has been read.  `JobsAreCalls` is the link between
them: a call is on its way exactly while its job runs, by induction over the actions of both.
`CallsStayApart` closes the gap: as long as no pool was replaced under jobs of the task, a call
that begins while another is on its way would be a second running
job for the row, which `OneSenderEach` excludes, so calls never overlap, and by `MixNeedsOverlap`
no mixed row is read.  Then `ExtractedIsReceived`: the server has got every part of a file of a task that
waits for its frames, under one id.  The file is any file of any task in `Exclusive`
(`RowAssumption`), which is all that is assumed beyond the constants.  The server is the one of
`OverlappingSends`, which refuses with 0; what bytes the parts carry is not said there
(section 6, `resumed_bytes`).

Log cleaner (`LogCleanerProofs`): `RecordsAreKept`, `OneMoreScan`, `OnlyOldRemoved`, for an age
of a day or more.  The argument is about the open file: while no midnight has passed since
its last record it is younger than the day (`SinkInv`), so a file found too old is either not
the open one or will not be written to again (`OldInv`).  That the record "delete log:" comes
between the test and the removal is the case to look at.

Model-checked only: liveness (`NeverQuiet`, `QuietReconnect`, `TlsFailureReschedules`,
`EventuallyDone`, `StaysDone`, `WaitingIsUploaded`, `CallReturns`, `StopEnds`, `OldRemoved`),
which the prover cannot treat: it has no rules for fairness or `ENABLED`.  Of `EventuallyDone`
it proves the measure that falls (`Work`), of the client that its handlers come to rest (`Load`).

## 6. Where the code and its comments disagree

* **A reconnection can be pushed away for ever** (`reconnect_starves`).
  `handle_error` re-arms the one reconnect timer.  While the connection is down, the
  stream refuses the ping of every heartbeat, and `on_write` calls `handle_error`.  The
  heartbeat period equals the reconnect delay, 5 s, and the reconnect timer is armed
  microseconds after the heartbeat: in every round the heartbeat is due first, if both
  are taken at once the order of the two is a tie, and if the ping wins the client
  never tries again.  Without a Manager there are no pings, and it does
  (`QuietReconnect`).
* **A reconnection tears down a healthy connection** (`reconnect_of_open`).  Nothing
  cancels the timer when the connection comes up.  A connect that outlasts one
  heartbeat has its ping refused, which schedules a reconnection that fires after the
  connection has opened.
* **A resumed upload sends the wrong bytes** (`resumed_bytes`).  `offset` starts at
  `transferred_size` but the FILE, just opened, stands at 0; the sketch in
  `session_process` does seek.
* **A refused part counts as sent** (`rejected_part`).  `result`, a `bool`, receives
  an `int` code: anything but 0 passes, also the -1 that stands for an answer that is no
  JSON.  The error page of a proxy in front of the server has the part skipped and the file
  marked Completed without it.
* **A message is handed over behind an old fragment** (`stale_prefix`).  `on_read` logs
  "Received: " and passes on all of `buffer_`; the line that would clear it is commented out.
  A connection that breaks inside a message leaves its first bytes there, and every message of
  the later connections is handed over with that many bytes in front.

What no comment speaks about, but a reader may want to know:

* Each failed meta request leaves the FILE open (lines 253 and 257); `LeaksAreFaults` bounds
  the handles by the faults, and `EventuallyDone` holds only while faults are fewer than
  handles.
* An upload-end that is lost counts as sent, and is never sent again; `UnheardIsFault` bounds
  such tasks by the faults.  One that is sent before the first caller has set `request_url` (line 141),
  with every file Completed by an earlier process, goes to no url at all, and is counted with
  those that were answered (`ended`).
* A crash while a task is in File_Transfering leaves it there for ever: line 379 only takes
  tasks that wait.  `TransferHasCaller` and `WaitingIsUploaded` name the exception (`crashed`).
* A pool that is replaced, by a caller that saw no pool before another created one, leaves its jobs running
  while their caller waits on the new pool: they may outlive the `task_id` they refer to, and the task may be
  extracted, or uploaded again, beside them (section 2, `UploadTask`).
* Behind a close that waits for the peer or for the read, which may take up to 28 s, the pings of every
  5 s queue up in the stream: `write` starts one `async_write` after another
  (`PingsApartUntilClose` holds until then).
* After a TLS failure the client reconnects only if the reconnection that its next heartbeat schedules
  takes place (`TlsFailureReschedules` says it is scheduled; `reconnect_starves`, that it need not come).
* Overlapping calls for one file can mark it Completed without all its parts having arrived, by
  way of a mixed row (section 2, `OverlappingSends`).
* Without an earlier exit of the process, a second `start_clean_routine` and a return of `main`
  after a first one end in `std::terminate`, since nothing joins the thread.

## 7. What is not modelled

* The two error branches of the client's constructor (they call `shared_from_this()`
  before an owner exists and throw), and what the Manager answers for a ping.
* The contents of frames but for their order in the buffer, headers, and the texts of errors
  (`Manager::to_string` is a constant table).
* The HTTP client, the database and `util::thread_pool`, which are not in the repository.
  A file without a row in the database is skipped, and a row without a file keeps its task
  from ever being complete; both are left out of `Files`.
* Two threads that are inside the same timer, stream or `shared_ptr` at the same moment, which is a data
  race; the order in which such calls take effect is modelled.
* A read of `request_url` in the middle of its assignment, which no lock prevents: it is set or
  not.
* `init` of the log beyond the file sink: the filter is the variable `info`; the folder that
  cannot be created throws in a `noexcept` function, before anything else runs.
* `session_process` (`sender.cpp` 14-115), a sketch that is not part of the program: its helpers
  are stubs, `need_transfer` returns false, so its loop is never entered, and its `fseek` is
  called with two arguments.
* `http-utils.*`: functions without state that nothing in the repository calls.  They copy
  fields and concatenate strings; there is no case to check beyond reading them.
* `root_certificates.hpp` and the build.  The certificates alone are almost four fifths of the lines
  of `src/`: of the other lines the modules map about three fifths, the rest being includes,
  declarations, logging, comments (`upload_directory` is one of sixty lines) and the parts
  named here.

## 8. Plan

Done, in this order: the client and `ReconnectLoop`; `send_file`; the task; the answers of
the server and `ResumableUpload`; the receive buffer; overlapping calls and `UploadJob`; the log
cleaner; the proofs of each; the composition of the task with the calls it makes.  Left, in the order of what they would add:

1. A measure like `Work` for the rounds of the cleaner, under which `OldRemoved` is a matter of
   fairness alone, and for the calls of a task, as far as other callers leave room for one.
2. `stop()` followed by a new client in the same process, once there is code that does it.
3. A client whose ping has contents, once a Manager has any: the text must outlive the write.
