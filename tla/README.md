# DataService: a TLA+ model

This directory holds TLA+ modules that model the core of DataService, the
server of a traffic police system, and of DataTransfer, the program that
forwards its violation records; TLC configurations that check them on small
instances; and theorems about them that TLAPS proves for every instance.
Paths below are relative to `src/trunk/plugin/`.

## The system

Phones and a web front end send XML requests over SOAP. `DataService` accepts
the connections, hands them to a pool of threads, and each thread passes the
request to a plugin, a DLL `xxplug_recive_*` chosen by the request's type. The
plugins keep the data in MySQL; a few run threads of their own that talk to
other servers. `DataTransfer` is a separate program that reads the same
database.

| component | state it keeps | operations | interacts with |
|---|---|---|---|
| request queue and thread pool, `DataService/src/epolice_auto_check.cpp` | ring `queue[1000]`, `head`, `tail`, `queue_cs`, `queue_cv`, 30 threads with a soap context each | accept, `enqueue`, `dequeue`, `soap_serve`, shutdown with pills and joins | clients; the dispatch |
| plugin dispatch, `plug_ctrl/c_plug_ctrl.cpp`, `lib/xxlib/include/dbmepolice.h` | map of types to DLLs, a mutex per DLL; per plugin one MySQL connection and the globals `username`, `gresXML` | `proc_info`, `rcv_prc_info`, `CheckUsername`, `xx_sql_query` with its retry | pool threads; MySQL; gSOAP, which reads the response after the mutex is released |
| DataTransfer, `DataTransfer/src/main.cpp`, `ftp_client.cpp`, `ftplib.cpp` | `g_ftpCon`, `g_tcpCon`, the batch, column `upload` | select a batch, put pictures, send XML, mark | the table the plugins write; an FTP server; the centre |
| Call | `cmdList`, `clientCount`, `sAccept` | `CallStart`, `CallStop`; threads `mainThread`, `SelectProc` | web requests; one call client |
| FProcess | tables of document numbers (`isuse`), documents, `disposetype` | `getticketid`, `cancleticketid`, `getIDLeaveLine`, `putResult`, `AddNumber`, queries | UpdateVioData's records and blacklist |
| UpdateVioData | violation records (`affirm`, `download`), blacklist (`altertype`, `TIMESTAMP`) | insert, affirm, pack, blacklist synchronisation; `DataDelThread`, `packDataThread` | phones; DataTransfer; FProcess; webhander |
| webhander | documents, `disposetype` | `InsertResultDataIntoSQL`, queries | as FProcess |
| ReviceMessage | `online`, `onlineTime`, messages | `mOn_Message` (heartbeats), `InfoSend`; `OnlineThread` | MQTT |
| login, user, device, usergroup | `userlogintag`, users, devices with `bind`, groups | log in, add, delete, update | every plugin's `CheckUsername` |
| GPS | `upflag`, socket to a server | insert points; `DataSendThread` | a GPS server |
| SearchInfo with `lib/WebSearch` | search servers with `beused`, `devid`, `timestamp` | get, search, cancel; `netThread` | search servers |
| Register | registration codes (`isuse`, `isend`, `CPUID`) | register, create codes | phones |
| SpecialVio | examinations, `picnum`, `sendflag` | insert, examine, publish | MQTT |
| Video | `svrList` of proxy processes | login, start, stop | proxies |
| authority, Intercept, ViewScene, Law, AddressBook, ledger, check | their tables | one or a few statements per request | MySQL |

The rest is third party or generated: the gSOAP runtime and its generated
sources, the MySQL, TinyXML and libjpeg headers, BasicExcel, MD5, AES and the
character set conversions.

What is hard: 30 threads over one ring; plugin globals that are safe only under
a mutex, and a response read after it; an unbounded retry under a mutex;
plugin threads that share globals and connections without any lock; marks in
the database set before or after the work they stand for; and no transaction
anywhere, so a statement that fails leaves the ones before it in place.
`PROJECT.json` lists these under "hazards", each at its line.

What makes each component correct, and where it is stated:

- request queue: no request is lost or served twice, no thread sleeps beside a
  job, every accepted request is taken as long as one thread comes back from its
  clients, shutdown drains, and completes if all do (RequestQueue);
- dispatch: a write is made for the user who sent the request, a request that
  is answered with "failed" has changed nothing, a response is never an older
  one, an outage or an exception leaves no mutex behind (PluginDispatch);
- DataTransfer: `upload = 1` means sent, nothing is sent twice but after a lost
  mark, no record is left behind (UploadLoop);
- Call: one client thread at a time, commands in order, ended threads, a count
  that returns to zero, which it does not (CallRelay);
- document numbers: a number is given to two phones, offered again while it is
  in use, or withdrawn for nothing only after one of the named mishaps
  (TicketNumbers);
- blacklist: a phone that has walked past a timestamp has the rows of it, unless
  a row got a timestamp that was not a new one, or the phone was sent past it by
  the answer of a failed SELECT or of another phone (Blacklist);
- records and packages: a record marked downloaded is in a package, in one only,
  and in one its requester may see, with named exceptions (VioPacking);
- search servers: a device's server is in use, is taken back if the
  probes come back, and not too early; no device has two (WebLease);
- users online: a user is taken offline after silence only, a silent one is, and
  what the log of connections says last of a user is true, or will be
  (OnlineStatus);
- positions: `upflag` counts how often a point was sent (GpsForwarder).

## Modules

| module | models | run |
|---|---|---|
| `BoundedFifo` | what the request queue promises | (by refinement) |
| `Outbox` | what a sender with a column of marks promises | (by refinement) |
| `RequestQueue` | accept loop, ring, pool, shutdown | `request_queue` |
| `RequestQueueProofs` | theorems about RequestQueue | |
| `PluginDispatch` | a request's way through a plugin | `plugin_dispatch` |
| `PluginDispatchProofs` | theorems about PluginDispatch | |
| `UploadLoop` | DataTransfer | `upload_loop`, `upload_pictures` |
| `GpsForwarder` | DataSendThread of GPS | `gps_forward` |
| `DeliveryProofs` | theorems about UploadLoop and GpsForwarder | |
| `CallRelay` | the Call plugin | `call_relay`, `call_count` |
| `TicketNumbers` | numbers and documents of FProcess | `ticket_numbers` |
| `TicketNumbersProofs` | theorems about TicketNumbers | |
| `Blacklist` | the blacklist of UpdateVioData, DataDelThread, the phones' copies | `blacklist_sync` |
| `BlacklistProofs` | theorems about Blacklist | |
| `VioPacking` | violation records and packDataThread | `vio_packing` |
| `VioPackingProofs` | theorems about VioPacking | |
| `WebLease` | the search servers' leases of `lib/WebSearch` | `web_lease` |
| `OneClientProofs` | theorems about CallRelay and WebLease | |
| `OnlineStatus` | heartbeats and OnlineThread of ReviceMessage | `online_status` |
| `OnlineStatusProofs` | theorems about OnlineStatus | |

The modules `MC*` give the constants small values. Next to an action there may
be a variant marked "(Wrong: ...)": it is no part of a specification, and the
mutants of `PROJECT.json` put it in the action's place to see that a property
notices. Variables marked "history" are no state of the program: a property
needs them to say with which exceptions it holds.

DeliveryProofs and OneClientProofs each extend two specifications, which is why
the names of one of the two carry a prefix (`GpsInit`, `CallNext`): UploadLoop
and GpsForwarder send rows of a table and mark them, CallRelay and WebLease give
something to one client at a time.

PluginDispatch shows that the handlers of a plugin run one at a time. The
modules of the plugins build on it: a handler is one action where nothing runs
beside it, and a step per statement where a thread of the plugin does.

### RequestQueue

`queue`, `head` and `tail` are the code's. `apc`, `pending`, `pills` and
`joined` are where `main()` is in lines 362-395 and its `s` and `i`; `wpc` and
`sock` are where a thread is in `process_queue` and its `soap->socket`. A
critical section of `queue_cs` is one action, since nothing outside of it
touches the ring: `EnqueueRequest`, `EnqueuePill` and `EnqueueFull` are the
three outcomes of `enqueue()`, each with its signal (the code signals in a full
ring too); `Wait`, `SpuriousWakeUp` and `Dequeue` are the loop of `dequeue()`.
A woken thread is back before the test `head == tail` and competes for the
mutex with the others. A client's IP travels with its socket and is left out.

### PluginDispatch

A thread goes through receive, lock, check, handle, respond, unlock, send.
`username` and `gresXML` are the plugin's globals, assigned while the mutex is
held; `res` is where the request's `*res` points. `Send` reads through it after
`Unlock`: if another request has assigned `gresXML` by then, the bytes may be
the old ones, the new ones or freed memory, and `Seen` is the set of these.
`Retry` is the loop of `xx_sql_query`, `CheckFails` and `HandleFails` are errors
other than "gone away", `Throw` is an exception caught in `rcv_prc_info`. The
handler is one statement, whose effect is recorded in `wrote`; handlers return
0 to 3 and never -1, so only the check and an unknown type give "failed". The
plugins user and usergroup, which let one built-in login tag pass without
looking it up, are outside of this module. A plugin's type is fixed at start.

### UploadLoop

`vioList`, `i` and `j` are the loop's; `upload`, `affirmed` and `disposed` are
columns of the table, the last two written by plugins. The pictures on the FTP
server and the number of times a record's XML was handed to TCP are history.
`ImgPath` says what the code's `img_path[i]` is for the values that `i` really
has: a picture, an empty string, or, past both arrays of the record, the vioid.
`Fault` counts what may go wrong: a connection lost, a put refused or failed, a
failed UPDATE, a crash.

### CallRelay

`clientCount++` and `clientCount--` are a read and a write each; `Copy` reads
mainThread's variable whenever the new thread gets to run, when the next accept
may have assigned it, or mainThread may be gone. `cmdList` is walked one command
per step. Where `push_back` moves the vector under SelectProc's iterator, the
behaviour is undefined and the model lets the process end. A send to a client
that has hung up may fail or, before TCP knows, succeed (`SendUnheard`).
mainThread's listen socket and the client's heartbeats do not influence the
properties.

### TicketNumbers

One instance is one of the three tables of numbers; the branches of the code's
`switch` differ in the table's name, and `Usetype` says whether putResult also
marks the violation record (0 and 3). The handlers have the code's names. Each
is one action, because it runs under the plugin's mutex and no other program
uses these tables; inside it, the statements of which the code ignores the
result may take effect or not. `table[n]` counts the rows of number `n` with
`isuse` 0 and 1: there is no schema in the repository, so `number` may or may
not be a key, and a duplicate that a key refuses is an INSERT that fails. For
the same reason the SELECT in AddNumber, which may fail too, excludes nothing.
`getticketid` and `getIDLeaveLine` are `Take` with limits 1 and 100; the column
`user`, which nothing reads, is left out. `ReceiveOther` is what PluginDispatch
shows can happen to an answer: `ReplyNotOlder` allows a later response of the
same plugin. It can happen to putResult's answer too: a phone whose INSERT
failed may read another handler's success and give its number up (`told`
without `saved`), and the number is then used and nobody's (`lost`). What a
phone does is external: it uses or gives back numbers that it was answered, and
may repeat a cancel. `lost` and `doubt` are history: which numbers met a mishap.
putResult disposes of the record whether or not its INSERT succeeded; its UPDATE
of the blacklist is malformed, always fails, and changes nothing.

### Blacklist

`altertype` and `timestamp` are columns; `op` and `stamp` are the handler that
is between its SELECT of MAX and its write, which DataDelThread may get into.
The five handlers differ in what they take when the SELECT fails (0, or an
uninitialised int: `Garbage`), in whether they take MAX or MAX + 1, and in the
write. `BlackIsUpdate` assigns the static variable `new_timestamp`, which
`GetBlackCount` answers to whichever phone asks. A SELECT that fails is answered
all the same, with count 0 or with no rows and the next timestamp
(`GetBlackCountFails`, `GetBlackFails`), and a phone may read another phone's
answer, by what PluginDispatch shows (`ReadsOtherUpdate`, `ReadsOtherCount`,
`ReadsOtherBlack`); `misled` is history, the timestamps phones pass that way. An
answer of a handler that is no step of the walk is one a phone cannot use
(`GiveUp`). MAX of an empty table is NULL
and `atoi(NULL)` ends the process, so only `InsertBlack`, which orders instead,
adds the first row; every end of the process is `Restart`. A phone is external:
the protocol gives it a timestamp, a count and a timestamp to stop at, and it
is taken to follow them. What the row says of the vehicle is left out, and so is
which rows are out of date.

### VioPacking

A package is a thread with the positions names, select, mark, zip. `names` is
what `GetNameList` found, for the `username` of that moment; the conditions of
the request are `fresh` (download = 0 only) and otherwise a subset that `Select`
chooses, which also stands for queries that fail. The count in packAffirmData
has fewer conditions than the thread's SELECT, so the thread may find nothing,
and then its UPDATE marks everything. `SelectGarbled` is a handler's `itoaa` in
the middle of the condition on download. Pictures, spreadsheet and zip are
`file`.

### WebLease

`beused`, `netstation`, `devid` are the server's; `timestamp` is `stale` or not.
The writes of `beused` and of `devid` are steps of their own in calls and in
netThread, since nothing keeps the other out: `Locked` is `tlock`, which covers
the timestamp's test and the two writes after it, and which the calls take only
to write the timestamp. getCarInfo and cancelSearch free a server with the same
two writes (`Release`, `Erase`). Of the library's getCarInfo the plugin has a
stub only. A probe has no timeout: `Online` and `Offline` are its two ends, and
it may have none. The soap context that both threads use is not modelled.

### OnlineStatus

A step is a statement. `age` is the time since the column `onlineTime` in ticks;
`list` is OnlineList with the same unit, less the users the pass has come to:
`PassOver` and `SetOffline` take one each, and who becomes due behind them waits
for the next pass. `last` is a user's last entry in the log of connections, Drop
Line also if there is none; `LoginFails` is the other writer, the plugin of the
login, which logs a login without the right password under the plain name.
`Restart` and `SpecialVioLoaded` are the two places that set everybody offline
without an entry in the log. The callback uses the connection that OnlineThread
opens, so that a heartbeat that comes first ends the process. `SetOnlineGarbled`
has the outcomes of reading `itoaa`'s buffer while a handler writes it: another
time, or a statement cut before its WHERE.

### GpsForwarder

Points are numbered by their datetime, `old` of them are out of the half hour
(`gpc`, `sends` and `gpsTable` are `pc`, `sent` and `table` of UploadLoop);
`since` is the thread's `ltime`, computed before a connection that may take any
time. A pass sends in order until a send fails, then marks what was sent, each
with its own UPDATE. `link` says whether send() may still succeed; a point that
TCP took for a peer that is gone counts as sent, as it does in the code. The
SELECT joins the registered devices, so it may leave any points out.

## Runs

| run | bounds | what it shows |
|---|---|---|
| `request_queue` | 3 threads, ring of 3 slots, 4 connections | types, `NoLostWakeup`, `ExactlyOnePlace`, `ShutdownDrains`, refinement of `BoundedFifo`, `EveryRequestTaken`, `ShutdownCompletes` |
| `plugin_dispatch` | 3 threads, a plugin, 4 requests | types, `WritesAsRequester`, `FailedMeansNoChange`, `ReplyNotOlder`, `EveryAnswerReady` |
| `upload_loop` | 7 records, batches of 6, arrays of 3, 2 faults | types, `UploadedMeansSent`, `ResentOnlyAfterLapse`, refinement of `Outbox`, `EveryRecordSettled` |
| `upload_pictures` | the same, no fault | finding: `UploadedMeansPicturesPut` fails |
| `call_relay` | 3 clients, 2 commands | types, `OneClientRuns`, `CommandsInOrder`, `HangUpIsNoticed` |
| `call_count` | 3 clients, no command | finding: `CountReturnsToZero` fails |
| `ticket_numbers` | 2 phones, 2 numbers with up to 2 rows each, LIMIT 2, a record | types, `GivenTwiceOnlyInDoubt`, `UsedIsAccountedFor` |
| `blacklist_sync` | 2 rows, 2 phones, timestamps to 3, swept to 2, batches of 1, one mishap | types, `PastMeansHeld` |
| `vio_packing` | 2 records, 2 packages, 2 users of whom one sees the first record | `DownloadedIsPacked`, `PackedTwiceOnlyBeside`, `PackedForRequester` |
| `web_lease` | 2 servers, 3 devices | types, `HeldMeansUsed`, `OnlyStaleTaken`, `SilentFreed` |
| `online_status` | 2 users, due one tick after a heartbeat | `LogTellsOnline`, `OfflineMeansSilent`, `SilentGoesOffline` |
| `gps_forward` | 3 points, each sent at most twice | types, `UpflagCountsSends`, refinement of `Outbox` |

Why the bounds are enough. In `request_queue` the ring (2 usable slots) wraps
and fills, all threads may be waiting or all busy, and the three pills do not
fit at once; a fourth connection waits when three clients hold the threads. So
every branch of `enqueue` and `dequeue` meets every phase; more threads or slots
add no new case, and all but the liveness properties are proved for all sizes.
In `plugin_dispatch` three threads make one hold the mutex, one wait for it and
one send; plugins share nothing, so one suffices; the requests are of two users,
of a client who is not logged in, and for an unknown type. `upload_loop` keeps
the proportion of the code's 5 paths and 10 rows: the last row of a full batch
is past both arrays; one record's picnum is more than it has paths; two faults
let one fall on the recovery from the other. `call_relay` needs one client whose
thread starts, one that is accepted meanwhile, and one later. In
`ticket_numbers` a number can be with one phone while the other takes, cancels
or files the second; the LIMIT is below the 4 rows. Its CONSTRAINT stops at
states where both numbers are in doubt, where the properties say little. The
safety properties of `upload_loop`, `call_relay` and `ticket_numbers` are proved
for every size.

In `blacklist_sync` the timestamp DataDelThread sets is below, at and above the
ones that are given, two handlers' rows can share one, a batch is full with one
row, and one phone can be ahead of the other, which reads `new_timestamp` in
between; one of its walks meets a failed SELECT or the other's answer. In
`vio_packing` a package can select while the other is at each of its positions,
see more or fewer records, or none. In both the CONSTRAINT `Telling` leaves out
states in which two kinds of mishap have happened or no row is accounted for any
more: there the properties excuse everything, and one mishap reaches every step.
`web_lease` has a device without a server beside two with one, and a server
whose device changes under netThread's feet. `online_status` has a user whom
thread and callback meet beside one who is only affected by a statement that is
cut; a limit of one tick makes a heartbeat in time and one too late differ. In
`gps_forward` a pass can fail after none, one or two of three points, and a
point can be sent again after a lost mark. The safety properties of these runs
are proved for every size.

Deadlock is checked in `request_queue` and `plugin_dispatch`. In `call_relay`
and `call_count` the system may really stop: mainThread quits when accept fails,
and the process may end. `ticket_numbers`, `blacklist_sync`, `vio_packing`,
`online_status` and `gps_forward` check no deadlock: phones may stop asking,
packages and points are used up. `web_lease` does.

### Fairness

The operating system runs each thread, so the steps that it can take by itself
are weakly fair. What waits for a client, a server or the database is not: no
soap context of this code has a timeout (`soap_init` leaves `recv_timeout` and
`send_timeout` at 0), and `xx_sql_query` repeats for as long as the database is
away. Faults, timeouts and exceptions are never forced either.

- RequestQueue: main() and `Dequeue` are fair, `Serve` is not. The liveness
  properties say what they need instead: `EveryRequestTaken` one thread that
  comes back again and again, `ShutdownCompletes` all of them, since main() joins
  all. TLC finds both false without their conditions.
- PluginDispatch: lock, check, response, unlock and the retry are fair; `Receive`,
  `Send` and `Handle` are not. `EveryAnswerReady` has two conditions, that the
  database stays up from some point on and that the handlers of the plugin
  return (those of SearchInfo wait for a server under the mutex).
- UploadLoop: `Work`, whose connection loops succeed in the end.
- CallRelay: mainThread and SelectProc are weakly fair. `Ends` for a dead
  connection is strongly fair, because select() reports such a socket at once
  and recv() returns 0 or fails, whatever commands come in between.
- WebLease: `Own`, what netThread does between two probes; there it waits for
  `tlock` only, which nobody keeps. `SilentFreed` has the return of the probes as
  its condition; one probe that hangs ends it for all servers.
- OnlineStatus: time passes and OnlineThread is weakly fair; its SELECT and its
  UPDATE are strongly fair, since the thread comes back to them every 30 seconds
  and a database that fails every time would be an outage, which PluginDispatch
  covers. The failures themselves may go on for ever beside them.

### Findings

- `upload_pictures`: DataTransfer/src/main.cpp:282 uses `i`, the record
  counter, where `j`, the picture counter, is meant. The first record puts its
  second picture as often as it has pictures; most others put nothing; the last
  of a full batch is given up. All the others are marked `upload = 1`.
- `call_count`: xxplug_recive_Call.cpp:137 and 226 change `clientCount` without a
  lock. After a client that hangs up quickly the count can stay 1 or -1, and
  line 213 then refuses every client.

## Proofs

`RequestQueueProofs` proves, for every `MAX_THR > 0`, `MAX_QUEUE > 1` and set of
connections (the assumptions named in RequestQueue):

- `TypeCorrect`: `Spec => []TypeOK`;
- `NoWakeupIsLost`: `Spec => []NoLostWakeup`;
- `RingIsFifo`: `Spec => FifoSpec`, the ring implements `BoundedFifo`;
- `NoneLostNoneTwice`: `Spec => []ExactlyOnePlace`;
- `ShutdownIsClean`: `Spec => []ShutdownDrains`.

`TypeOK` is not inductive: a pill count bounded by the pool needs to know that
`main()` leaves the loop in time, and a thread serves a connection only because
what lies between `head` and `tail` is a job. `IInv == TypeOK /\ InPhase` adds
this. `NoLostWakeup` is inductive
relative to `IInv`: a signal moves one thread from waiting to competing for
each job that is added, and a thread that takes a job, or finds none, leaves
the inequality true. The lemmas about `Count` and `Contents` under a store and a
take carry the modular arithmetic; the refinement rests on them and on the
same invariant.

`NoneLostNoneTwice` counts: a store adds one slot with the connection in
main()'s hand, a take shifts the others by one (`ShiftCardinality`) and moves
the first to a thread. It needs `HandInHand`: main() has nothing in its hand when
it accepts. For `ShutdownIsClean` the strengthening is `Shutdown` (once a pill is
out main() has pills only to hand over, joins after the last of them, and the
threads it has joined ended on a pill), `PillsCounted` (every pill is in the ring
or has ended a thread) and `PillsLast` (behind a pill there are pills only,
and a thread that has ended found nothing else). When `main()` has joined all
threads, the count leaves no pill and no request in the ring, and then
`ExactlyOnePlace` leaves no place for an accepted connection but `served`.

`PluginDispatchProofs` proves, for every set of threads, plugins, users and
requests:

- `TypeCorrect` and `PluginToItself`: `Spec => []TypeOK` and `Spec => []InPhase`;
- `WritesForTheRequester`: `Spec => []WritesAsRequester`;
- `FailedChangesNothing`: `Spec => []FailedMeansNoChange`;
- `RepliesNotOlder`: `Spec => []ReplyNotOlder`.

The assumptions say that `None` is nothing else and that a request is none of
the fixed texts. `IInv == TypeOK /\ InPhase` is inductive:
a thread inside a plugin holds its mutex, hence `username`
is still the one it checked; a thread whose `*res` points to `gresXML` has
responded, and `gresXML` is the last response; a request is with one thread and
unanswered. `WritesAsRequester` is inductive relative to it. For
`FailedMeansNoChange` the strengthening `Untouched` adds the requests that are
not yet answered: one before its statement, one that will be answered "failed"
and one that no thread has taken have changed nothing. For `ReplyNotOlder` the
strengthening `ReplyOrder` adds that only a loaded plugin responds; what `Send`
finds is the last response, and the request's own is somewhere before it.

`TicketNumbersProofs` proves, for every set of phones, numbers and records and
every `LIMIT` and `MaxRows`:

- `TypeCorrect`: `Spec => []TypeOK`;
- `NumbersAreApart`: `Spec => []GivenTwiceOnlyInDoubt`;
- `ClaimedNumbersAreKept`: `Spec => []ClaimedIsNotFree`;
- `NoNumberIsWasted`: `Spec => []UsedIsAccountedFor`.

The second and the third are inductive only together, and with `ClaimedOnce`:
a number that is free and claimed could be selected for a second phone, and a
phone that has a number twice, in hand and in a document, frees a used one by
giving it back. The lemmas on `Update` and on an INSERT say what a statement
does to the free and the used numbers; after that each action's step is about
sets of claims. `NoNumberIsWasted` is inductive relative to this invariant and
to `Idle`, by which an answer that is assigned replaces none.

`ClaimedNumbersAreKept` (a number in a phone's hands or under a document is not
on offer) is what keeps `NumbersAreApart`; no run checks it by itself.

`BlacklistProofs` proves, for all rows, phones, batch sizes and timestamps with
`SweptTime > 0`: `TypeCorrect` and `NothingMissed`, `Spec => []PastMeansHeld`.
The inductive invariant adds `Reached` (a phone is past the highest timestamp that
was given only where it was misled), so that a new timestamp is ahead of every
phone that was not sent past it; `Fresh`, a phone that has passed a row which is
not behind holds it, where it was not misled; `Counted`, the rows
that a phone is about to take are no more than it was told, because rows join a
timestamp below the highest only as rows that are behind; and `NewStamps`,
without a cause MAX is the highest timestamp and nothing is behind. `Room` bounds
a checkpoint's timestamp. The lemmas say what a write, a read and each of the
phone's calls do to these.

`VioPackingProofs` proves, for all records, packages, users and groups:
`TypeCorrect`, `MarkedIsPacked`, `PackedOnce` and `PackedForItsUser`. They are
inductive together with what a thread has at each position: nothing before its
SELECT (`Early`), marked records behind its UPDATE (`Marked`), the names of the
requester's group between GetNameList and SELECT (`Requester`).

`OneClientProofs` proves, for all clients and any number of commands, about
CallRelay:

- `CallTypeCorrect`: `CallSpec => []CallTypeOK`;
- `OneThread`: `CallSpec => []OneClientRuns`;
- `EachCommandOnce`: `CallSpec => []CommandsInOrder`.

`OneClientRuns` is not inductive: it depends on what `clientCount` is while one
of its two unlocked changes is under way. `Counted` says it for each position:
whenever a thread runs and mainThread is not between creating it and counting
it, the count is 1; in between it is 0, or -1 if the thread is already gone; and
a stale value that mainThread or the thread has read can only be 0 beside a
thread that runs. The count may be wrong for good when no thread runs, which is
the finding `call_count`, but never so that a second client is let in.
`CommandsInOrder` needs `Listed` (cmdList is in the order of pushing),
`Connected` (a client that received something and is still there is the running
thread's, so a new thread starts with a client that has received nothing) and
`Ahead` (what the client received comes before what the walk has left). All of
these need that there is one thread: a second one would walk the same list.

About WebLease it proves, for all servers and devices: `TypeCorrect`,
`LeaseIsInUse`, `OneLeaseEach` and `TakenAfterSilence`. `HeldMeansUsed` needs
`NoneYet`: a device that getFreeServer is about to name has no server yet, and
only its own call could give it one. `TakenAfterSilence` needs `TakesStale`: the
lock keeps the calls from writing the timestamp between test and take.

`OnlineStatusProofs` proves, for all users and limits: `TypeCorrect`,
`LogAgrees` and `DroppedAfterSilence`. `Settled` says what is true of a user at
each statement of callback and thread that has him in hand; `FreshList` that an
entry of OnlineList is as old as the column until a heartbeat changes it. Both
hold whatever failed logins are logged between: after one, the last entry says
nothing until the next drop, or until a heartbeat of a user who is offline.

`DeliveryProofs` proves, for all numbers of records and faults, every `LIMIT`,
`NSLOT` and picnum of the records (a phone may give any), about UploadLoop:

- `UploadTypeCorrect`: `Spec => []TypeOK`;
- `MarkedAfterSending`: `Spec => []UploadedMeansSent`;
- `LapsesBoundResends`: `Spec => []ResentOnlyAfterLapse`;
- `MarkedIsLeftAlone`: `Spec => MarkIsFinal`, a record once marked keeps its mark
  and is not sent again, an action property that is stated beside the theorem;
- `UploadIsOutbox`: `Spec => UploadOutbox`, the loop implements `Outbox`.

`InBatch` makes them inductive: `i` and what is left of the batch add up to no
more than `LIMIT + 1`, the records of the batch are unmarked although they were
selected earlier, and the one at `mark1` was sent. `LapsesPay` bounds the further
sendings together with the records that were sent and lost their mark
(`Unmarked`), which is what a lapse leaves and what the next sending of that
record uses up. `BatchSize` (a SELECT has LIMIT rows at most) takes the last row
of the batch and counts those before it.

About GpsForwarder it proves, for all numbers of points, `GpsTypeCorrect`,
`SentOncePerMark` and `ForwarderIsOutbox` (`GpsSpec => GpsOutbox`). `Pass` says
that the rows still to be sent are neither marked nor in idList, and that idList
outlives no pass.

An `Outbox` row waits, is sent and not yet marked, or is marked. In the upload
loop marked is `upload # 0` and the only row that is sent and not yet marked is
`Current` at `mark1`; in DataSendThread marked is `upflag = 1` and all of
`idList` is sent and not yet marked, since it marks after the last row of a pass.
Each step changes the place of one row, or, where a process ends or a pass is
given up, takes the rows in hand back to waiting. What the refinement adds to the
counts is which row: a row goes out again only when its own mark was lost, not
that of another, and never while it is marked.

Every safety property that a passing run checks is the property of a theorem.
The type invariants of VioPacking and OnlineStatus are only proved: no run repeats
them.
Left to TLC is liveness (`EveryRequestTaken`, `ShutdownCompletes`,
`EveryAnswerReady`, `EveryRecordSettled`, `HangUpIsNoticed`, `SilentFreed`,
`SilentGoesOffline`): the prover has no rule for `ENABLED` and fairness here. The
two findings are counterexamples, for which a theorem could say nothing.

## Not modelled

By bytes most of the repository is third party, generated or vendored three
times over: gSOAP's runtime and generated sources, the MySQL, TinyXML and libjpeg
headers, BasicExcel. Of the rest most lines build SQL and XML text. Left out are:

- plugins that are one or a few statements per request under their mutex, with
  no thread of their own and no state but the table: login (but for its entries in
  the log of connections, which OnlineStatus has), user, device,
  usergroup, authority, Register, Intercept, ViewScene, Law, AddressBook, ledger,
  check, webhander's queries, and the handlers of SpecialVio. Their correctness
  is that of their SQL text, and PluginDispatch has what they share. A sequence
  of statements that fails half way (user.cpp:200, authority.cpp:286) leaves the
  first ones in place: a model would restate it.
- other such places that a reader of the code should know: a forced
  registration ends the last live code only (Register.cpp:158); webSendResult
  publishes a result whether or not its UPDATE succeeded (SpecialVio.cpp:558);
  a device is deleted by one plugin while another binds it (device.cpp:174);
  DataSendThread starts before the server's address is read
  (xxplug_recive_GPS.cpp:219).
- Video, whose list of proxies is changed under the mutex only and whose
  proxies are processes of their own.
- Details that two models merge: VioPacking's `Select` is one step where the
  code has a SELECT per name, and its folders, which the code names by the
  millisecond, are apart; GpsForwarder's rows are a set, where the join with the
  devices could return a point twice if two devices had one id.
- Two threads on one MySQL connection or one soap context: undefined behaviour
  of libraries. The models have what a failed statement does, and the end of the
  process, but no results that reach the wrong reader.
- XML, encodings, encryption, spreadsheets and zip files: data conversion.

## What could follow

`UploadLoop` and `VioPacking` change different columns of one table, and
`affirmVioData` of VioPacking is also a step of Blacklist; a module that composes
them would say that a record that is affirmed reaches the centre, a package and
the phones, as far as the exceptions of each allow.
