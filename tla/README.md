# RemoraSFTP: models, checks and proofs

RemoraSFTP is an SFTP and FTP client: one Go engine with a session manager, a
transfer queue and a local HTTP server, driven by a web page, a terminal
interface or a command line. This directory holds TLA+ models of the parts of
the engine in which goroutines, remote failures and retries meet, the TLC
configurations that check them on small instances, and theorems about them that
TLAPS checks for every value of the constants.

Paths below are relative to the repository; `transfers.go` means
`internal/transfers/transfers.go`, and so on. `PROJECT.json` maps every
definition to the lines it models and lists the components, runs, mutants,
findings, hazards and theorems.

## 1. The system

| Component | State | Operations | Promise | Module |
|---|---|---|---|---|
| Transfer queue (`transfers.go`) | jobs, queue, semaphore, wait group, stop channel; per job status, done channel, cancel function | Enqueue*, TrackDownload, CompleteDownload, Cancel, Retry, Cleanup, Shutdown, the workers | bounded concurrency, no forgotten job, one end per job, clean shutdown | `TransferQueue` |
| Copy and move (`copy.go`) | the recursion over a remote tree | StartCopy, copyOne, copyFile, resolveDest, uniqueDest | sources survive, policies respected, nothing reported done that is not | `CopyMove` |
| Search (`manager/search.go`) | a breadth-first walk | search | complete below its limits | `Search` |
| Session manager (`manager.go`) | session table, each session's state and client | Connect, Test, Disconnect, Reconnect, DeleteProfile, Shutdown | no closed client is used, every connection is closed once | `Sessions` |
| FTP client (`ftp_client.go`) | one control connection, one data connection | Connect, commands, transfers, Close | every reply is read by the command it belongs to | `FtpControl` |
| Part files (`transfers.go:700-788`, `move.go`) | `.part` files in the temporary folder | create, receive, move into place, remove | a finished download is whole, a report is true | `PartFile` |
| Local files (`localfs.go`) | the local disk | copy, move, write, rename, remove | as copy and move | `LocalFiles` |
| Profiles and credentials (`manager.go`, `credentials/`) | configuration file, vault file or keychain | save, duplicate, delete | a profile and its secret agree | `ProfileVault`; keychain and master key not |
| Configuration (`config.go`) | JSON file and its copy in memory | load, migrate, save, recents, favorites | memory and file agree, a crash loses nothing | `ConfigStore`; of the document the profiles |
| Trust store (`trust.go`) | known keys, pending decisions | check, trust, remove | an unknown or changed key is never accepted silently | `TrustStore` |
| Progress feed (`transfers.go:402-478`) | a job's worker and ticker | emit | the last update tells the outcome | `Feed` |
| Event bus (`events.go`) | subscribers with buffers, activity log | emit, subscribe, record, clear, persist | order kept | bus in `Feed`; log not |
| HTTP authentication (`server/auth.go`) | bootstrap codes, token | issue, redeem, check | a code works once | codes and token in `Feed` |
| HTTP handlers, fan-out (`server/`) | web socket clients, instance file | one goroutine per request, one fan-out | events reach every client | fan-out in `Feed`, handlers with what they call |
| Web store (`web/src/state/store.tsx`) | a page's copy of transfers and sessions | bootstrap, first list, web socket updates, reconnect | shows what the engine knows | transfers in `Feed` |
| Terminal interface (`tui/`) | screen stack, attempts, input reader | keys, pastes, connect, start and stop | screens belong to the user, keys to the keyboard | `Launcher`, `TerminalInput` |
| Engine (`app.go`) | the managers above | New, Start, Shutdown | orderly shutdown, temporary files wiped | its part in `Launcher`, `TransferQueue`, `Sessions`, `PartFile` |
| Paths (`safepath.go`) | none | Clean, Join, Within, Resolve | a path stays inside its root | Within and Dir in `CopyMove` |
| SFTP client (`sftp_client.go`) | a connection of the SFTP library | transfers with offsets | a resume appends | not modelled |
| Web file manager (`web/src/fm/`) | panes, clipboard, dialogs, editor | paste planning, saving | | not modelled |
| Command line (`cli/`) | | one request at a time | | its download in `PartFile` |
| Views, translations, stubs, packaging | | | | not modelled |

How they interact. A request goroutine (an HTTP handler, a command-line call, an
attempt of the terminal interface) calls the session manager or the transfer
manager directly; both protect their tables with a mutex and their objects with
locks of their own or none. The transfer manager starts one goroutine per
admitted job; that goroutine asks the session manager for the client of its
session and uses it, concurrently with the handlers that list and search folders
over the same client. Both managers emit events on the bus, which the server
fans out to web sockets and the web store applies. `App.Shutdown` stops the
transfer manager, then the sessions, then the server. The stores in the data
directory (profiles, secrets, trusted identities) are shared by every process
that runs in it, each with a copy in memory.

What is hard here: sections of one operation that release a lock in between
(Cancel, Retry, setStatus, Connect), channels closed from several goroutines, a
semaphore taken in one goroutine and given back in another, shutdown against
requests that still arrive, remote and system calls any of which may fail
half-way through a move, retries over what a failed run left behind, two stores
that a crash may leave disagreeing, answers that arrive when the screen or the
page that asked has gone, and updates that overtake each other. `PROJECT.json`
lists these hazards at their lines.

## 2. The modules

| Module | What it is |
|---|---|
| `TransferQueue` | the transfer manager, one step per critical section or channel operation |
| `WorkerPool` | what the queue promises: first in, first out, never more than Limit at a time |
| `TransferQueueProofs` | theorems about `TransferQueue`, among them that it implements `WorkerPool` |
| `CopyMove` | StartCopy and the recursion of copyOne over an abstract remote tree |
| `CopyMoveProofs` | theorems about `CopyMove`: where a job may write and remove, that it loses nothing, and what "completed" means; and about `Search`: that it finds all |
| `Search` | extends `CopyMove`: a search of the tree that a job is changing |
| `Sessions` | the session table with its connects, disconnects and deletions |
| `SessionsProofs` | theorems about `Sessions` |
| `FtpControl` | the FTP client: the command scripts of its methods on one control connection |
| `FtpControlProofs` | theorems about `FtpControl`: the control connection stays in step |
| `LocalFiles` | copy, move and write on the local disk, one system call at a time |
| `PartFile` | a download from its part file to its final name |
| `FilesProofs` | theorems about `PartFile`, what final names and reports hold, and about `LocalFiles`, what it keeps, what it leaves behind and what "ok" means |
| `ConfigStore` | the configuration file and the processes that hold a copy of it |
| `ProfileVault` | extends `ConfigStore`: profiles and their secrets over two stores |
| `TrustStore` | trusted identities, the handshakes that check them and the prompts |
| `StoresProofs` | theorems about `TrustStore` and `ProfileVault` |
| `Feed` | the way of a job's outcome to a page: worker, ticker, bus, fan-out, page |
| `FeedProofs` | theorems about `Feed`, from the emitters to the page |
| `Launcher` | the terminal interface's screens, its attempts and the engine it starts |
| `LauncherProofs` | theorems about `Launcher` |
| `TerminalInput` | the input reader: bytes of a terminal to keys |
| `MCTransferQueue`, `MCCopyMove`, `MCSessions`, `MCFtpControl`, `MCStores`, `MCFiles`, `MCFeed`, `MCLauncher` | the small instances TLC checks |

Some modules hold definitions marked "Faulty" or "A plausible bug": each is a
plausible mistake in the definition that follows it. Nothing uses them but
`PROJECT.json`, which pairs every checked property with the mistake it catches.
Three MC modules (`MCStores`, `MCFiles`, `MCLauncher`) put two components that
share nothing into one run: the variable `subject` says which of the two a
behaviour is about, so the runs are unions, not products. In `MCCopyMove` the
subject is either a job under every trouble or a search beside a job, and there
the two do share the tree.

### TransferQueue

A thread is a worker goroutine (`run`, transfers.go:296), a request goroutine or
Main, the goroutine of `Shutdown`. `pc` says what each does next; `job` is the
job it is dealing with, `mark` the terminal status it is about to set.

| Model | Code |
|---|---|
| `queue`, `slots`, `wg`, `stopped` | `tm.queue`, `len(tm.sem)`, `tm.wg`, `tm.stop` |
| `known`, `status`, `closed` | the keys of `tm.jobs`, `Job.Status`, whether `Job.done` is closed |
| `cancelOf[j]` | the worker whose context `Job.cancel` cancels |
| `holder`, `todo` | who keeps `tm.mu` through a loop over the jobs (Cleanup, the sweep of Shutdown), and what is left of the loop |
| `PumpCheck`, `PumpReturn`, `PumpTake`, `Spawn` | pump (259-288): the check of `tm.stop` outside the lock, the section under it, the `wg.Add` and `go` after it |
| `SetStatus`, `CheckDone`, `CloseDone` | mark and setStatus (105-123, 459-468): the status under the lock, the test of the channel and its close after it |
| `StartUnknown` ... `WgDone` | run (296-383) and its deferred calls in their order |
| `CancelRunning`, `CancelQueued`, `Unqueue` | Cancel (536-554): the status is read in one section and acted on in the next |
| `RetryAccepted`, `RetryAppend` | Retry (568-595): the status in one section, the queue in another |
| `CloseStop` ... `WaitExpires` | Shutdown (612-638) |

Left out: byte counters, times, names beyond equality, emitted events, the
progress ticker. Three steps merge more than one critical section: CancelRunning
reads `Job.cancel` and calls it (nobody resets it in between to another run's),
CompleteDownload scans the jobs in one step, and a transfer's data path is one
step from open to its outcome. Worker records are recycled, so `Workers` bounds
the goroutines alive at one time: at most Limit run and one more may be at its
`wg.Done`. A panic in a worker ends the process (`crashed`); one in a request is
recovered by net/http and ends that request. The step AtRest lets the model
stand still when every goroutine rests, so that deadlock remains an error.

### CopyMove

A job is a stack of frames, one per open folder, each with the step of copyOne
it is at. The remote tree is a function from paths to nodes, a path a sequence
of names, a file's data a model value. Every remote call is a step that succeeds
or fails: for its own reason (no such entry) or by a fault, when the instance
allows faults of that call. `Retry` runs the same closure again, as the manager
does; `Cancel` may come between any two calls. A failed upload leaves its target
untouched or torn; a failed recursive removal leaves any part of the tree that
is closed downwards. A symlink named as the source is modelled as the FTP
client's Stat shows it; the SFTP client's follows it.

A download or an upload that succeeds need not be whole (`Arrives`): the FTP
client reads the final reply of a transfer and not its code (ftp_client.go:716,
747), so one that the server broke off with a 426, 451 or 552 returns no error.
An instance allows this by the faults `cutDownload` and `cutUpload`. The history
variable `brokenOff` holds the files a job stored torn in this way; the
properties say that nothing else is lost or wrongly called completed. The check
of copy.go:323-329 for an empty staged file stops the one case in which not one
byte of a non-empty file arrived; as a failure, that is `DownloadFails`.

### Sessions

A request goes through the steps of Connect (315-376), Test (379-386),
Disconnect (389-404), Reconnect (407-417) or DeleteProfile (246-257); Shutdown
(544-555) takes the whole table at once. `link` is what a session's client
holds: an SFTP client holds nothing until its dial and handshake are through, an
FTP client holds its connection during the login, and closing either while it
has nothing closes nothing. `Drop` is the server ending a connection. `Ids`
bounds the identifiers one behaviour may use. Metadata, events and the vault are
left out.

### FtpControl

A method of the client is a script of commands: `Login`, `Accepted` and
`Refused` say which command or step follows a reply, and `pc` is the step a user
(a goroutine that holds the client) is at. `asked` and `replies` are the two
directions of the control connection, `transfer` and `data` what the server is
doing with its data connection, `armed` whether applyDeadline's deadline is set.
The server answers commands in their order and may refuse any; it ends a
transfer with a final reply, and an ABOR with a reply to the aborted command and
one to ABOR itself. `Failures` names what an instance lets go wrong beside that:
a failed dial, a broken copy, a late reply, a lost connection. `sound` is a
history variable: no two calls overlapped and no transfer failed so far, but for
an MLSD listing, whose final reply is read in any case (552). Manager.Client
hands a client out only while the session is in the table, and Close takes it
out first: this is `ready`. A recursive removal may come to any entry next,
since its tree is left open. Names, sizes, the text of listings, certificates
and resume offsets are left out.

### Search

| Model | Code |
|---|---|
| `todo`, `dirs`, `results` | the locals `queue`, `dirsVisited`, `results` of Search (search.go:36-94) |
| `Ask`, `Abandon` | the handler (handlers_ops.go:55-91) and the end of its request's context |
| `Answer`, `Proceed`, `ListShows`, `PassFolder` | the loop: the context, one List, the entries, an unreadable folder |
| `Matches`, `Visible` | `matches` (96-128) as a set of base names, the hidden-file test (73) |

The tree is `fs` of CopyMove and changes by the steps of its jobs. `lasting` is
a history variable: the paths that were in view at every moment since the search
began; it is what a search can be held to while others move entries. Entries
come in any order: `ListShows` takes the folders and the matches of a listing as
two sequences that agree on the order of what is in both (`InOneOrder`). A
listing shows a symlink as a symlink; a server that shows
one as a folder would make the walk go round until `MaxDirs` ends it.

### LocalFiles

| Model | Code |
|---|---|
| `disk`, `Mounts` | the file system; what lies below a mount is another device |
| `Copy`, `Write`, `Simple` | Service.Copy and Write (localfs.go:205-250), and with one call each Mkdir, Remove, Rename |
| `CopyFile`, `MoveFile`, `OpenSource`, `Create`, `Stream`, `Unlink` | copyFile and streamFile (252-331), one system call each |
| `CopyDir`, `MakeDir`, `ReadDir`, `Entry`, `EndDir` | copyDir (333-385) |
| `Die` | the process ends; what it had written stays |

A request is a stack of frames as in CopyMove. An entry of a folder is passed
over when it has gone or is a symlink, and also when its `d.Info` fails for any
other reason (`Entry`, localfs.go:362-365): `passed` is the history of the latter.
`Simple` is one system call. A
rename within a device is atomic and takes a tree along; across devices it fails
and the code falls back to a copy. A copy that breaks off removes what is at its
destination if os.Remove can, that is, not a folder with entries in it. A
folder that came where a file was listed opens, and cannot be read. The disk at
the start is any tree without half-written files. Two branches are left out: a
failing `Close` in streamFile (323-326) leaves the destination in place and
answers with an error, and copyFile, copyDir and uniqueLocalDest take any error
of their Lstat for "nothing there", as copy.go does with Stat (section 3).

### PartFile

`step` follows LocalDownloadWriter and partFile (transfers.go:700-788) and
moveFile (move.go): `open`, `receive`, `commit`, and across devices `copy` and
`unlink`. `WipeTemp` is the shutdown of an engine in another process, which
removes the temporary folder of all (app.go:118, apppaths.go); `Kill` ends the
downloading process. Data is `Piece` until the last byte has come. `Received` is
the moment at which Download returns no error: over FTP that may be a download
the server broke off, which is committed; `brokenOff` is their history. After the
commit the worker asks whether the job was canceled meanwhile, and if so reports
that instead of what the commit did (`FinishUnlessCanceled`,
transfers.go:368-378).

### ConfigStore and ProfileVault

| Model | Code |
|---|---|
| `root`, `file`, `status` | Store.root of each process, config.json, whether the process is up |
| `saveLocked`, `Upsert`, `Delete`, `SaveRest`, `Load`, `migrate` | config.go; one write is one step, because the store's lock is held and only a complete file is renamed |
| `vault` | `secrets/<id>.enc`: nothing, a secret, or torn |
| `FirstUpsert`, `Truncate`, `Write`, `Clear`, `SecondUpsert` | SaveProfile and DuplicateProfile (manager.go:120-244) through Put (credentials/file.go:110-133) |
| `Forget`, `Drop` | DeleteProfile's two stores |
| `Crash` | the process ends between any two of these steps |

`settled` is what the last finished request on a profile reported. `excused`
holds the profiles of which nothing is claimed: two requests dealt with them at
one time, or the vault refused to remove an entry and the code dropped the error.

### TrustStore

`entries` and `saved` are the store in memory and in its file, `pending` the
identity last refused per host; `attempt` holds a handshake (`Dial`, `Accept`,
`Refuse`) and the prompt a refusal leads to (`TrustPending`, `Decline`). `pin`
is read before the dial, as buildAdapterConfig does; for an IPv6 address
(`Bracketed`) it is looked up under another name than it is stored under, and not
found (manager.go:301, ftp_client.go:229). `Accepts` has three kinds of
handshakes. An SSH key is looked up in the store. With TLSVerify off no
verifyCert is installed (ftp_client.go:105-113), and any certificate will do. With
it on, Go verifies the chain first: a certificate that does not verify ends the
handshake with an error and no prompt (`ChainFails`), whatever is pinned;
verifyCert then sees only those that verify (`Genuine`), compares them with the
pin or, without one, verifies them again without intermediates (`Direct`).
`confirmed` is a history variable: what the user said Yes to and has not revoked
with success.

### Feed

| Model | Code |
|---|---|
| `Run`, `ProgressFunc`, `SetStatus`, `CloseDone`, `Snapshot`, `Emit` | a worker's run and emit (transfers.go:296-383, 459-478): the snapshot in one step, the bus in another |
| `Tick`, `LastTick` | the ticker of progressFunc (402-434) |
| `buffer`, `TakeEvent`, `Write`, `WriteFails` | the subscription (events.go) and fanout (server.go:224-256) |
| `Register`, `Cut`, `OnClose`, `Reconnect`, `Reload` | the web socket's two ends |
| `RedeemBootstrapCode`, `DoBootstrap`, `Unauthorized`, `Expire`, `List`, `ListFails`, `OnMessage` | auth.go and store.tsx: from the link to the first list and the frames after it |

A page in `Slow` may stop to read its connection, so that writes to it wait for
their deadline. A retried job begins with its channel closed and with the update
of the request that retried it still to be emitted.

`offered`, `accepted` and `missed` are history variables: the last update given
to the bus, the last that found room, the pages an update passed by. They name
the three ways a page is left without an outcome (`Lost`), so that the properties
can say there is no fourth: the outcome was the last update and the bus had no
room for it (`Dropped`); the job was retried and an older update of it was the
last one (`Overtaken`); or the outcome passed while the page was not registered.

### Launcher and TerminalInput

`stack` is App.stack; `Push`, `Pop` and `SetScreen` are tui.go's. `worker` holds
the connect and test goroutines (launcher.go:968-1036): between `Answer`,
`LookAtTop` and `Report` or `Prompt` the user may do anything. `eng` is the
Engine, which is reused after a stop; `kind` is what the launcher believes of it,
`instance` the instance file. Each key and the click that does the same are one
action. In TerminalInput `FeedNormal`, `FeedEsc`, `FeedEscPaste`, `FeedSS3` and
`FeedCSI` are the five states of inputReader (tui.go:460-743) as functions from a
reader and a byte to a reader and keys; the terminal (`Press`, `BeginPaste`,
`Paste`, `EndPaste`) is external. `Press` assumes that the thirty milliseconds
after an Escape are long enough for the user and short enough for the terminal:
a second Escape or an arrow key inside them is misread, and a sequence split by
them comes out as Escape and text. Bytes above 0x7f are not modelled: a key that
UTF-8 writes in several bytes comes out as one wrong character per byte
(tui.go:620, 644), typed or pasted.

### WorkerPool

Two variables, `waiting` and `busy`. `TransferQueue` instantiates it with
`waiting <- queue` and `busy <- Cardinality(Occupants)`, the threads that own a
slot: this is stronger than saying that `slots` is at most Limit, because
`Occupants` are the runs that are really under way or about to be.

## 3. What is checked

| Run | Instance | Shows |
|---|---|---|
| `transfer_pool` | 2 jobs, 3 workers, 2 callers, Limit 2; enqueue, retry, cleanup | slots are owned, no lost wake-up, one visible run per job while nobody cancels, `WorkerPool` is implemented |
| `transfer_requests` | an operation and a stream of one name, 2 workers, 2 callers, Limit 1; enqueue, cancel, retry, track, shutdown | types, no queued job forgotten, waiters released, a clean Wait finds nobody |
| `transfer_liveness` | 2 jobs, 2 workers, 1 caller, Limit 1, fairness | the queue drains, Shutdown returns |
| `copy_all` | jobs: every policy, copies and moves of a file, a tree and a symlink, named itself or in a folder of its own; all calls but Stat may fail (in tree moves only removals, any other failure loses data, see below), and any transfer may break off without an error; cancellation at any point, one retry, fairness. Searches: four queries from three folders, within and beyond both limits, beside a move of a tree | completed means copied and nothing lost, but for a transfer that broke off unseen; refuse, skip and rename leave what was there, the job ends; a search is complete |
| `sessions_table` | 2 profiles, 2 requests, 2 sessions, Shutdown, drops | types, no closed client is usable, one closer, no session left connecting |
| `sessions_answered` | 1 FTP profile, 2 requests, 2 sessions, fairness | every request that does not dial is answered |
| `ftp_calls` | one user, every method in any order, every trouble, fairness | in step while no transfer fails, replies read by their own command, nobody left waiting |
| `stores_survive` | profiles: 1 process, 2 profiles, 2 secrets, 2 requests, every write may fail, crashes anywhere. Identities: a host, IPv4 or IPv6, 2 keys, 3 certificates (one does not verify, one only with intermediates), TLSVerify on and off, 2 attempts, restarts | what was reported stays so, no secret without a profile; only what was confirmed is trusted, a handshake that checks accepts nothing else |
| `files_disk` | requests: 2 on a disk of two devices with files, folders and symlinks, the second after or beside the first, every policy, six failing system calls, a process that ends. Downloads: 2, of one name or two, on either device, broken off, canceled, wiped and killed anywhere | nothing lost and ok means copied, but for entries whose Info failed; nothing overwritten, no torn file; the final name is whole, but for a download broken off unseen, the report true |
| `feed_shown` | 1 job (first run or retried), 1 code, a bus buffer and a socket buffer of 2, fairness; 1 page that does all a page can, or 2 open ones of which one does not read | the last update is the outcome, an open page shows it or it was lost in one of three ways, a page that does not read holds up no other for ever |
| `launcher_screens` | screens: 2 connections screens, 2 attempts, an engine here and one elsewhere. Input: any keys and pastes | the launcher knows its engine, a prompt comes only on the screen that asked, an address beyond loopback is confirmed; keys are those pressed |

The bounds. Two jobs are enough for an order and for two jobs over one slot; two
callers for every race of two requests; Limit + 1 workers for an admitted run
beside one that is ending. The races found need one job and two callers. Nothing
bounds the number of retries: the state is finite because a queued job is not
queued twice while its status says so. In CopyMove the source has a file, a
folder and a file in it, the destination the same names, so that every branch of
the policies is taken at depth 0, 1 and 2; one retry is enough since a retry
starts from nothing but the tree. The search's four folders (`MaxDirs`) are
reached only when a move puts one in front of the walk, so both sides of the
limit occur. In Sessions two identifiers let a session be taken, closed and
followed by another one. In FtpControl one user is enough as long as calls take
turns, since a method keeps nothing from the one before but what is on the wire;
`Backlog` limits how many stray replies a client that is already out of step may
gather. Two requests per store let one overtake, repeat or cut off the other, and
the second profile is the one a crash must not touch. On the disk the two devices
give every move its rename and its copy. The feed's buffers hold two updates, so
that one is dropped while another is on its way. Two pages meet in the run where
they can matter to each other: both are open before the job runs and the second
does not read, so that the fan-out waits for it; all else a page does (codes,
reconnects, reloads) it does alone, since the server treats each alike. In the launcher an engine's fan-out goroutines
are at most two because its second stop panics.

The type invariants `CopyMove.TypeOK`, `FtpControl.TypeOK`, `Feed.TypeOK`,
`Launcher.TypeOK`, `PartTypeOK`, `ProfileVault.TypeOK` (for one process) and
`TrustTypeOK` are proved, alone or as parts of the inductive invariants of the
next section, and so are `LocalTypeOK`, `ConcurrencyBound` and `WaitGroupCounts`;
no run spends time on them.

Fairness. In TransferQueue each worker, each caller that is serving a request
and the sweep get strong fairness: the Go scheduler runs every runnable
goroutine, and `sync.Mutex` hands itself over to a waiter that starves, so a
step that is enabled again and again happens. That a transfer ends is an
assumption about its context or its connection. New requests and the shutdown
are the user's choice and get none. In CopyMove a step of the job is weakly
fair: a remote call returns, with a result or an error. In Sessions the steps
that serve a request are strongly fair except dials and logins, of which nothing
is assumed: no deadline bounds the SSH handshake (sftp_client.go:89) or an FTP
login. Closing a client is assumed to return; for FTP that takes an answer to
QUIT for which no deadline is set (ftp_client.go:271-279), and DeleteProfile
closes clients with the manager's lock held (manager.go:250), so without this
assumption one silent server keeps every request waiting. In FtpControl
(`FairSpec`) the goroutines' steps are weakly fair and the server answers what
it was asked; that a deadline passes is not assumed, so that `RepliesArrive`
shows more than that somebody gives up. In Feed the goroutines are weakly fair, a
write to a socket ends in ten seconds one way or the other, and a page that is not
slow runs its callbacks. The ticker's last update is strongly fair: the select in which it
notices that the job is done may also pick a tick, as long as there is one to
pick, but Go picks among ready cases at random and a tick comes twice a second.
Reconnecting, reloading and logging in are up to the page and the user.

What the runs of LocalFiles leave out, because the code does not keep the
properties there: a move under "skip" removes what it skipped; two requests that
create one new name at one time overwrite each other; and what one request
writes into a folder that another one is moving may be torn or removed
(`Apart`). `SettledIsTrue` makes no claim about a profile that two requests dealt
with at one time.

What the properties except, each by a history variable or a condition in the
property itself, because the code breaks it (below): files whose transfer the FTP
server broke off (`brokenOff` in CopyMove and PartFile), entries whose Info failed
(`PassedOver`, `LeftBehind` in LocalFiles), handshakes with TLSVerify off and the
pins of IPv6 addresses (`HandshakeIsSafe`), the three losses of Feed (`Lost`), and
reports of "canceled" (`ReportIsTrue`).

### Where the code and its comments disagree

One run is expected to be violated, `copy_move_loses`. copy.go:286 says "cleanup
of the (now empty) source tree"; the folder is removed with entries that failed
to copy, were skipped or are symlinks.

Others that these models reach or that we met while writing them, not kept as
runs.

Transfers:
- transfers.go:90 "done is closed exactly once": setStatus tests and closes the
  channel after it released the lock (116-122), and Shutdown closes it too
  (620-624); a Cancel and the worker may both close it, and the second close
  panics.
- A job dequeued between Cancel's two sections is marked canceled and runs on
  (545), and a Retry then runs it twice at once (574).
- A worker that has not yet stored its cancel function escapes the sweep of
  Shutdown (617), against "cancels all active transfers" (611); `wg.Add` after
  Wait has returned (285), against "preventing WaitGroup reuse" (258).
- CompleteDownload ends another download of the same name (686).
- Any error of Stat counts as "nothing there", so that under refuse or skip an
  existing file is overwritten (copy.go:366); two copies under rename choose the
  same name (copy.go:389); a retry under skip reports its own torn file as
  completed (copy.go:123, 374).
- StartCopy refuses a destination inside the source (copy.go:45-95) and not one
  above it: to copy /s/a with "replace" onto /s merges /s/a into itself, and
  /s/a/x is overwritten by /s/a/a/x.
- The FTP client ignores the code of the reply that ends a transfer
  (ftp_client.go:716, 747; readReply gives no error for a 4xx or 5xx). A broken-off
  upload counts as done, and a move then removes its source (copy.go:192): the
  file is lost. A broken-off download is committed, against "Commit only on a
  fully successful transfer" (transfers.go:357). copy.go:323-324 speaks of a
  download side that "lost data silently", but what it checks is only whether the
  copy is entirely empty, and it does not look at the upload at all.
- A job canceled during its Commit is reported canceled although its final name
  has been replaced (transfers.go:369-371).
- A retried job's done channel is closed already: its ticker emits once and
  stops, so the second run shows no progress. That one update, or the one of the
  request that retried it (transfers.go:593), may have been taken before the
  outcome and be given to the bus after it: the page then shows a job that is
  over as running, or queued, for ever.
- transfers.go:741 "atomically renames": across devices the final name is
  emptied and filled, and a process that ends in between leaves half a file. A
  part file that was wiped before the last unlink makes a whole download be
  reported as failed. A retry of a failed download always fails, because its
  folder is gone. The shutdown of one engine wipes the part files of every other
  process (app.go:118), while apppaths.go:89-90 speaks of a "clean startup".

Sessions and protocols:
- manager.go:388 "Disconnect closes a session": a session that still dials has
  nothing to close; its connection opens later and belongs to nobody (338-344,
  366-375). A Connect that read the profile before DeleteProfile swept the table
  registers its session after it (245, 339); a Connect under way during Shutdown
  leaves an open connection (543, 550).
- ftp_client.go:291-292 replies "must be consumed fully before the next command":
  two goroutines that use one session send commands while replies are unread; and
  a failed data connection returns at 500, 709 and 744 without the final reply.
- ftp_client.go:41-43 a deadline "on both control and any active data
  connection": it is set before the data connection exists, and a server that
  stalls a transfer holds the caller for ever.
- A method of the FTP client that is past its table lookup when Close runs uses a
  connection that is nil (ftp_client.go:48, 53).
- Upload over SFTP opens its target with truncation before it looks at the resume
  offset (sftp_client.go:293).

Stores:
- DuplicateProfile reports a secret that it could not copy; clearing and deleting
  drop the vault's errors; a crash inside Put loses that profile's old secret and
  the new one, and a torn entry makes every later save of a secret for it fail
  until the profile is deleted. The comment at saveLocked speaks of an fsync that
  the code does not make. Two processes in one directory overwrite each other's
  configuration and trusted identities (config.go:185-187 "must never destroy
  connection profiles").
- With TLSVerify off any certificate is accepted, whatever is pinned, against
  "pinning still enforced below" (ftp_client.go:107). With it on, a pinned
  certificate that does not verify is refused by Go's own check before verifyCert
  is called, and without a prompt, against "accepted even if the chain would not
  validate" and "so the UI can offer an explicit trust decision" (218-222). The
  pin of an IPv6 address is stored under "[host]:port" (229) and looked up under
  "host:port" (manager.go:301), so it is never found.
- A second prompt for a host whose first prompt was answered ends in an error,
  whichever way it is answered. A revoked certificate is still accepted by a
  handshake that had read its pin.

Local files:
- Copy refuses a destination inside the source (localfs.go:233) and not the
  opposite: a move of /s/d/d onto /s/d merges the d/d/d it finds there into its
  own source, which it then removes (333-385), under every policy.
- An entry whose `d.Info` fails is passed over without an error (localfs.go:362-365);
  the answer is ok, and a move removes the entry with its folder (380).

Interfaces:
- The engine is reused after a stop: its pump is dead, its bus has a second
  fan-out, so that pages get updates twice, and the second stop closes a closed
  channel (transfers.go:613) against app.go:107 "stops everything cleanly".
- The trust prompt is the only screen of its stack, so its Cancel does nothing,
  although the footer offers it. A connections screen covered by a dialog when
  its attempt returned shows "busy" for ever (launcher.go:979). Ctrl+C leaves
  most screens without the confirmation and the shutdown that the "safe-exit
  contract" (246-247) describes.
- A page whose code was redeemed but which was reloaded before the answer came is
  unauthorized for good. A hidden tab that lost its socket never reconnects, and
  a page keeps what it showed when it missed an update, because nothing is
  fetched again.
- The web file manager reloads a pane with the folder it had when an operation
  began (FileManager.tsx:208, 444-472), shows one server's entries while it
  operates on another after a failed listing (164, 244-256), and its editor saves
  a file that failed to load as an empty one.

## 4. What is proved

A theorem holds for every value of the constants that meets the assumptions
named in its module: any jobs, sessions, users, trees and buffers, of any number.
Where it has a further hypothesis, the hypothesis is named below with the reason
why the code gives nothing without it. TLC checked each inductive invariant on
the instance of a run before it was proved.

`TransferQueueProofs`:

- `AccountsInvariant`: `Accounts`, the inductive invariant: the types, the
  locals each step reads, `SlotsAreOwned` and `WaitGroupCounts`. The two counts
  are needed for the types themselves: that `slots` and `wg` never go below zero
  follows from somebody owning what is given back.
- `TypeCorrect`, `SlotsInvariant`, `WaitGroupInvariant`, `BoundedConcurrency`
  and `CleanWait` follow from it; `FinishedReleases`, `WakeupInvariant` and
  `QueuedJobs` are each inductive relative to it, with one step per action.
- `VisibleRuns`: one visible run per job. Inductive relative to `Accounts` is
  `OneRun`: at most one thread is moving a job on (`OneMover`), the job's status
  is what that thread's step shows (`Moved`), and a job in the queue is there
  once, queued, with nobody moving it (`Waiting`). Hypotheses: `NobodyCancels`,
  because Cancel reads the status in one section and acts in another and a Retry
  then runs the job twice; and `StreamsApart`, because CompleteDownload finds its
  job by name (transfers.go:680-697) and ends a queued job of the same name.
- `PoolImplemented`: every step of the queue is a step of `WorkerPool` or a
  stutter. A slot changes hands without being counted twice because the thread
  that spawns leaves `Occupants` as the worker enters it.

`SessionsProofs`:

- `RegistryInvariant`: `Registry`, the inductive invariant. That a usable
  session has an open connection needs all of it: who closes (`TakenOnce`), who
  writes "connected" and when (`OneSettler`), and that identifiers are not used
  again (`FreshIds`).
- `TypeInvariant`, `UsableSessions`, `SettledSessions` and `ClosedByOne` follow.

`CopyMoveProofs`, for every tree, of any depth, and any number of jobs, with any
plans and any calls failing:

- `WalkInvariant`: `WalkIInv`, the inductive invariant: types, and that a job's
  stack is a walk of its source (`Stacked`): each call of copyOne works on an
  entry of the folder the one below it is at, and only the innermost call is
  anywhere but between two entries.
- `JobsStayInside`: whatever its policy, a job removes nothing outside its source
  and turns no folder there into anything else. This is the action property
  `OutsideStays`, read off the invariant. It has no hypothesis.
- `NothingIsOverwritten`: refuse, skip and rename change nothing that was there.
  `TargetInvariant` carries it: from the moment a target is chosen until the file
  is uploaded, nothing is at the target. Hypotheses: `StatBelieved`, because an
  error of Stat counts as "nothing there" (copy.go:366), and `OneJob`, because
  another job can take the name between the last Stat and the upload
  (copy.go:365-393).
- `NothingIsLost`: at every moment each file of the source is somewhere, whole,
  but for the file of a move that stored a torn copy of it unseen (`brokenOff`).
  `KeepInvariant` carries it. Its `KeepIInv` says of every open call where it may
  write (`Sound`: beside the source, and, when it replaces, at the place of its
  own entry and no other), of the innermost what it knows (`Ready`: that its
  entry is a file or a folder, that what it has read is what is there, or torn),
  and of the source that it stands as it was, with all that is above it, but for a
  file whose copy is elsewhere, whole or recorded as broken off (`SourceKept`). What is above the source is needed
  because a free target must not turn out to be a folder the source is in.
- `CompletedIsCopied`: a job reported completed that skipped nothing has landed
  every file, whole but for those recorded as broken off. The walk is a recursion over the tree, but the proof needs no
  induction over it: `Covered` says of each file that it has landed or that
  exactly those calls that are open now still have it, the innermost
  (`InHand`) or one with a folder around the file in its list (`Waits`). Listing
  a folder hands a file on to the one entry of the list it is within, which
  `TreeAssumption` (what is in the tree is in folders of the tree) provides.
- The hypotheses of both are `StatBelieved` and `OneJob`, as above, and
  `ApartPlans`. Its first half: a job that replaces is not sent to a folder above
  its source, because it then merges the source into itself. Its second half: a
  move is of a single file, because the move of a folder removes with it what
  could not be copied (the violated run).
- `SearchFindsAll`: a search that answers complete within its limits found every
  match that was in view throughout, none twice, beside any number of jobs that
  do what they like to the tree. `SearchInvariant` carries it. Its `SearchIInv`
  says that each folder is listed once and each result is found in the one
  listing of its folder (`EachOnce`), and of a match that was in view all along
  that it is found, or that one of the folders around it is still to be listed
  (`StillAhead`). There is no hypothesis, only `FiniteAssumption`: the tree to
  begin with is finite, so that a listing can be put in an order.

`FtpControlProofs`, for any number of goroutines on one client:

- `ControlInvariant`: `ControlIInv`, the inductive invariant: types, which steps
  of which method follow which (`Scripts`), what a client that is not ready or
  not open can still do (`Lifetime`), and, while no calls overlapped and no
  transfer failed, that all users but one are idle and the commands, replies and
  transfer under way are those of that one's step (`OneCall`, `Underway`).
- `CommandsInStep` and `RepliesAreOwn`, the two action properties, follow from
  `Underway`. The condition that calls do not overlap is part of the properties
  themselves: without it the code is out of step (see above).

`StoresProofs`:

- `TrustedInvariant`: types, `OnlyConfirmedIsTrusted`, and that a handshake
  holds the pin the store had when it began, which was confirmed then, unless the
  server is an IPv6 address (`AttemptsAreSound`); a pin may have been revoked
  since. `ConfirmedInvariant` and `HandshakesAreSafe` follow. The latter claims
  nothing of handshakes with TLSVerify off, in which the code checks nothing.
- `AgreedInvariant`, `SettledInvariant` and `HousedInvariant` about profiles and
  secrets. The inductive invariant `Agreed` says of each request what it has done
  to the file, the copy in memory and the vault at its step (`DoneSoFar`), of
  each claim that file, copy and vault agree with it (`ProfileAgrees`), and that
  no claim is made of a profile that a request is dealing with (`ClaimsRest`).
  Hypothesis: `OneProcess`. A process that saves writes every profile as it has
  it in memory, so of two processes in one directory each undoes what the other
  reported.

`FilesProofs`, for any downloads, and for any requests on any disk:

- `PartInvariant` is the inductive invariant `PartIInv`: a part file that is
  still there at its commit is whole, or a piece of a download recorded as broken
  off, since only its own process writes it and a wipe removes it; a copy across devices stands before the part is unlinked; and
  a running download on one device has not touched its final name.
  `FinalInvariant` and `ReportsAreTrue` follow.
- `LocalInvariant`: `LocalIInv`, the inductive invariant of the local disk. The
  disk is a tree (`TreeOK`), which is what a rename of a whole tree must be shown
  to keep (`RelocateKeeps`). Every call in progress `Suits` its request: it is
  about an entry at or below the source and a place at or below the destination,
  numbers in names aside, and from the moment it has looked at its destination,
  nothing that is to be kept is there. That the next free number is free needs
  the disk to be finite: among one more numbers than there are paths one is free
  (`UniqueIsFree`). `LocalTypes` follows.
- `KeptIsKept`: what was on the disk at the start and no request was told to
  remove, move or replace stays as it was. No hypothesis: other requests may
  create and remove what they like between the look at a destination and the
  write, but what was there at the start can only have been there at the look.
- `NoneHalfWritten`: `TornIInv` says that whoever is not at the `stream` step of
  a file has no part in a half-written one, and that what a call has read to
  send is whole. Hypothesis: `ApartWishes`, no request reads or moves what
  another one that runs at the same time writes; otherwise it copies half a file
  or moves it away from the one that would fill or remove it. Of the wishes of
  `files_disk` it excludes only those that write to the name of a folder of the
  source (42 of 1113), and those the run shows to be harmless too.
- `MovesLoseNothing`: no data is lost that no request was told to remove or to
  replace, but for what lies at or below an entry that a move passed over because
  its Info failed. `LostIInv` says of each file that nobody gave up that it is where it
  was, or has landed (`Landed`) at the destination of the move or the rename that
  took it, where nobody writes any more. What makes it inductive is the
  accounting of a move: each open folder knows that whatever is left below it is
  in its list or with the call that works for it (`WalkOK`), a call at `create`,
  `stream` or `unlink` knows what it read of its file (`Knows`), and nothing new
  comes into the source of a move (`Shrinks`); so the removal of a
  folder at the end of its move finds nothing that has not landed.
  As in `CopyMove`, this takes the depth of the tree without induction over it.
  Hypothesis: `LosslessWishes`. No request writes where another one writes or
  takes away, because two that create one new name overwrite each other; and no
  move skips, or goes above or below its own source, because the code removes
  what it skipped, and merges a folder into itself (section 3). 951 of the 1113
  wishes of `files_disk` meet it; that the others the run allows do no harm is
  shown by the run alone.
- `OkIsCopied`: a copy or move that nothing disturbed and that answers "ok" has
  every file of its source at its place, or passed it over because its Info
  failed. `CopyInvariant` carries it. Its
  `CopyIInv` says of each of them (`CopyOK`) that what is left of the source is as
  it was (`Shrinks`), that every other file of it has `Arrived`, at its place, at
  the numbered name beside it, or held up by something it was told to skip for,
  and that each open folder accounts for what is still in it (`WalkedAt`). One
  that waits for its turn may find a source that another request has worked on:
  then that one was the same request (`Repeats`), and what it took has arrived.
  Hypothesis: `SettledWishes`. No copy or move goes above its own source, or to a
  numbered sibling of it; what another waits for is the same request or changes
  nothing in its source; and those that run side by side have places apart from
  each other and from the sources. All 1113 wishes of `files_disk` meet it, so
  that the theorem covers what the run checks.

`FeedProofs`, for any jobs, pages and buffer sizes:

- `JobInv` gives the orders in which a run's worker and ticker can take their
  snapshots and emit them; of a job that was never retried, whatever comes after
  a last update is a last update too. `LastUpdateInvariant` follows.
- `FlowInv` follows the last accepted update of a job to a page: it is in the
  bus's buffer, with the fan-out, the last of the page's frames about the job, or
  what the page shows, unless the page missed it. That the accepted update is the
  outcome unless it was `Dropped` or `Overtaken` is `LastUpdateInvariant`.
  `OutcomeInvariant` follows, and
  `TypeInvariant` with the bounds of both buffers. Lemmas on the last update of a
  job in a queue say what appending, taking and cutting off do to it.

`LauncherProofs`: `LauncherInvariant` is the inductive invariant `LauncherIInv`:
at most two screens are stacked, an overlay only on a screen that takes one; a
goroutine knows the screen that asked; and an engine's fan-outs are counted.
`KindInvariant`, `PromptsInPlace` and `BindsAreConfirmed` follow from it and from
what a step may do to the stack, the goroutines and the engine.

Only model-checked:

- Liveness, which is out of the prover's reach: `QueueDrains`, `ShutdownReturns`,
  `JobEnds`, `OthersAreAnswered`, `RepliesArrive`, `OutcomeReachesPages`.
- `CopyMove.CompletedMeansCopied` and `NothingLost` of the move of a folder. They
  hold only where no call but the removal returns an error and nothing is skipped,
  as in `copy_all`.
- `NothingLost` of `LocalFiles` for the wishes outside `LosslessWishes`: it holds
  of the requests the run allows (section 3), which depends on what the two of
  them do at the same time.
- `KeysAreThosePressed`: `TerminalInput` has no constants, so that the run goes
  through all there is.
- The violated run.

## 5. What is not modelled, and the plan

What would come next is a proof about `CopyMove`: that the move of a folder in
which only removals fail and nothing is skipped loses nothing. It needs the
accounting of `MovesLoseNothing` of `LocalFiles` for calls that go on after an
error.

Not modelled, and why:

- The activity log (events.go:150-230): a ring and a file written by one helper.
  Its one hazard, a clear that races a persist, is listed; a model of it would
  show just that race.
- Resume offsets over SFTP and FTP: arithmetic on one call's arguments around a
  library; the truncation above is visible in the code.
- The keychain provider, the encryption of the vault, the writing of master.key.
- HTTP handlers that check arguments and call one modelled operation; the origin
  check; previews; assets.
- The web file manager and the views: no invariant of theirs that we could state
  is both non-trivial and kept; what they break is described above.
- Listing parsers, path cleaning, translations (text), packaging and stubs.
- A composition of all managers under `App.Shutdown`: the modules meet it one by
  one, and its order (transfers, sessions, server) matters to each only through
  the requests that still arrive, which each model allows.
