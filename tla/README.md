# A TLA+ model of the WebSocket file server

The repository is a WebSocket server library (`server_ws.hpp`, an early
Simple-WebSocket-Server on boost::asio), a client library (`client_ws.hpp`),
a service built on the server (uploading, renaming, deleting and listing
files below an NFS mount, `serverResource.hpp`), configured and started by
`websocket.cpp`, and the generated documentation of a library it carries, whose
pages run programs of their own (`doc/html`). This directory holds TLA+ modules
for it, the TLC configurations that check them and theorems that TLAPS proves.

## Inventory

| Part | State | Operations | Meets |
|---|---|---|---|
| Connection lifecycle, `server_ws.hpp` | per Connection: socket, `closed`, `timer_idle`, request timer, outstanding operations; per Endpoint: `connections` under a mutex | accept, read_handshake, write_handshake, connection_open, read_message(_content), connection_close, connection_error, send, send_close, get_connections, timers | asio's threads, the application's callbacks |
| Start and stop, `server_ws.hpp` 104-134 | `opt_endpoint`, `threads` | start, stop | all handlers |
| Frames, `server_ws.hpp` 138-170, 352-487 | per connection: the buffer of the reads, writes under way | length header, masking, close status, read chain | peer |
| WSS, `server_wss.hpp` | TLS stream, a second timer | accept | lifecycle |
| Client, `client_ws.hpp`, `client_wss.hpp` | one connection, `closed`, a buffer per message | connect, handshake, read loop, send, send_close | server |
| Uploads, `serverResource.hpp` 33-146, 394-532; `FileUpload` | `uploads` (address -> open file) under `conLock_` | PREPARE, data slice, finish_upload | callbacks, file tree |
| Rename, delete, list, `serverResource.hpp` 195-393, 533-859 | file tree, `conLock_`, `directory_is_empty_lock` | rename_file, delete_file, directory_is_empty, listfile | uploads (same files) |
| WSS copies, `serverResources.hpp` | own `uploads`, own locks, same tree | the same | file tree |
| Base64, `base64.cpp`, `modp_base64/` | none | encode, decode | uploads |
| Documentation search, `doc/html/search/search.js` | class `SearchBox`: field, last search, filter, two timers; the page in the frame: rows, open rows | focus, keys, pointer, timers, loading of the frame | browser events |
| Documentation tree, `doc/html/navtree.js` | the nodes with their items, what is selected, breadcrumbs, `navpath` in localStorage | navTo, showNode, expandNode, hashchange, clicks, scripts | browser events, scripts that arrive |
| Other pages' scripts, `dynsections.js`, `resize.js`, `jquery.js` | what is displayed | - | - |
| Crypto, logging, main, examples, tests | - | - | - |

What is hard in it: the handlers of one connection run one after the other, but
those of different connections, the two timers and broadcasts run in parallel
on `num_threads` threads and share the registry, `closed`, the timers, `uploads`
and the files; asio's `cancel()` does not recall a handler that is queued;
connections are told apart by the address of an object that is freed and
allocated again; every read and write may fail. Frames are cut and joined on
their way, writes have no queue, and a read may take more than it asked for. In
the pages, timers, focus changes and scripts meet in any order over state that
each handler changes in part. `PROJECT.json` lists each hazard at its line.

What makes the parts correct: the registry holds exactly the connections being
served, callbacks come in order and end, one Close frame is sent and nothing
behind it, timers act only on what they guard and keep nothing alive, dead and
silent connections go away; an upload writes the file its client prepared, what
was acknowledged is stored, a deletion takes no file that was not asked for; a
message arrives whole, once and in order, and both ends agree on the close; the
search panel shows the results of the text it holds; the tree creates each item
once and selects the page that is shown.

## Modules

| Module | Models |
|---|---|
| `EndpointCallbacks` | abstract: the order of an Endpoint's callbacks for one Connection address |
| `SocketServer` | the connection lifecycle, with its properties |
| `SocketServerProofs` | theorems about `SocketServer` |
| `Uploads` | the file service behind the four endpoints, with its properties |
| `UploadsProofs` | theorems about `Uploads` |
| `MessageChannel` | abstract: what one direction of a connection promises to the programs |
| `Frames` | the header of a frame as it is written and read |
| `FramesProofs` | theorems about the length in it, for all lengths |
| `Wire` | server and client joined byte by byte, with its properties |
| `WireBytes` | lemmas about `Wire`: what is coded is decoded, what the socket does with the bytes of overlapping writes |
| `WireProofs` | theorems about `Wire` |
| `SearchResults` | the page of search results: what is displayed, where keys lead |
| `SearchBox` | the search panel around that page, with its properties |
| `SearchBoxProofs` | theorems about `SearchBox` |
| `NavTree` | the navigation tree, with its properties |
| `NavTreeProofs` | theorems about `NavTree` |
| `DataTheorems` | what `Min`, `Max`, `\o` and `RemoveAt` return, for the last three proof modules |
| `MCSocketServer`, `MCUploads`, `MCWire`, `MCSearch`, `MCNavTree` | values for TLC |

`SocketServer` and `Uploads` meet in `EndpointCallbacks`: the first is proved to
implement it, the second takes its callbacks from it, as actions of an instance
that owns the variable `called`. What is proved of `Uploads` therefore rests on no
assumption about callbacks that `SocketServer` does not discharge. `Wire` takes
one connection of `SocketServer` apart into bytes, joins it to the client, and
implements `MessageChannel` once in each direction. `SearchBox` extends
`SearchResults`, whose page it shows in its frame. Nothing connects the pages of
the documentation with the server.

## SocketServer

A connection is a chain of handlers. `phase[c]` is the operation the chain
waits for (`request`, `respond`, `header`, `length`, `content`), the point its
running handler has reached (`register`, `onopen`, `onmessage`, `broadcast`,
`rearm`, `closing`, `unregister`, `onclose`, `onerror`), or `free`. `res[c]` is
the outcome that asio has posted for the outstanding operation. A handler starts
only when fewer than `NumThreads` are between two of their actions (`Busy`).

| Action | Code |
|---|---|
| `Accept` | accept handler and the start of read_handshake: 257-272, 564-576 |
| `RequestExpire`, `RequestTimeout` | request timer queued, its handler: 245-255 |
| `RequestRead` | handler of the request: 271-350 |
| `HandshakeWritten`, `Register`, `OnOpen` | handler of the answer, connection_open: 321-330, 489-499 |
| `HeaderRead`, `LengthRead`, `ContentRead` | read_message, read_message_content |
| `OnMessage` | the callback: silent, one answer, or a broadcast |
| `BroadcastSend`, `BroadcastRearm`, `BroadcastEnd` | send to each of a copy of the registry; timer_idle_reset in two steps |
| `CloseSend`, `CloseUnregister`, `OnClose`, `OnError` | send_close, connection_close, connection_error |
| `IdleExpire`, `IdleTimeout`, `IdleClose` | idle timer queued, load of `closed`, store and send |
| `PeerReset`, `Complete`, `WriteDone` | network and asio |

A Connection is freed when nothing refers to it (`Referenced`: the shared_ptr
captures), and `Accept` may then take its address again. `fault` records how the
process dies: `shutdown` (it throws in the timer's handler, 250), `parse` (substr
throws of a request line that is too short, 293) or `null` (timer_idle dereferenced
before it exists, 539 from 329). Nothing catches what a handler throws, so it ends
`io_service::run` and the process.

Abstractions: frame contents are the cases the handlers distinguish; time is
absent, so a timer may expire whenever it is armed and a chain's own reset of an
armed timer changes nothing; the Connection allocated ahead for the pending
accept is left out; a broadcast covers one endpoint and drops each member of its
copy once it has been served. A data race on one socket or timer object
is modelled by the order of the calls, not below it.

### Runs

| Run | Setting | Shows |
|---|---|---|
| `deployed` | two connections, two endpoints, two threads, request timeout, no idle timeout | `TypeOK`, `RegistryMatchesChains`, `NothingSentAfterClose`, `CallbackOrder` |
| `idle_one_thread` | two connections, one thread, idle timeout, broadcasts | `CloseSentOnce`, `NoArmedTimerLeftBehind` |
| `idle_two_threads` | the same on two threads, where a copy of the registry goes stale while it is served | `NullTimerOnlyInHandshake`, `IdleFiresOnce` |
| `liveness` | two connections, one thread, request timeout, no data writes | `RequestEnds`, `DeadIsUnregistered` |
| `close_twice` | one connection, two threads, idle timeout | `CloseSentOnce` is violated |
| `late_timeout` | one connection, one thread | `TimeoutOnlyDuringRequest` is violated |

Two connections are enough for every pair of handlers to interleave (a chain with
another chain, a chain with its own timers, a broadcast with its target), for an
address to be used again, and for a broadcast from each side at once.
`MaxWrites` = 1 lets a write be outstanding while the next handler runs; Close
frames are not bounded by it. Deadlock is not checked: the process may die in every
run. On one thread a broadcast is over before any other handler starts, so what is
said of stale copies is run on two: there the other thread closes a member of the
copy, or the copy holds a connection that has not had onopen yet. `CloseSentOnce` and
`NoArmedTimerLeftBehind` do not hold on two threads with these settings (`close_twice`,
and the conditions of the theorems below).

Fairness (`liveness` only): strong for the handlers of a chain and of its timers,
since io_service serves its queue in order and a ready handler is not passed over
for ever; weak for the expiry of the request timer and for the completion of an
operation on a dead socket. The peer is never obliged to send anything.

### Findings

- `close_twice`: `send_close` loads `closed` and stores it in two steps. With an
  idle timeout and two threads both the timer's handler and the read handler send
  a Close frame, against the comment at 189.
- `late_timeout`: the request timer's handler can be queued before the read of
  the request is handled; `cancel()` does not recall it, and it closes the socket
  of a connection whose request was read in time, while its answer is written or later,
against the comment at 264. One thread suffices.

### Theorems

For every finite set of connections, every set of endpoints, every number of
threads and all settings of the timeouts:

- `TypeCorrect`, `RegistryCorrect`, `NullTimerCorrect`, `IdleFiresOnceCorrect`
- `CallbacksImplemented`: `SocketServer` implements `EndpointCallbacks`
- `CloseSentOnceCorrect`, for one thread or no idle timeout
- `NothingSentAfterCloseCorrect`, without an idle timeout and broadcasts
- `NoArmedTimerCorrect`, for one thread or no broadcasts

The conditions are needed: `close_twice` violates the first on two threads, and
the others fail in the same way when their condition is dropped.

Each rests on an inductive invariant stated beside its proof. `TypeOK` is not
inductive alone: the copy that a broadcast takes is typed only because a chain past
the request has an endpoint (`EndpointMatched`). `RegistryMatchesChains` is
inductive on top of that. `TimerConstructed` says that every member of a copy has a
timer, which survives because a Connection in a copy is not freed. `RearmOwned`
ties a timer taken back by `expires_from_now` to the one handler that will arm it.
`Alone` turns `Cardinality(Busy) < 1` into mutual exclusion of handlers when there
is one thread; `CloseInv` and `TimerServed` need it. `CalledMatchesPhase` relates
the last callback to the phase and carries the refinement.

Only model-checked: liveness, which is out of the prover's reach, and the two
violations.

## Uploads

`uploads[c]` is the entry of the map `uploads` with the address of Connection `c`
as its key: whether it is open, the inode its stream writes (none, once the stream has
failed to open or to write), the slices in the stream's buffer. `node` links paths to
inodes and `data` gives an inode's slices, so a file that is renamed, replaced or deleted while a stream writes it is what it
is on a POSIX file system. `job[c]` is the place that the running handler of `c` has
reached and its locals; `conLock` and `dirLock` name the holder of a mutex that is
held from one action to the next. Histories: `acked` counts the slices answered
with 200, `orphan` marks an entry whose connection ended in onerror.

| Action | Code in `serverResource.hpp` |
|---|---|
| `Open`, `Reuse` | onopen; a Connection that is freed and allocated again |
| `Close` | onclose of the four endpoints, finish_upload: 135-145 |
| `Error` | onerror, which logs: 523-531 |
| `Prepare`, `UploadsInit` | PREPARE: the check at 438, then uploads_init under conLock_: 55-98 |
| `WriteData` | a slice: write_data: 99-134, `FileUpload::addData` |
| `RenameFile` | rename_file: 195-228 |
| `DeleteStart`, `RemoveFile`, `DirectoryIsEmpty`, `RemoveAll` | delete_file, which holds conLock_ from remove to remove_all and takes directory_is_empty_lock inside: 229-338 |
| `ListStart`, `ListFile`, `Listed` | listfile under directory_is_empty_lock: 340-393 |
| `NextFile`, `NextType` | the loops over the items of a message go on to one, and from there to its lock |
| `EndLoop` | a loop is over, or meets an item it cannot read (669, 789) |
| `Rejected` | a message that is only answered |

A handler that takes conLock_ once is one action, guarded by the lock; one that
looks at the files first (PREPARE) or takes a second lock (delete) is cut there. A
handler that waits for a lock (`init`, `remove`, `empty`, `listfile`) can do nothing
else: `EndLoop` is only possible between two items.

Abstractions: a slice is the address that sent it, the size in PREPARE is stored and
never compared in the code, so it is left out; directories are siblings; replies
and the contents of a listing are not modelled; two streams on one inode write at
offsets of their own, so nothing is said of the contents of such a `shared` inode.

### Runs

| Run | Setting | Shows |
|---|---|---|
| `two_threads` | two connections, two threads, two files in one directory, a file system that may fail or be full, no slices, fair | `EntryBelongs`, `OnlyEmptyRemoved`, `HandlersReturn` |
| `slices` | two connections, one thread, a directory for each file, files overwritten, two slices | `TypeOK`, `UploadIntact`, `ClosedUploadIsStored` |
| `lost_slice` | one connection, a file system that may refuse | `AckedSliceAdded` is violated |

Two connections make every pair of handlers meet: two uploads of one file, an
upload and a deletion, a deletion and a listing over the two locks. In `slices`
`Inode` has one for every file and every stream, so a new one is always free.
`MaxSlices` bounds the slices acknowledged to all open uploads together: two of them
let a slice wait in the buffer while the next one comes, of the same upload or of the
other, and an upload that has ended gives its slices back. A message with slices is
one action under conLock_ whatever the number of threads, which is why `slices` needs
one thread only and `two_threads` leaves the slices out. Files are in one directory or
in one of their own, which is all that remove_all tells apart.

Fairness (`two_threads` only): strong for the handlers, which covers both the
thread that runs one and the mutex it waits for: on a mutex that is free again and
again a waiting thread gets its turn. Nothing is assumed of the peers.

### Finding

- `lost_slice`: the state of a stream is not looked at, neither after it was opened
  nor after a write, and every slice is answered with "write slice ok", against the
  comment on `addData` at `server_ws.hpp` 651. In the trace the stream opens and its
  write fails; one that did not open loses its slices in the same way.

Behaviour worth knowing that contradicts no statement of the repository: a file may be
overwritten unasked, because the check at 438 is made outside conLock_ and another
thread may upload the file before uploads_init opens it; a PREPARE that is refused,
the connection having an upload already, has truncated the file it named; after
onerror the entry stays, and a later connection at the same address can write to it
and cannot prepare one.
`UploadIntact` and `EntryBelongs` name these cases (`shared`, `orphan`) and say
nothing in them.

### Theorems

For every set of connections (finite), files, directories and inodes, every
number of threads and slices, unless a condition is named:

- `UploadsTypeCorrect`, `EntryBelongsCorrect`, `OnlyEmptyRemovedCorrect`,
  `UploadIntactCorrect`
- `ClosedUploadIsStoredCorrect`, if the file system refuses nothing

`TypeInv` adds to `TypeOK` that a handler at a file has one (`JobInv`). `LockInv` says
that conLock_ is held between actions by exactly the handlers inside delete_file,
and `EmptyInv` that the directory at `removeall` is empty; whoever links a file needs
the lock, so the step that removes it finds it empty. `OwnerInv` adds to
`EntryBelongs` that a handler at work has a live connection. `StreamInv` adds to
`UploadIntact` that two streams on one inode have made it shared, without which a
slice of one upload could appear in the file of another.

Only model-checked: `HandlersReturn`, which is liveness, and the violation.

## Wire

`sent[e]` lists the frames that end `e` has sent; `pending[e]` holds the buffers of
its async_writes under way and `wire[e]` the bytes its socket has taken, each with
the number of its frame. `reader[e]` is the chain of reads: the operation it waits
in, `start` (the front of its buffer), `taken` (what has come off the socket), and
`behind`, the bytes that came together with the handshake. `closed`, `told` and
`got` are the flag of the Connection, the status onclose reported and the messages
onmessage was given.

| Action | Code |
|---|---|
| `RequestRead`, `Opened`, `AnswerRead` | the reads and the write of the handshake: server 271-330, client 215-229 |
| `ProgramSends`, `ProgramCloses` | send and send_close of either end: server 138-202, client 75-147 |
| `Transfer` | asio: a socket takes a buffer, or a first part of it |
| `HeaderRead`, `LengthRead`, `ContentRead` | read_message and read_message_content: server 352-487, client 260-384 |
| `LosesStep` | a read that meets bytes it takes for something else |
| `ReadFails` | the error paths of the reads |

The two ends share the actions because they share the code, and differ where the
code does. The server keeps one buffer for the connection: bytes that come with the
request are found by the reads that follow, which wait for as many bytes again, so
that the last messages may be delayed and none is lost. The client has a new buffer
for every message: what came with the answer is lost to it, and its channel counts
as broken (`ChannelOf`). Neither end queues its writes, and asio cuts a buffer that
the socket does not take at once: a second write may then go between the parts
(`Torn`). `InStep` compares the bytes with the frames they belong to; once it is
false the code reads data as headers, and the model stops there. A pong is given
to onmessage, and a frame with the wrong mask bit is answered by Close with 1002.

Run `wire`: `ChannelToServer` and `ChannelToClient` (each direction implements
`MessageChannel`), `StepIsKept`, `CloseAgreed`, `NothingHeldBack`.
Bounds: three frames from both ends together, enough for two overlapping writes and
an answer to one of them, a Close from each end, or a message behind a message;
`MCData` gives the first message 126 bytes, the shortest with further length bytes;
a buffer is cut after three bytes (within the mask or the length) or not at all; 0, 3
or 8 bytes come behind a handshake (none, inside a frame, past a short one).
`Status` has two members, so that both ends may close at once with different ones, and
`CloseAgreed` tells the status of the one end from that of the other.
`Others` = {client}: another program may be at that end, which sends before its
handshake is done and may get the mask bit wrong; one that is the client of this
library waits. There is no fairness: the peer owes nothing, and `NothingHeldBack`
says in its place that a reader that waits has delivered all that is complete.
Deadlock is not checked: a connection that is closed stops.

### Theorems

`FramesProofs` proves of all lengths what the run cannot reach, with `Overshift` as
what a build makes of the shifts that are undefined:

- `LengthRoundTrip`: from 126 to 2^31 - 1 a length is read as it was written
- `LengthLimit`: from 2^31 to 2^32 - 1 it is read as n + (2^32 - 1) * 2^32, since
  the shifted byte is a negative int; at the last of these 4 + length wraps

`WireProofs` proves every property of the run, for any messages up to 2^31 - 1 bytes
(`LengthAssumption`; beyond it `LengthLimit` says that they are not read back), any
masks, statuses of 16 bits, sizes of the pieces, and any number of frames:

- `WireType`, `WireStepIsKept`, `WireCloseAgreed`, `WireNothingHeldBack`
- `WireChannelToServer`, `WireChannelToClient`: the connection implements
  `MessageChannel` in each direction

The inductive invariant `IInv` has three parts for each end.

- `OutOK`, of what it has sent: every frame is the coding of its data, `upto` counts
  the messages, and `Line` relates the bytes on the line and the writes under way to
  the frames. No byte is lost or there twice (`NoneLost`, `NotYet`, `Rising`), frames
  begin in the order of the sends (`FirstsInOrder`, `Unbegun`), and as far as the line
  stays in one frame its bytes follow each other (`Runs`). That is what asio's freedom
  to cut buffers leaves.
- `ReadOK`, of what it has read: as long as nothing came behind the answer and the
  reader is in step, it stands exactly behind the frames read whole, and `Eaten`
  bytes inside one more; what it knows of that one is what its header says
  (`Framing`); onmessage has had the messages among the whole ones, by `upto`.
- `CloseOf`: at most one Close frame, with the status it was told unless its program
  began; a status that was told is that of the other end's Close frame.

`TypeOK` is not inductive without them: that data is a sequence of bytes again after
it is unmasked, and that the statuses reported are those of the programs, need the
frame that the bytes belong to. The bytes themselves are in `WireBytes`: `XorTwice` is
proved bit by bit, from it `UnmaskTwice`, and with `LengthRoundTrip` that a header, a
length and masked or plain data are decoded as they were coded (`DecodeHeader`,
`DecodeLength`, `DecodePlain`, `DecodeMasked`). `StepIsKept` is kept and not implied:
that two writes overlapped stays visible on the line (`TornStays`), and a reader that
is in step meets other bytes than it expects only behind such a place
(`LostHeader`, `LostMid`). `NothingHeldBack` follows from `IInv`.

## Documentation search

`box` holds the fields of the object `searchBox` and what of the panel is displayed;
`keyTimers` counts the timers that run, whatever the variable `keyTimeout` still
knows of them, and likewise `hideTimers`. `doc` and `open` are the page in the frame
and its open rows; `loading` is the document the frame has been given. `owed` is a
history: the field was edited and no handler has looked at it since.

The methods of `SearchBox` are operators on the panel with the names they have in the
code (`OnSearchFieldChange`, `OnSearchSelectKey`, `Search`, `Activate`, ...); an
action is one event of the browser. A method that moves the focus runs the field's
onfocus or onblur on the way (`MoveFocus`), as a browser does. `NavNext`, `UpFromItem`
and their like are the navigation of the class SearchResults, over displayed rows.

Run `doc_search`: `TypeOK`, `ResultsAreOfLastSearch`, `CaughtUp`, `HideTimerHeld`,
`ArrowsFollowThePage`. A page with three rows, one of which has children, has a
first, a middle and a last of each kind; a second filter has no page for its text.
Enter is a key of its own: it goes where Escape goes in the selection, makes the
keyup that follows reach the field as Enter, and chooses a filter where the handler
of the selection has thrown.
The texts are empty, the label, one with and one without a space that is trimmed.
Two key timers at once let one be forgotten and another set.

What the model shows besides: Search forgets a running key timer without stopping
it, so that a search may be made twice, harmlessly; Shift with Down drops a search
that was due until the next key (`owed` stays); Down in the selection goes one past
the last filter, where Search throws until another filter is chosen, which is why
`CaughtUp` asks for a filter that exists.

`SearchBoxProofs`, for all texts, filters, entries and numbers of key timers:
`SearchTypeCorrect`, `ResultsCorrect`, `CaughtUpCorrect`, `HideTimerCorrect` and
`ArrowsCorrect`: every property of the run. The
inductive invariant `Inv` adds that a last search that is known has its results
displayed (`Shape`); without it a panel that was closed could take its text for
searched. `Leaves(b, c)` is what every method short of a search does: it starts no
key timer, leaves the hide timer, and owes nothing new. `SpacesAssumption`, that
removing spaces twice is removing them once, is an induction over texts, out of the
prover's reach; TLC evaluates it for the texts of the run.

`ArrowsCorrect` is the theorem on the arrow keys, for pages of any length. Up looks for
the children of row r - 1 although the row that NavPrev found may be an earlier one:
harmless only because the rows that are displayed follow each other (`ShownTogether`).
That is so because doxygen writes the entries in the order of their identifiers, which
is the last conjunct of `EntriesAssumption` (a prefix that two entries share, those
between them share as well); it holds of all 367 entries in the pages of this
documentation. `DownLeads` and `UpLeads` compare where the keys lead with the order on
the page. They need the invariant `FocusInv`: an element of the page has the focus only
while it is displayed, and only rows that have children are open. `IdAssumption`, that
an identifier is a sequence, is like `SpacesAssumption` an induction over texts.

## Documentation tree

A node is named by the way to it. `tree` is the object that navtree.js keeps: for
each node how often its children were created, which nodes are expanded, which items
are selected, the breadcrumbs, the indexes that are loaded and the scripts that have
been asked for, each with what its callback does. `goal` and `alone` are histories: the way
and the link of the last navigation, and whether `SelectionFollows` speaks of it.

| Action | Code in `navtree.js` |
|---|---|
| `WindowLoad`, `HashChange` | the handlers in initNavTree: 497-521 |
| `OpenPage`, `ClickAnchor` | a reload, a page or a link without a hash; the links of items: 180-222, storeLink |
| `Toggle`, `ToggleSyncButton` | the arrow of an item, the button nav-sync |
| `ScriptArrives` | getScript's callback: `ExpandArrives` 258-261, `ShowArrives` 335-338, `ChildArrives` 352-356, `IndexArrives` 433-438 |
| `Retry` | showRoot |

`NavTo`, `GotoNode`, `ShowNode`, `ShowLeaf`, `ExpandNode`, `SelectAndHighlight` are the
functions of that name. `ShowNode` goes down from a node in one step as far as the
data are there, as the recursion does, and stops at the first script.

Run `nav_tree`: `TypeOK`, `ChildrenOnce`, `SelectionFollows`, `SyncShowsLink`. The tree
has an item whose children a script brings and below it another, so that a second
navigation can start while the first waits at either; an anchor that no index lists
and a page in a second index take navTo's fallbacks, an anchor is on two pages, and the
way to one page leads to no item. Two scripts may be out at once.
`SelectionFollows` speaks of every navigation but three kinds, which the run shows to
be real: one that began before another was done (the later continues the earlier with
its own breadcrumbs, and both select); the one of the window's load when an item is
selected already, since that handler clears nothing; and those after the tree was told
by its button to stay on the document's URL while it was at another. From the next
navigation on that clears the selection, and begins with none under way, it speaks
again. A navigation that leaves an item selected is not excused: what a change of the
hash must clear (509-512) is what the mutant of this property leaves. Scripts may fail
to arrive, so nothing is said of the end of a navigation under fairness. Animations are
instantaneous, and localStorage is that of one tab.

`NavTreeProofs`, for every tree, index and number of scripts: `NavTreeTypeCorrect`,
`ChildrenOnceCorrect`, `SyncCorrect`, `SelectionCorrect`. The invariant that carries the
first three is about the scripts: each of them, whenever it arrives, goes on at a node
whose item is in the tree by then (`Callback`), and since items are only added, it stays so while others
arrive first. `ShowNodeKeeps` shows that what showNode opens is a way down, each node
under the one before.

`SelectionFollows` needs a second invariant, `AloneInv`: while `alone` holds, every
script that is out either only opens an item (an arrow was clicked) or goes on along
the way to the goal, from where it stopped (`OnTheWay`), with a hash whose items belong
to the goal (`HashFits`), and there is at most one of these (`Single`); what is selected
belongs to the goal (`Fit`), and while such a script is out it belongs to whatever may be
selected next (`Clear`); and while nothing is selected, such a script is out (`Done`).
That a selection which the hash change keeps is clear for the new goal, too, is
`KeptIsClear`. `ShowNodeAims` shows that a step of
showNode ends in one of the two ways. It does not find less than it was sent for
because a way that leads to an item leads through parents only (`WayInParent`: of the
prefixes that are no parents, the shortest would have none).

The constants are assumed to be what doxygen generates, and the files under
`doc/html` (539 nodes, 70 scripts) bear it out: an index lists ways, a part that the
search finds exists, an item's link is to a page of the tree's documents or to none
(`NodeAssumption`, `IndexAssumption`, `PartAssumption`, `LinkAssumption`), and an item's
link is in the index that is searched, with a way to an item that has this link
(`WayAssumption`), and the way of a link leads to an anchor only on the page of that
link (`WayPageAssumption`). TLC evaluates them. Two things that one would assume are not true of
those files, and nothing rests on them. A way need not lead to an item:
`namespace_simple_web_1_1_crypto_1_1_base64.html` is listed with one below an item
without children, and the navigation then throws with nothing selected, which is why
`SelectionFollows` asks for a goal that is a node. And pages share anchors, so that
with a link kept from another page the anchor of that link selects an item of the page
that is shown; `Fit` allows for that.

## Not modelled

- Start and stop of the server: a second start() clears the endpoints under running
  handlers and destroys joinable threads, stop() clears the registries without their
  mutex. From the first such step on the behaviour is undefined, and a model would
  show no more than that it can be reached. `PROJECT.json` lists them as hazards.
- The WSS server and the WSS copies of the services: the same code behind a TLS
  handshake and with locks of their own; `server_wss.hpp` uses member names that its
  base class no longer has and does not compile as committed.
- Of the client: resolving and connecting, the parsing of the URL, TLS.
- Base64: pure functions over tables; what a decoder computes for every input is an
  induction over data.
- Main: `websocket.cpp` starts the servers once, and does not compile as committed
  (it passes the WS server to the WSS resource, and both headers define the same names).
- `dynsections.js` and `resize.js` change what is displayed in one synchronous step
  per event; `jquery.js` is a library; the data files are constants of the models.
- Logging, the OpenSSL wrappers in `crypto.hpp`, build files, tests, examples;
  `wss_examples.cpp` is written for a later interface and is read only for what an
  application does.
