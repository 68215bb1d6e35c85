-------------------------------- MODULE Uploads --------------------------------
(***************************************************************************)
(* The file service (src/serverResource.hpp) behind the four endpoints of  *)
(* the server: upload, rename, delete and list, over one file tree.  Its   *)
(* callbacks arrive as EndpointCallbacks promises; SocketServer is proved  *)
(* to keep that promise.                                                   *)
(*                                                                         *)
(* conLock_ serialises every change of uploads and of the tree;            *)
(* directory_is_empty_lock is taken by directory_is_empty, inside          *)
(* conLock_, and by listfile, alone.  A handler that takes conLock_ once   *)
(* is one action, guarded by the lock; one that reads the tree before it   *)
(* takes the lock, or takes both locks, is cut where others may come       *)
(* between.                                                                *)
(*                                                                         *)
(* Abstracted: a slice is the address of the connection that sent it;      *)
(* directories are siblings under nfspath; the replies, the size announced *)
(* by PREPARE (stored and never read) and what a listing contains.  A      *)
(* message whose JSON or base64 cannot be read is Rejected.                *)
(***************************************************************************)
EXTENDS Naturals, Sequences, FiniteSets
LOCAL INSTANCE Functions

CONSTANTS
  Conn,        \* addresses of Connection objects
  File, Dir,   \* paths
  DirOf,       \* DirOf[f]: f without its file name
  Inode,       \* bound: with one per file and connection a new one is always
               \* there; with fewer the file system may be full
  None,        \* no file, no inode, nobody
  NumThreads,  \* num_threads
  Overwrites,  \* do clients ask to overwrite?
  MayFail,     \* may the file system refuse an open, a write or a removal?
  MaxSlices    \* bound: slices acknowledged to the open uploads

ASSUME PathAssumption       == DirOf \in [File -> Dir]
ASSUME NoneAssumption       == None \notin Inode \cup File \cup Conn
ASSUME NumThreadsAssumption == NumThreads \in Nat \ {0}
ASSUME FlagAssumption       == {Overwrites, MayFail} \subseteq BOOLEAN
ASSUME ConnAssumption       == IsFiniteSet(Conn)
ASSUME MaxSlicesAssumption  == MaxSlices \in Nat

VARIABLES
  called,    \* called[c]: the last callback made for c
  kind,      \* kind[c]: the endpoint of c while it is open
  job,       \* job[c]: what the running handler of c is doing
  conLock,   \* who holds conLock_ from one action to the next
  dirLock,   \* who holds directory_is_empty_lock
  uploads,   \* uploads[c]: the FileUpload with key c
  dirs,      \* the directories there are
  node,      \* node[f]: the inode f is linked to
  data,      \* data[i]: the slices stored in inode i
  shared     \* inodes opened while another stream was on them: streams with
             \* offsets of their own, so nothing is said of their contents

vars == <<called, kind, job, conLock, dirLock, uploads, dirs, node, data, shared>>
files == <<uploads, node, data, shared>>
locks == <<conLock, dirLock>>

Callbacks == INSTANCE EndpointCallbacks
Live(c) == Callbacks!Live(c)

-----------------------------------------------------------------------------
Endpoints == {"upload", "rename", "delete", "list"}
Place == {"idle", "init", "delete", "remove", "empty", "removeall",
          "list", "listfile", "listing"}

\* A handler's place, the file it is at, its flag deleteDir, and the items of
\* its loop that are left.
Job == [at : Place, file : File \cup {None}, flag : BOOLEAN, todo : SUBSET (File \cup Dir)]
At(p, f, flag, items) == [at |-> p, file |-> f, flag |-> flag, todo |-> items]
Idle == At("idle", None, FALSE, {})

\* A stream that failed to open or to write has no inode.  orphan: the
\* connection that opened it has ended in onerror (history); acked: slices
\* answered with 200 (history).
Upload == [open : BOOLEAN, ino : Inode \cup {None}, buf : Nat, acked : Nat,
           orphan : BOOLEAN]
NoUpload == [open |-> FALSE, ino |-> None, buf |-> 0, acked |-> 0, orphan |-> FALSE]
NewUpload(i) == [open |-> TRUE, ino |-> i, buf |-> 0, acked |-> 0, orphan |-> FALSE]

TypeOK ==
  /\ called \in [Conn -> Callbacks!Callback]
  /\ kind \in [Conn -> Endpoints \cup {"none"}]
  /\ job \in [Conn -> Job]
  /\ conLock \in Conn \cup {None}
  /\ dirLock \in Conn \cup {None}
  /\ uploads \in [Conn -> Upload]
  /\ dirs \subseteq Dir
  /\ node \in [File -> Inode \cup {None}]
  /\ data \in [Inode -> Seq(Conn)]
  /\ shared \subseteq Inode
  /\ \A f \in File : node[f] # None => DirOf[f] \in dirs

Exists(f) == node[f] # None
FreeThread == Cardinality({c \in Conn : job[c] # Idle}) < NumThreads

\* An inode lives while a path or a stream refers to it.
Used(i, nd, up) == (\E f \in File : nd[f] = i) \/ (\E c \in Conn : up[c].ino = i)

\* The file system after a step; inodes nobody refers to are freed.
Disk(up, nd, dt, sh) ==
  /\ uploads' = up
  /\ node' = nd
  /\ data' = [i \in Inode |-> IF Used(i, nd, up) /\ i \notin sh THEN dt[i] ELSE <<>>]
  /\ shared' = {i \in sh : Used(i, nd, up)}

\* n slices of c.
Slices(n, c) == [k \in 1 .. n |-> c]

Init ==
  /\ Callbacks!Init
  /\ kind = [c \in Conn |-> "none"]
  /\ job = [c \in Conn |-> Idle]
  /\ conLock = None /\ dirLock = None
  /\ uploads = [c \in Conn |-> NoUpload]
  /\ dirs = {}
  /\ node = [f \in File |-> None]
  /\ data = [i \in Inode |-> <<>>]
  /\ shared = {}

-----------------------------------------------------------------------------
\* Parts of handlers.

\* onmessage of an endpoint of kind k starts.
Start(c, k) == job[c] = Idle /\ FreeThread /\ kind[c] = k /\ Callbacks!Message(c)
Running(c, p) == job[c].at = p /\ UNCHANGED <<called, kind>>
Work(c, j) == job' = [job EXCEPT ![c] = j]
Goto(c, p) == Work(c, At(p, job[c].file, job[c].flag, job[c].todo))
Loop(c, p) == Work(c, At(p, None, job[c].flag, job[c].todo))
Return(c) == Work(c, Idle)

-----------------------------------------------------------------------------
\* The callbacks that end or begin a connection.

Open(c) ==
  /\ job[c] = Idle /\ Callbacks!Open(c)
  /\ \E k \in Endpoints : kind' = [kind EXCEPT ![c] = k]
  /\ UNCHANGED <<job, locks, dirs, files>>

\* The stream ends with what is in its buffer; whether the last write fails
\* is not looked at.
Flushed(i, n, c) == [data EXCEPT ![i] = @ \o Slices(n, c)]
CloseStream(c) ==
  LET u == uploads[c]
      up == [uploads EXCEPT ![c] = NoUpload]
  IN  \/ u.ino = None /\ Disk(up, node, data, shared)
      \/ u.ino # None /\ Disk(up, node, Flushed(u.ino, u.buf, c), shared)
      \/ MayFail /\ u.ino # None /\ Disk(up, node, data, shared)

\* Variant with a mistake: onclose does not call finish_upload.
CloseUnfinished(c) ==
  /\ job[c] = Idle /\ FreeThread /\ conLock = None
  /\ Callbacks!Close(c)
  /\ kind' = [kind EXCEPT ![c] = "none"]
  /\ UNCHANGED <<job, locks, dirs, files>>

\* Variant with a mistake: what is left in the buffer is dropped.
CloseUnflushed(c) ==
  /\ job[c] = Idle /\ FreeThread /\ conLock = None
  /\ Callbacks!Close(c)
  /\ kind' = [kind EXCEPT ![c] = "none"]
  /\ Disk([uploads EXCEPT ![c] = NoUpload], node, data, shared)
  /\ UNCHANGED <<job, locks, dirs>>

\* onclose of each of the four endpoints: finish_upload.
Close(c) ==
  /\ job[c] = Idle /\ FreeThread /\ conLock = None
  /\ Callbacks!Close(c)
  /\ kind' = [kind EXCEPT ![c] = "none"]
  /\ IF uploads[c].open THEN CloseStream(c) ELSE UNCHANGED files
  /\ UNCHANGED <<job, locks, dirs>>

\* onerror only logs.
Error(c) ==
  /\ job[c] = Idle /\ Callbacks!Error(c)
  /\ kind' = [kind EXCEPT ![c] = "none"]
  /\ uploads' = [uploads EXCEPT ![c].orphan = uploads[c].open]
  /\ UNCHANGED <<job, locks, dirs, node, data, shared>>

Reuse(c) ==
  /\ job[c] = Idle /\ Callbacks!Reuse(c)
  /\ UNCHANGED <<kind, job, locks, dirs, files>>

-----------------------------------------------------------------------------
\* onmessage of upload: PREPARE or a slice.

\* A message that cannot be read, or asks for another action, is answered.
Rejected(c) ==
  /\ Start(c, kind[c])
  /\ UNCHANGED <<kind, job, locks, dirs, files>>

\* The check of a PREPARE that may not overwrite is made outside conLock_.
Prepare(c) ==
  /\ Start(c, "upload")
  /\ \E f \in File, overwrite \in {FALSE, Overwrites} :
       IF overwrite \/ ~Exists(f)
       THEN Work(c, At("init", f, FALSE, {}))
       ELSE UNCHANGED job
  /\ UNCHANGED <<kind, locks, dirs, files>>

\* Variant with a mistake: the stream is opened to append (613, 617).
OpenStreamToAppend(c, f, i) ==
  Disk([uploads EXCEPT ![c] = IF @.open THEN @ ELSE NewUpload(i)],
       [node EXCEPT ![f] = i], data,
       IF \E d \in Conn : uploads[d].ino = i THEN shared \cup {i} ELSE shared \ {i})

\* FileUpload's constructor opens and truncates f; only then does insert find
\* out whether c has an upload already, and if so the new stream is closed.
OpenStream(c, f, i) ==
  Disk([uploads EXCEPT ![c] = IF @.open THEN @ ELSE NewUpload(i)],
       [node EXCEPT ![f] = i], [data EXCEPT ![i] = <<>>],
       IF \E d \in Conn : uploads[d].ino = i THEN shared \cup {i} ELSE shared \ {i})

\* Variant with a mistake: uploads_init does not take conLock_.
UploadsInitUnlocked(c) ==
  /\ Running(c, "init")
  /\ LET f == job[c].file
     IN  /\ dirs' = dirs \cup {DirOf[f]}
         /\ \E i \in Inode :
              /\ IF Exists(f) THEN i = node[f] ELSE ~Used(i, node, uploads)
              /\ OpenStream(c, f, i)
  /\ Return(c)
  /\ UNCHANGED locks

\* uploads_init, by which time the file may have come into being.
UploadsInit(c) ==
  /\ Running(c, "init")
  /\ LET f == job[c].file
     IN  \/ /\ conLock = None
            /\ dirs' = dirs \cup {DirOf[f]}
            /\ \E i \in Inode :
                 /\ IF Exists(f) THEN i = node[f] ELSE ~Used(i, node, uploads)
                 /\ OpenStream(c, f, i)
         \/ /\ conLock = None /\ MayFail           \* the stream does not open
            /\ dirs' = dirs \cup {DirOf[f]}
            /\ uploads' = [uploads EXCEPT ![c] = IF @.open THEN @ ELSE NewUpload(None)]
            /\ UNCHANGED <<node, data, shared>>
         \/ /\ conLock = None /\ MayFail           \* create_directories fails
            /\ DirOf[f] \notin dirs
            /\ UNCHANGED <<dirs, files>>
  /\ Return(c)
  /\ UNCHANGED locks

\* write_data: the stream keeps the slice or writes out all it has; whether
\* that fails is not looked at, and the answer is 200 all the same.
AddData(c) ==
  LET u == uploads[c]
      Put(i, b, dt) ==
        Disk([uploads EXCEPT ![c] = [open |-> TRUE, ino |-> i, buf |-> b,
                                     acked |-> u.acked + 1, orphan |-> u.orphan]],
             node, dt, shared)
  IN  \/ u.ino = None /\ Put(None, 0, data)
      \/ u.ino # None /\ Put(u.ino, u.buf + 1, data)
      \/ u.ino # None /\ Put(u.ino, 0, Flushed(u.ino, u.buf + 1, c))
      \/ u.ino # None /\ MayFail /\ Put(None, 0, data)

Acked == FoldFunction(LAMBDA u, n : u.acked + n, 0, uploads)

WriteData(c) ==
  /\ Start(c, "upload") /\ conLock = None
  /\ IF uploads[c].open
     THEN Acked < MaxSlices /\ AddData(c)
     ELSE UNCHANGED files                          \* "cannot open file"
  /\ UNCHANGED <<kind, job, locks, dirs>>

-----------------------------------------------------------------------------
\* onmessage of rename.

\* Variant with a mistake: the directory is not needed.
RenameFileAnywhere(c) ==
  /\ Start(c, "rename") /\ conLock = None
  /\ \E f, g \in File :
       IF Exists(f) /\ f # g
       THEN Disk(uploads, [node EXCEPT ![g] = node[f], ![f] = None], data, shared)
       ELSE UNCHANGED files
  /\ UNCHANGED <<kind, job, locks, dirs>>

\* fs::rename replaces a file that is there, and throws without an old file
\* or a new directory.
RenameFile(c) ==
  /\ Start(c, "rename") /\ conLock = None
  /\ \E f, g \in File :
       IF Exists(f) /\ f # g /\ DirOf[g] \in dirs
       THEN Disk(uploads, [node EXCEPT ![g] = node[f], ![f] = None], data, shared)
       ELSE UNCHANGED files
  /\ UNCHANGED <<kind, job, locks, dirs>>

-----------------------------------------------------------------------------
\* onmessage of delete: delete_file for each item.

DeleteStart(c) ==
  /\ Start(c, "delete")
  /\ \E F \in SUBSET File, deleteDir \in BOOLEAN :
       Work(c, At("delete", None, deleteDir, F))
  /\ UNCHANGED <<kind, locks, dirs, files>>

\* The loop goes on to an item, and from there to conLock_.
NextFile(c) ==
  /\ Running(c, "delete")
  /\ \E f \in job[c].todo : Work(c, At("remove", f, job[c].flag, job[c].todo \ {f}))
  /\ UNCHANGED <<locks, dirs, files>>

\* remove, which may throw; with deleteDir the lock is kept for the rest.
RemoveFile(c) ==
  /\ Running(c, "remove") /\ conLock = None
  /\ \/ /\ Disk(uploads, [node EXCEPT ![job[c].file] = None], data, shared)
        /\ IF job[c].flag
           THEN Goto(c, "empty") /\ conLock' = c
           ELSE Loop(c, "delete") /\ UNCHANGED conLock
     \/ MayFail /\ Loop(c, "delete") /\ UNCHANGED <<conLock, files>>
  /\ UNCHANGED <<dirLock, dirs>>

\* The rest of delete_file is done, and conLock_ released.
Unlock(c) == Loop(c, "delete") /\ conLock' = None

\* directory_is_empty takes and releases its own lock.
DirectoryIsEmpty(c) ==
  /\ Running(c, "empty") /\ dirLock = None
  /\ LET d == DirOf[job[c].file]
     IN  IF d \in dirs /\ \A f \in File : DirOf[f] = d => ~Exists(f)
         THEN Goto(c, "removeall") /\ UNCHANGED conLock
         ELSE Unlock(c)
  /\ UNCHANGED <<dirLock, dirs, files>>

\* remove_all takes away whatever the directory holds by now.
RemoveAll(c) ==
  /\ Running(c, "removeall")
  /\ LET d == DirOf[job[c].file]
     IN  \/ /\ dirs' = dirs \ {d}
            /\ Disk(uploads, [f \in File |-> IF DirOf[f] = d THEN None ELSE node[f]],
                    data, shared)
         \/ MayFail /\ UNCHANGED <<dirs, files>>
  /\ Unlock(c)
  /\ UNCHANGED dirLock

-----------------------------------------------------------------------------
\* onmessage of list: listfile for each type.

ListStart(c) ==
  /\ Start(c, "list")
  /\ \E D \in SUBSET Dir : Work(c, At("list", None, FALSE, D))
  /\ UNCHANGED <<kind, locks, dirs, files>>

NextType(c) ==
  /\ Running(c, "list")
  /\ \E d \in job[c].todo : Work(c, At("listfile", None, FALSE, job[c].todo \ {d}))
  /\ UNCHANGED <<locks, dirs, files>>

ListFile(c) ==
  /\ Running(c, "listfile") /\ dirLock = None
  /\ Goto(c, "listing")
  /\ dirLock' = c
  /\ UNCHANGED <<conLock, dirs, files>>

\* Variant with a mistake: conLock_ is taken inside directory_is_empty_lock.
ListedUnderBoth(c) ==
  /\ Running(c, "listing") /\ conLock = None
  /\ Goto(c, "list")
  /\ dirLock' = None
  /\ UNCHANGED <<conLock, dirs, files>>

Listed(c) ==
  /\ Running(c, "listing")
  /\ Goto(c, "list")
  /\ dirLock' = None
  /\ UNCHANGED <<conLock, dirs, files>>

\* The loop of delete or list is over, or meets an item it cannot read (669,
\* 789); a handler that waits for a lock is past this point.
EndLoop(c) ==
  /\ job[c].at \in {"delete", "list"}
  /\ Return(c)
  /\ UNCHANGED <<called, kind, locks, dirs, files>>

-----------------------------------------------------------------------------
Handler(c) ==
  \/ UploadsInit(c)
  \/ NextFile(c) \/ RemoveFile(c) \/ DirectoryIsEmpty(c) \/ RemoveAll(c)
  \/ NextType(c) \/ ListFile(c) \/ Listed(c) \/ EndLoop(c)
Callback(c) ==
  \/ Open(c) \/ Close(c) \/ Error(c) \/ Reuse(c)
  \/ Rejected(c) \/ Prepare(c) \/ WriteData(c) \/ RenameFile(c)
  \/ DeleteStart(c) \/ ListStart(c)

Next == \E c \in Conn : Handler(c) \/ Callback(c)

Spec == Init /\ [][Next]_vars

\* A thread goes on with its handler; one that waits for a mutex which is
\* free again and again gets it.
FairSpec == Spec /\ \A c \in Conn : SF_vars(Handler(c))

-----------------------------------------------------------------------------
\* Properties.

\* While no other PREPARE opens its file (64-77), an upload's file and buffer
\* hold exactly the slices acknowledged to it (113, 124), whatever is renamed
\* (209), deleted (309) or listed meanwhile.
UploadIntact ==
  \A c \in Conn :
    LET u == uploads[c]
    IN  u.ino # None /\ u.ino \notin shared =>
          data[u.ino] \o Slices(u.buf, c) = Slices(u.acked, c)

\* onclose stores what was acknowledged (141): the file of an upload that no
\* other PREPARE has opened then holds every slice, if it still has a name.
ClosedUploadIsStored ==
  [][\A c \in Conn :
       LET u == uploads[c]
       IN  u.ino # None /\ u.ino \notin shared /\ ~uploads'[c].open =>
             \A f \in File : node[f] = u.ino => data'[u.ino] = Slices(u.acked, c)]_vars

\* uploads is keyed by the address of a Connection (113, 433): an entry
\* belongs to the connection now at that address, or to one that ended in
\* onerror, which does not call finish_upload (523).
EntryBelongs ==
  \A c \in Conn : uploads[c].open => Live(c) \/ uploads[c].orphan

\* remove_all (317) never takes a file with it: nothing comes into the
\* directory after directory_is_empty has found it empty.
OnlyEmptyRemoved ==
  [][\A f \in File : DirOf[f] \in dirs \ dirs' => ~Exists(f)]_vars

\* The two locks are never waited for in a circle (303, 342, 314): every
\* handler returns.
HandlersReturn == \A c \in Conn : job[c] # Idle ~> job[c] = Idle

\* addData "Adds data to the file" (server_ws.hpp:651): a slice answered with
\* 200 goes to the buffer or to the file.
AckedSliceAdded ==
  [][\A c \in Conn : LET u == uploads[c] IN
       uploads'[c].acked > u.acked =>
         u.ino # None /\ (uploads'[c].buf > u.buf \/ data'[u.ino] # data[u.ino])]_vars
=============================================================================
