----------------------------- MODULE UploadsProofs -----------------------------
(***************************************************************************)
(* Theorems about Uploads, for every set of connections, files,            *)
(* directories and inodes and every number of threads.                     *)
(***************************************************************************)
EXTENDS Uploads, FiniteSetTheorems, SequenceTheorems, TLAPS

\* The tuples that UNCHANGED ranges over.
USE DEF vars, files, locks

-----------------------------------------------------------------------------
\* Sequences of slices.

LEMMA SlicesType ==
  ASSUME NEW n \in Nat, NEW c \in Conn
  PROVE  /\ Slices(n, c) \in Seq(Conn)
         /\ Len(Slices(n, c)) = n
         /\ \A k \in 1 .. n : Slices(n, c)[k] = c
<1>1. Slices(n, c) \in [1 .. n -> Conn]
  BY DEF Slices
<1>2. Slices(n, c) \in Seq(Conn)
  BY <1>1, SeqDef
<1>3. DOMAIN Slices(n, c) = 1 .. n
  BY DEF Slices
<1>4. DOMAIN Slices(n, c) = 1 .. Len(Slices(n, c)) /\ Len(Slices(n, c)) \in Nat
  BY <1>2, LenProperties
<1>5. Len(Slices(n, c)) = n
  BY <1>3, <1>4
<1> QED
  BY <1>2, <1>5 DEF Slices

LEMMA SlicesAdd ==
  ASSUME NEW m \in Nat, NEW n \in Nat, NEW c \in Conn
  PROVE  Slices(m, c) \o Slices(n, c) = Slices(m + n, c)
<1> DEFINE s == Slices(m, c)  t == Slices(n, c)  u == Slices(m + n, c)
<1>1. /\ s \in Seq(Conn) /\ Len(s) = m /\ \A k \in 1 .. m : s[k] = c
      /\ t \in Seq(Conn) /\ Len(t) = n /\ \A k \in 1 .. n : t[k] = c
  BY SlicesType
<1>2. u \in Seq(Conn) /\ Len(u) = m + n /\ \A k \in 1 .. m + n : u[k] = c
  <2>1. m + n \in Nat
    OBVIOUS
  <2> QED
    BY <2>1, SlicesType
<1> HIDE DEF s, t, u
<1>3. /\ s \o t \in Seq(Conn) /\ Len(s \o t) = m + n
      /\ \A k \in 1 .. m + n : (s \o t)[k] = IF k <= m THEN s[k] ELSE t[k - m]
  BY <1>1, ConcatProperties, ZenonT(40)
<1>4. ASSUME NEW k \in 1 .. m + n PROVE (s \o t)[k] = u[k]
  <2>1. CASE k <= m
    BY <1>1, <1>2, <1>3, <2>1
  <2>2. CASE ~(k <= m)
    BY <1>1, <1>2, <1>3, <2>2
  <2> QED
    BY <2>1, <2>2
<1>5. s \o t = u
  BY <1>2, <1>3, <1>4, SeqEqual
<1> QED
  BY <1>5 DEF s, t, u

LEMMA FlushedType ==
  ASSUME TypeOK, NEW i \in Inode, NEW n \in Nat, NEW c \in Conn
  PROVE  Flushed(i, n, c) \in [Inode -> Seq(Conn)]
<1>1. data[i] \o Slices(n, c) \in Seq(Conn)
  BY SlicesType, ConcatProperties DEF TypeOK
<1> QED
  BY <1>1 DEF Flushed, TypeOK

-----------------------------------------------------------------------------
\* Type correctness.  A handler at a file has one, and a handler that is not
\* at work has nothing left of its last message.
AtFile == {"init", "remove", "empty", "removeall"}
InFiles == {"delete", "remove", "empty", "removeall"}
JobInv ==
  \A c \in Conn : /\ job[c].at = "idle" => job[c] = Idle
                  /\ job[c].at \in AtFile => job[c].file \in File
                  /\ job[c].at \in InFiles => job[c].todo \subseteq File

LEMMA DiskType ==
  ASSUME NEW up \in [Conn -> Upload], NEW nd \in [File -> Inode \cup {None}],
         NEW dt \in [Inode -> Seq(Conn)], NEW sh \in SUBSET Inode, Disk(up, nd, dt, sh)
  PROVE  /\ uploads' \in [Conn -> Upload]
         /\ node' \in [File -> Inode \cup {None}]
         /\ data' \in [Inode -> Seq(Conn)]
         /\ shared' \subseteq Inode
<1>1. <<>> \in Seq(Conn)
  BY EmptySeq
<1> QED
  BY <1>1 DEF Disk

FilesType ==
  /\ uploads \in [Conn -> Upload]
  /\ node \in [File -> Inode \cup {None}]
  /\ data \in [Inode -> Seq(Conn)]
  /\ shared \subseteq Inode

LEMMA UploadValues ==
  /\ NoUpload \in Upload
  /\ \A i \in Inode \cup {None} : NewUpload(i) \in Upload
BY DEF NoUpload, NewUpload, Upload

LEMMA OpenStreamType ==
  ASSUME TypeOK, NEW c \in Conn, NEW f \in File, NEW i \in Inode, OpenStream(c, f, i)
  PROVE  FilesType' /\ node' = [node EXCEPT ![f] = i]
<1> DEFINE up == [uploads EXCEPT ![c] = IF @.open THEN @ ELSE NewUpload(i)]
           nd == [node EXCEPT ![f] = i]
           dt == [data EXCEPT ![i] = <<>>]
           sh == IF \E d \in Conn : uploads[d].ino = i THEN shared \cup {i} ELSE shared \ {i}
<1>1. up \in [Conn -> Upload]
  BY UploadValues DEF TypeOK
<1>2. nd \in [File -> Inode \cup {None}]
  BY DEF TypeOK
<1>3. dt \in [Inode -> Seq(Conn)]
  BY EmptySeq DEF TypeOK
<1>4. sh \in SUBSET Inode
  BY DEF TypeOK
<1>5. Disk(up, nd, dt, sh)
  BY DEF OpenStream
<1> HIDE DEF up, nd, dt, sh
<1>6. FilesType' /\ node' = nd
  BY <1>1, <1>2, <1>3, <1>4, <1>5, DiskType DEF FilesType, Disk
<1> QED
  BY <1>6 DEF nd

LEMMA CloseStreamType ==
  ASSUME TypeOK, NEW c \in Conn, CloseStream(c)
  PROVE  FilesType' /\ node' = node /\ uploads' = [uploads EXCEPT ![c] = NoUpload]
<1> DEFINE u == uploads[c]
           up == [uploads EXCEPT ![c] = NoUpload]
<1>1. u \in Upload /\ up \in [Conn -> Upload]
  BY UploadValues DEF TypeOK
<1>2. u.ino # None => Flushed(u.ino, u.buf, c) \in [Inode -> Seq(Conn)]
  BY <1>1, FlushedType DEF Upload
<1>3. \/ Disk(up, node, data, shared)
      \/ u.ino # None /\ Disk(up, node, Flushed(u.ino, u.buf, c), shared)
  BY DEF CloseStream
<1> HIDE DEF u, up
<1>4. FilesType' /\ node' = node /\ uploads' = up
  <2>1. CASE Disk(up, node, data, shared)
    BY <1>1, <2>1, DiskType DEF FilesType, Disk, TypeOK
  <2>2. CASE u.ino # None /\ Disk(up, node, Flushed(u.ino, u.buf, c), shared)
    BY <1>1, <1>2, <2>2, DiskType DEF FilesType, Disk, TypeOK
  <2> QED
    BY <1>3, <2>1, <2>2
<1> QED
  BY <1>4 DEF up

\* A slice that is added changes the stream of its connection only.
LEMMA AddDataType ==
  ASSUME TypeOK, NEW c \in Conn, uploads[c].open, AddData(c)
  PROVE  /\ FilesType' /\ node' = node
         /\ \E v \in Upload : /\ uploads' = [uploads EXCEPT ![c] = v]
                              /\ v.open = uploads[c].open /\ v.orphan = uploads[c].orphan
                              /\ v.ino \in {uploads[c].ino, None}
<1> DEFINE u == uploads[c]
           after(i, b) == [open |-> TRUE, ino |-> i, buf |-> b,
                           acked |-> u.acked + 1, orphan |-> u.orphan]
           put(i, b, dt) == Disk([uploads EXCEPT ![c] = after(i, b)], node, dt, shared)
<1>1. u \in Upload
  BY DEF TypeOK
<1>2. PICK i \in {u.ino, None}, b \in Nat, dt \in [Inode -> Seq(Conn)] : put(i, b, dt)
  <2>1. \/ put(None, 0, data)
        \/ u.ino # None /\ put(u.ino, u.buf + 1, data)
        \/ u.ino # None /\ put(u.ino, 0, Flushed(u.ino, u.buf + 1, c))
    BY DEF AddData
  <2>2. u.buf + 1 \in Nat /\ (u.ino # None => u.ino \in Inode)
    BY <1>1 DEF Upload
  <2>3. u.ino # None => Flushed(u.ino, u.buf + 1, c) \in [Inode -> Seq(Conn)]
    BY <2>2, FlushedType
  <2> HIDE DEF u, put
  <2> QED
    BY <2>1, <2>2, <2>3 DEF TypeOK
<1>3. after(i, b) \in Upload
  BY <1>1 DEF Upload
<1>4. [uploads EXCEPT ![c] = after(i, b)] \in [Conn -> Upload]
  BY <1>3 DEF TypeOK
<1> HIDE DEF after
<1>5. FilesType' /\ node' = node /\ uploads' = [uploads EXCEPT ![c] = after(i, b)]
  BY <1>2, <1>4, DiskType DEF FilesType, Disk, TypeOK
<1>6. after(i, b).open = TRUE /\ after(i, b).orphan = u.orphan /\ after(i, b).ino = i
  BY DEF after
<1> QED
  BY <1>2, <1>3, <1>5, <1>6


\* A handler that starts, goes on or returns.
LEMMA WorkType ==
  ASSUME TypeOK, JobInv, NEW c \in Conn, NEW p \in Place \ {"idle"},
         NEW f \in File \cup {None}, NEW o \in BOOLEAN, NEW T \in SUBSET (File \cup Dir),
         p \in AtFile => f \in File, p \in InFiles => T \subseteq File,
         Work(c, At(p, f, o, T))
  PROVE  job' \in [Conn -> Job] /\ JobInv'
<1>1. At(p, f, o, T) \in Job /\ At(p, f, o, T).at = p
      /\ At(p, f, o, T).file = f /\ At(p, f, o, T).todo = T
  BY DEF At, Job
<1> QED
  BY <1>1 DEF TypeOK, JobInv, Work

LEMMA ReturnType ==
  ASSUME TypeOK, JobInv, NEW c \in Conn, Return(c)
  PROVE  job' \in [Conn -> Job] /\ JobInv'
<1>1. Idle \in Job /\ Idle.at = "idle"
  BY DEF Idle, At, Job, Place
<1> QED
  BY <1>1 DEF TypeOK, JobInv, Return, Work, AtFile, InFiles

LEMMA JobOf ==
  ASSUME TypeOK, NEW c \in Conn
  PROVE  /\ job[c].at \in Place /\ job[c].file \in File \cup {None}
         /\ job[c].flag \in BOOLEAN /\ job[c].todo \subseteq File \cup Dir
BY DEF TypeOK, Job

LEMMA GotoType ==
  ASSUME TypeOK, JobInv, NEW c \in Conn, NEW p \in {"empty", "removeall", "list", "listing"},
         Goto(c, p),
         p \in {"empty", "removeall"} => job[c].file \in File /\ job[c].todo \subseteq File
  PROVE  job' \in [Conn -> Job] /\ JobInv'
<1>1. /\ p \in Place \ {"idle"}
      /\ p \in AtFile => job[c].file \in File
      /\ p \in InFiles => job[c].todo \subseteq File
  BY DEF Place, AtFile, InFiles
<1> QED
  BY <1>1, JobOf, WorkType DEF Goto

\* The loop of delete goes on.
LEMMA LoopType ==
  ASSUME TypeOK, JobInv, NEW c \in Conn, job[c].at \in InFiles, Loop(c, "delete")
  PROVE  job' \in [Conn -> Job] /\ JobInv'
<1>1. /\ "delete" \in Place \ {"idle"} /\ "delete" \notin AtFile
      /\ job[c].todo \subseteq File /\ None \in File \cup {None}
  BY DEF Place, AtFile, JobInv
<1> QED
  BY <1>1, JobOf, WorkType DEF Loop

LEMMA UnlockType ==
  ASSUME TypeOK, JobInv, NEW c \in Conn, job[c].at \in {"empty", "removeall"}, Unlock(c)
  PROVE  job' \in [Conn -> Job] /\ JobInv' /\ conLock' = None
BY LoopType DEF Unlock, InFiles

\* The actions of EndpointCallbacks.
LEMMA CallbackType ==
  ASSUME TypeOK, NEW c \in Conn
  PROVE  /\ Callbacks!Open(c) \/ Callbacks!Message(c) \/ Callbacks!Close(c) \/ Callbacks!Error(c)
              \/ Callbacks!Reuse(c) => called' \in [Conn -> Callbacks!Callback]
BY DEF TypeOK, Callbacks!Open, Callbacks!Message, Callbacks!Close, Callbacks!Error,
       Callbacks!Reuse, Callbacks!Callback

TypeInv == TypeOK /\ JobInv

LEMMA TypeInit == Init => TypeInv
<1> SUFFICES ASSUME Init PROVE TypeInv
  OBVIOUS
<1> USE DEF Init
<1>1. called \in [Conn -> Callbacks!Callback]
  BY DEF Callbacks!Init, Callbacks!Callback
<1>2. Idle \in Job /\ Idle.at = "idle"
  BY DEF Idle, At, Job, Place
<1>3. NoUpload \in Upload /\ <<>> \in Seq(Conn)
  BY UploadValues, EmptySeq
<1> QED
  BY <1>1, <1>2, <1>3 DEF TypeInv, TypeOK, JobInv, AtFile, InFiles

LEMMA HandlerType ==
  ASSUME TypeInv, NEW c \in Conn, Handler(c)
  PROVE  TypeInv'
<1> USE DEF TypeInv
<1>0. called' = called /\ kind' = kind
  BY DEF Handler, UploadsInit, NextFile, RemoveFile, DirectoryIsEmpty, RemoveAll, NextType,
         ListFile, Listed, EndLoop, Running
<1>1. CASE UploadsInit(c)
  <2>1. job[c].file \in File /\ DirOf[job[c].file] \in Dir
    BY <1>1, PathAssumption DEF UploadsInit, Running, JobInv, AtFile
  <2>2. job' \in [Conn -> Job] /\ JobInv' /\ conLock' = conLock /\ dirLock' = dirLock
    BY <1>1, ReturnType DEF UploadsInit
  <2>3. CASE dirs' = dirs \cup {DirOf[job[c].file]} /\ \E i \in Inode : OpenStream(c, job[c].file, i)
    BY <1>0, <2>1, <2>2, <2>3, OpenStreamType DEF TypeOK, FilesType
  <2>4. CASE dirs \subseteq dirs' /\ dirs' \subseteq Dir /\ UNCHANGED <<node, data, shared>>
             /\ uploads' \in [Conn -> Upload]
    BY <1>0, <2>2, <2>4 DEF TypeOK
  <2>5. [uploads EXCEPT ![c] = IF @.open THEN @ ELSE NewUpload(None)] \in [Conn -> Upload]
    BY UploadValues DEF TypeOK
  <2> QED
    BY <1>1, <2>1, <2>3, <2>4, <2>5 DEF UploadsInit, TypeOK
<1>2. CASE RemoveFile(c)
  <2>1. job[c].file \in File /\ job[c].todo \subseteq File /\ job[c].at \in InFiles
    BY <1>2 DEF RemoveFile, Running, JobInv, AtFile, InFiles
  <2>2. job' \in [Conn -> Job] /\ JobInv'
    <3>1. CASE Goto(c, "empty")
      BY <2>1, <3>1, GotoType
    <3>2. CASE Loop(c, "delete")
      BY <2>1, <3>2, LoopType
    <3> QED
      BY <1>2, <3>1, <3>2 DEF RemoveFile
  <2>3. conLock' \in Conn \cup {None} /\ dirs' = dirs /\ dirLock' = dirLock
    BY <1>2 DEF RemoveFile, TypeOK
  <2>4. CASE UNCHANGED files
    BY <1>0, <2>2, <2>3, <2>4 DEF TypeOK
  <2>5. CASE Disk(uploads, [node EXCEPT ![job[c].file] = None], data, shared)
    <3>1. [node EXCEPT ![job[c].file] = None] \in [File -> Inode \cup {None}]
      BY DEF TypeOK
    <3>2. FilesType' /\ node' = [node EXCEPT ![job[c].file] = None]
      BY <2>5, <3>1, DiskType DEF TypeOK, FilesType, Disk
    <3> QED
      BY <1>0, <2>2, <2>3, <3>2 DEF TypeOK, FilesType
  <2> QED
    BY <1>2, <2>4, <2>5 DEF RemoveFile
<1>3. CASE DirectoryIsEmpty(c)
  <2>1. job[c].at = "empty" /\ dirLock' = dirLock /\ dirs' = dirs /\ UNCHANGED files
    BY <1>3 DEF DirectoryIsEmpty, Running
  <2>2. job' \in [Conn -> Job] /\ JobInv' /\ conLock' \in Conn \cup {None}
    <3>1. CASE Unlock(c)
      BY <2>1, <3>1, UnlockType
    <3>2. CASE Goto(c, "removeall") /\ UNCHANGED conLock
      <4>1. job[c].file \in File /\ job[c].todo \subseteq File
        BY <2>1 DEF JobInv, AtFile, InFiles
      <4> QED
        BY <3>2, <4>1, GotoType DEF TypeOK
    <3> QED
      BY <1>3, <3>1, <3>2 DEF DirectoryIsEmpty
  <2> QED
    BY <1>0, <2>1, <2>2 DEF TypeOK
<1>4. CASE RemoveAll(c)
  <2> DEFINE nd == [f \in File |-> IF DirOf[f] = DirOf[job[c].file] THEN None ELSE node[f]]
  <2>1. job' \in [Conn -> Job] /\ JobInv' /\ conLock' = None /\ dirLock' = dirLock
    BY <1>4, UnlockType DEF RemoveAll, Running
  <2>2. CASE UNCHANGED <<dirs, files>>
    BY <1>0, <2>1, <2>2 DEF TypeOK
  <2>3. CASE dirs' = dirs \ {DirOf[job[c].file]} /\ Disk(uploads, nd, data, shared)
    <3>1. nd \in [File -> Inode \cup {None}]
      BY DEF TypeOK
    <3>2. FilesType' /\ node' = nd
      BY <2>3, <3>1, DiskType DEF TypeOK, FilesType, Disk
    <3> QED
      BY <1>0, <2>1, <2>3, <3>2 DEF TypeOK, FilesType
  <2> QED
    BY <1>4, <2>2, <2>3 DEF RemoveAll
<1>5. CASE ListFile(c)
  <2>1. job' \in [Conn -> Job] /\ JobInv'
    BY <1>5, GotoType DEF ListFile
  <2>2. conLock' = conLock /\ dirLock' = c /\ UNCHANGED <<dirs, files>>
    BY <1>5 DEF ListFile
  <2> QED
    BY <1>0, <2>1, <2>2 DEF TypeOK
<1>6. CASE Listed(c)
  <2>1. job' \in [Conn -> Job] /\ JobInv'
    BY <1>6, GotoType DEF Listed
  <2>2. conLock' = conLock /\ dirLock' = None /\ UNCHANGED <<dirs, files>>
    BY <1>6 DEF Listed
  <2> QED
    BY <1>0, <2>1, <2>2 DEF TypeOK
<1>7. CASE EndLoop(c)
  <2>1. job' \in [Conn -> Job] /\ JobInv'
    BY <1>7, ReturnType DEF EndLoop
  <2> QED
    BY <1>0, <1>7, <2>1 DEF TypeOK, EndLoop
<1>8. CASE NextFile(c)
  <2>1. PICK f \in job[c].todo : Work(c, At("remove", f, job[c].flag, job[c].todo \ {f}))
    BY <1>8 DEF NextFile
  <2>2. job[c].todo \subseteq File /\ job[c].flag \in BOOLEAN
    BY <1>8, JobOf DEF NextFile, Running, JobInv, InFiles
  <2>3. "remove" \in Place \ {"idle"} /\ f \in File /\ job[c].todo \ {f} \subseteq File
    BY <2>2 DEF Place
  <2>4. job' \in [Conn -> Job] /\ JobInv'
    BY <2>1, <2>2, <2>3, WorkType
  <2> QED
    BY <1>0, <1>8, <2>4 DEF TypeOK, NextFile
<1>9. CASE NextType(c)
  <2>1. PICK d \in job[c].todo : Work(c, At("listfile", None, FALSE, job[c].todo \ {d}))
    BY <1>9 DEF NextType
  <2>2. /\ "listfile" \in Place \ {"idle"} /\ None \in File \cup {None} /\ FALSE \in BOOLEAN
        /\ "listfile" \notin AtFile /\ "listfile" \notin InFiles
        /\ job[c].todo \ {d} \in SUBSET (File \cup Dir)
    BY JobOf DEF Place, AtFile, InFiles
  <2>3. job' \in [Conn -> Job] /\ JobInv'
    BY <2>1, <2>2, WorkType
  <2> QED
    BY <1>0, <1>9, <2>3 DEF TypeOK, NextType
<1> QED
  BY <1>1, <1>2, <1>3, <1>4, <1>5, <1>6, <1>7, <1>8, <1>9 DEF Handler

LEMMA CallbackActionType ==
  ASSUME TypeInv, NEW c \in Conn, Callback(c)
  PROVE  TypeInv'
<1> USE DEF TypeInv
<1>0. called' \in [Conn -> Callbacks!Callback]
  BY CallbackType DEF Callback, Open, Close, Error, Reuse, Rejected, Prepare, WriteData,
     RenameFile, DeleteStart, ListStart, Start
<1>1. CASE Open(c)
  BY <1>0, <1>1 DEF Open, TypeOK, JobInv
<1>2. CASE Close(c)
  <2>1. /\ kind' \in [Conn -> Endpoints \cup {"none"}]
        /\ job' = job /\ conLock' = conLock /\ dirLock' = dirLock /\ dirs' = dirs
    BY <1>2 DEF Close, TypeOK
  <2>2. FilesType' /\ node' = node
    BY <1>2, CloseStreamType DEF Close, TypeOK, FilesType
  <2> QED
    BY <1>0, <2>1, <2>2 DEF TypeOK, JobInv, FilesType
<1>3. CASE Error(c)
  <2>1. [uploads EXCEPT ![c].orphan = uploads[c].open] \in [Conn -> Upload]
    BY DEF TypeOK, Upload
  <2> QED
    BY <1>0, <1>3, <2>1 DEF Error, TypeOK, JobInv
<1>4. CASE Reuse(c) \/ Rejected(c)
  BY <1>0, <1>4 DEF Reuse, Rejected, TypeOK, JobInv
<1>5. CASE Prepare(c)
  <2>1. kind' = kind /\ UNCHANGED <<locks, dirs, files>>
    BY <1>5 DEF Prepare
  <2>2. job' \in [Conn -> Job] /\ JobInv'
    <3>1. CASE UNCHANGED job
      BY <3>1 DEF TypeOK, JobInv
    <3>2. ASSUME NEW f \in File, Work(c, At("init", f, FALSE, {}))
          PROVE  job' \in [Conn -> Job] /\ JobInv'
      <4>1. "init" \in Place \ {"idle"} /\ "init" \notin InFiles
            /\ {} \in SUBSET (File \cup Dir) /\ FALSE \in BOOLEAN
        BY DEF Place, InFiles
      <4> QED
        BY <3>2, <4>1, WorkType
    <3> QED
      BY <1>5, <3>1, <3>2 DEF Prepare
  <2> QED
    BY <1>0, <2>1, <2>2 DEF TypeOK
<1>6. CASE WriteData(c)
  <2>1. UNCHANGED <<kind, job, locks, dirs>>
    BY <1>6 DEF WriteData
  <2>2. FilesType' /\ node' = node
    BY <1>6, AddDataType DEF WriteData, TypeOK, FilesType
  <2> QED
    BY <1>0, <2>1, <2>2 DEF TypeOK, JobInv, FilesType
<1>7. CASE RenameFile(c)
  <2>1. UNCHANGED <<kind, job, locks, dirs>>
    BY <1>7 DEF RenameFile
  <2>2. CASE UNCHANGED files
    BY <1>0, <2>1, <2>2 DEF TypeOK, JobInv
  <2>3. ASSUME NEW f \in File, NEW g \in File, DirOf[g] \in dirs,
               Disk(uploads, [node EXCEPT ![g] = node[f], ![f] = None], data, shared)
        PROVE  TypeInv'
    <3>1. [node EXCEPT ![g] = node[f], ![f] = None] \in [File -> Inode \cup {None}]
      BY DEF TypeOK
    <3>2. FilesType' /\ node' = [node EXCEPT ![g] = node[f], ![f] = None]
      BY <2>3, <3>1, DiskType DEF TypeOK, FilesType, Disk
    <3> QED
      BY <1>0, <2>1, <2>3, <3>2 DEF TypeOK, JobInv, FilesType
  <2> QED
    BY <1>7, <2>2, <2>3 DEF RenameFile
<1>8. CASE DeleteStart(c)
  <2>1. kind' = kind /\ UNCHANGED <<locks, dirs, files>>
    BY <1>8 DEF DeleteStart
  <2>2. PICK F \in SUBSET File, o \in BOOLEAN : Work(c, At("delete", None, o, F))
    BY <1>8 DEF DeleteStart
  <2>3. "delete" \in Place \ {"idle"} /\ "delete" \notin AtFile
        /\ None \in File \cup {None} /\ F \in SUBSET (File \cup Dir)
    BY DEF Place, AtFile
  <2>4. job' \in [Conn -> Job] /\ JobInv'
    BY <2>2, <2>3, WorkType
  <2> QED
    BY <1>0, <2>1, <2>4 DEF TypeOK
<1>9. CASE ListStart(c)
  <2>1. kind' = kind /\ UNCHANGED <<locks, dirs, files>>
    BY <1>9 DEF ListStart
  <2>2. PICK D \in SUBSET Dir : Work(c, At("list", None, FALSE, D))
    BY <1>9 DEF ListStart
  <2>3. "list" \in Place \ {"idle"} /\ None \in File \cup {None} /\ FALSE \in BOOLEAN
        /\ "list" \notin AtFile /\ "list" \notin InFiles /\ D \in SUBSET (File \cup Dir)
    BY DEF Place, AtFile, InFiles
  <2>4. job' \in [Conn -> Job] /\ JobInv'
    BY <2>2, <2>3, WorkType
  <2> QED
    BY <1>0, <2>1, <2>4 DEF TypeOK
<1> QED
  BY <1>1, <1>2, <1>3, <1>4, <1>5, <1>6, <1>7, <1>8, <1>9 DEF Callback

LEMMA TypeNext == TypeInv /\ [Next]_vars => TypeInv'
<1> SUFFICES ASSUME TypeInv, [Next]_vars PROVE TypeInv'
  OBVIOUS
<1>1. CASE UNCHANGED vars
  BY <1>1 DEF TypeInv, TypeOK, JobInv
<1> QED
  BY <1>1, HandlerType, CallbackActionType DEF Next

\* Every variable keeps its type, and a file that is there has a directory.
THEOREM UploadsTypeCorrect == Spec => []TypeOK
<1>1. TypeInv => TypeOK
  BY DEF TypeInv
<1> QED
  BY <1>1, TypeInit, TypeNext, PTL DEF Spec


-----------------------------------------------------------------------------
\* conLock_ is held from one action to the next by delete_file alone, between
\* remove and remove_all; whoever links a file needs the lock, so a directory
\* found empty under it stays empty.
InDelete(c) == job[c].at \in {"empty", "removeall"}
LockInv == \A c \in Conn : InDelete(c) <=> conLock = c
EmptyInv ==
  \A c \in Conn : job[c].at = "removeall" =>
    \A f \in File : DirOf[f] = DirOf[job[c].file] => ~Exists(f)

\* What a step of c does to the lock, the jobs and the tree.
LockStep(c) ==
  \/ conLock' = conLock /\ (InDelete(c)' <=> InDelete(c))
  \/ conLock = None /\ conLock' = c /\ InDelete(c)'
  \/ InDelete(c) /\ conLock' = None /\ ~InDelete(c)'
TreeStep(c) ==
  /\ conLock = None \/ \A f \in File : ~Exists(f) => ~Exists(f)'
  /\ \A f \in File : DirOf[f] \in dirs \ dirs' =>
       job[c].at = "removeall" /\ DirOf[f] = DirOf[job[c].file]
  /\ job'[c].at = "removeall" =>
       \A f \in File : DirOf[f] = DirOf[job'[c].file] => ~Exists(f)'

LEMMA AtFields ==
  \A p, f, o, T : /\ At(p, f, o, T).at = p /\ At(p, f, o, T).file = f
                  /\ At(p, f, o, T).flag = o /\ At(p, f, o, T).todo = T
BY DEF At

LEMMA WorkEffect ==
  ASSUME TypeInv, NEW c \in Conn, NEW j, Work(c, j)
  PROVE  job'[c] = j /\ \A d \in Conn \ {c} : job'[d] = job[d]
BY DEF TypeInv, TypeOK, Work

LEMMA IdleEffect ==
  ASSUME TypeInv, NEW c \in Conn, Return(c)
  PROVE  job'[c] = Idle /\ job'[c].at = "idle" /\ \A d \in Conn \ {c} : job'[d] = job[d]
BY WorkEffect DEF Return, Idle, At

LEMMA HandlerStep ==
  ASSUME TypeInv, NEW c \in Conn, Handler(c)
  PROVE  LockStep(c) /\ TreeStep(c) /\ \A d \in Conn \ {c} : job'[d] = job[d]
<1> USE DEF LockStep, TreeStep, InDelete, Exists
<1>1. CASE UploadsInit(c)
  BY <1>1, IdleEffect DEF UploadsInit, Running
<1>2. CASE RemoveFile(c)
  <2>1. conLock = None /\ dirs' = dirs /\ job[c].at = "remove"
    BY <1>2 DEF RemoveFile, Running
  <2>2. \A f \in File : node[f] = None => node'[f] = None
    BY <1>2 DEF RemoveFile, Disk, TypeInv, TypeOK
  <2>3. CASE Goto(c, "empty") /\ conLock' = c
    BY <2>1, <2>2, <2>3, WorkEffect, AtFields DEF Goto
  <2>4. CASE Loop(c, "delete") /\ UNCHANGED conLock
    BY <2>1, <2>2, <2>4, WorkEffect, AtFields DEF Loop
  <2> QED
    BY <1>2, <2>3, <2>4 DEF RemoveFile
<1>3. CASE DirectoryIsEmpty(c)
  <2>1. job[c].at = "empty" /\ dirs' = dirs /\ node' = node
    BY <1>3 DEF DirectoryIsEmpty, Running
  <2>2. CASE Unlock(c)
    BY <2>1, <2>2, WorkEffect, AtFields DEF Unlock, Loop
  <2>3. CASE /\ Goto(c, "removeall") /\ UNCHANGED conLock
             /\ \A f \in File : DirOf[f] = DirOf[job[c].file] => ~Exists(f)
    BY <2>1, <2>3, WorkEffect, AtFields DEF Goto
  <2> QED
    BY <1>3, <2>2, <2>3 DEF DirectoryIsEmpty
<1>4. CASE RemoveAll(c)
  <2>1. job[c].at = "removeall" /\ Unlock(c)
    BY <1>4 DEF RemoveAll, Running
  <2>2. conLock' = None /\ job'[c].at = "delete" /\ \A d \in Conn \ {c} : job'[d] = job[d]
    BY <2>1, WorkEffect, AtFields DEF Unlock, Loop
  <2>3. \A f \in File : node[f] = None => node'[f] = None
    BY <1>4 DEF RemoveAll, Disk
  <2>4. \A f \in File : DirOf[f] \in dirs \ dirs' => DirOf[f] = DirOf[job[c].file]
    BY <1>4 DEF RemoveAll
  <2> QED
    BY <2>1, <2>2, <2>3, <2>4
<1>5. CASE ListFile(c)
  BY <1>5, WorkEffect, AtFields DEF ListFile, Running, Goto
<1>6. CASE Listed(c)
  BY <1>6, WorkEffect, AtFields DEF Listed, Running, Goto
<1>7. CASE EndLoop(c)
  BY <1>7, IdleEffect DEF EndLoop
<1>8. CASE NextFile(c)
  <2>1. PICK f \in job[c].todo : Work(c, At("remove", f, job[c].flag, job[c].todo \ {f}))
    BY <1>8 DEF NextFile
  <2> QED
    BY <1>8, <2>1, WorkEffect, AtFields DEF NextFile, Running
<1>9. CASE NextType(c)
  <2>1. PICK d \in job[c].todo : Work(c, At("listfile", None, FALSE, job[c].todo \ {d}))
    BY <1>9 DEF NextType
  <2> QED
    BY <1>9, <2>1, WorkEffect DEF NextType, Running, At
<1> QED
  BY <1>1, <1>2, <1>3, <1>4, <1>5, <1>6, <1>7, <1>8, <1>9 DEF Handler

LEMMA CallbackStep ==
  ASSUME TypeInv, NEW c \in Conn, Callback(c)
  PROVE  LockStep(c) /\ TreeStep(c) /\ \A d \in Conn \ {c} : job'[d] = job[d]
<1> USE DEF LockStep, TreeStep, InDelete, Exists
<1>0. Idle.at = "idle" /\ (job[c] = Idle => job[c].at = "idle")
  BY DEF Idle, At
<1>1. CASE Open(c) \/ Error(c) \/ Reuse(c) \/ Rejected(c)
  <2>1. UNCHANGED <<job, locks, dirs, node>> /\ job[c].at # "removeall"
    BY <1>0, <1>1 DEF Open, Error, Reuse, Rejected, Start
  <2> QED
    BY <2>1
<1>2. CASE Close(c)
  <2>1. UNCHANGED <<job, locks, dirs, node>> /\ job[c].at = "idle"
    BY <1>0, <1>2, CloseStreamType DEF Close, TypeInv
  <2> QED
    BY <2>1
<1>3. CASE Prepare(c)
  <2>1. UNCHANGED <<locks, dirs, node>> /\ job[c].at = "idle"
    BY <1>0, <1>3 DEF Prepare, Start
  <2>2. CASE UNCHANGED job
    BY <2>1, <2>2
  <2>3. ASSUME NEW f, Work(c, At("init", f, FALSE, {}))
        PROVE  job'[c].at = "init" /\ \A d \in Conn \ {c} : job'[d] = job[d]
    BY <2>3, WorkEffect DEF At
  <2> QED
    BY <1>3, <2>1, <2>2, <2>3 DEF Prepare
<1>4. CASE WriteData(c)
  <2>1. UNCHANGED <<job, locks, dirs, node>> /\ job[c].at = "idle"
    BY <1>0, <1>4, AddDataType DEF WriteData, Start, TypeInv
  <2> QED
    BY <2>1
<1>5. CASE RenameFile(c)
  BY <1>0, <1>5 DEF RenameFile, Start
<1>6. CASE DeleteStart(c)
  <2>1. PICK F, o : Work(c, At("delete", None, o, F))
    BY <1>6 DEF DeleteStart
  <2> QED
    BY <1>0, <1>6, <2>1, WorkEffect, AtFields DEF DeleteStart, Start
<1>7. CASE ListStart(c)
  <2>1. PICK D : Work(c, At("list", None, FALSE, D))
    BY <1>7 DEF ListStart
  <2> QED
    BY <1>0, <1>7, <2>1, WorkEffect DEF ListStart, Start, At
<1> QED
  BY <1>1, <1>2, <1>3, <1>4, <1>5, <1>6, <1>7 DEF Callback

LEMMA LockNext ==
  ASSUME TypeInv, LockInv, EmptyInv, [Next]_vars
  PROVE  LockInv' /\ EmptyInv'
<1>1. ASSUME NEW c \in Conn, Handler(c) \/ Callback(c)
      PROVE  LockInv' /\ EmptyInv'
  <2>1. LockStep(c) /\ TreeStep(c) /\ \A d \in Conn \ {c} : job'[d] = job[d]
    BY <1>1, HandlerStep, CallbackStep
  <2>2. LockInv'
    BY <2>1, NoneAssumption DEF LockStep, LockInv, InDelete
  <2>3. ASSUME NEW d \in Conn, job'[d].at = "removeall",
               NEW f \in File, DirOf[f] = DirOf[job'[d].file]
        PROVE  ~Exists(f)'
    <3>1. CASE d = c
      BY <2>1, <2>3, <3>1 DEF TreeStep
    <3>2. CASE d # c
      <4>1. job[d].at = "removeall" /\ job[d].file = job'[d].file
        BY <2>1, <2>3, <3>2
      <4>2. conLock = d /\ conLock # None
        BY <4>1, NoneAssumption DEF LockInv, InDelete
      <4> QED
        BY <2>1, <2>3, <4>1, <4>2 DEF TreeStep, EmptyInv
    <3> QED
      BY <3>1, <3>2
  <2> QED
    BY <2>2, <2>3 DEF EmptyInv
<1>2. CASE UNCHANGED vars
  BY <1>2 DEF LockInv, EmptyInv, InDelete, Exists
<1> QED
  BY <1>1, <1>2 DEF Next

\* remove_all never takes a file with it.
THEOREM OnlyEmptyRemovedCorrect == Spec => OnlyEmptyRemoved
<1> DEFINE Step == \A f \in File : DirOf[f] \in dirs \ dirs' => ~Exists(f)
<1>1. Init => LockInv /\ EmptyInv
  <2>1. Idle.at = "idle"
    BY DEF Idle, At
  <2> QED
    BY <2>1, NoneAssumption DEF Init, LockInv, EmptyInv, InDelete
<1>2. TypeInv /\ LockInv /\ EmptyInv /\ [Next]_vars => TypeInv' /\ LockInv' /\ EmptyInv'
  BY TypeNext, LockNext
<1>3. TypeInv /\ EmptyInv /\ [Next]_vars => [Step]_vars
  <2> SUFFICES ASSUME TypeInv, EmptyInv, NEW c \in Conn, Handler(c) \/ Callback(c)
               PROVE  Step
    BY DEF Next
  <2>1. TreeStep(c)
    BY HandlerStep, CallbackStep
  <2> QED
    BY <2>1 DEF TreeStep, EmptyInv
<1> QED
  BY <1>1, <1>2, <1>3, TypeInit, PTL DEF Spec, OnlyEmptyRemoved


-----------------------------------------------------------------------------
\* Whose uploads are open.  A handler at work has a live connection, so what
\* it opens belongs to one.
OwnerInv == (\A c \in Conn : job[c].at # "idle" => Live(c)) /\ EntryBelongs

\* What a step of c does to the uploads, beside the callbacks of c.
OwnerStep(c) ==
  /\ \A d \in Conn \ {c} : job'[d] = job[d] /\ called'[d] = called[d] /\ uploads'[d] = uploads[d]
  /\ \/ /\ called'[c] = called[c] \/ Live(c)'
        /\ job'[c].at # "idle" => job[c].at # "idle" \/ Live(c)'
        /\ \/ uploads'[c].open = uploads[c].open /\ uploads'[c].orphan = uploads[c].orphan
           \/ Live(c)'
     \/ job'[c].at = "idle" /\ (uploads'[c].open => uploads'[c].orphan)
     \/ /\ job'[c].at = "idle" /\ ~Live(c)
        /\ uploads'[c].open = uploads[c].open /\ uploads'[c].orphan = uploads[c].orphan

LEMMA CalledStep ==
  ASSUME TypeInv, NEW c \in Conn,
         Callbacks!Open(c) \/ Callbacks!Message(c) \/ Callbacks!Close(c) \/ Callbacks!Error(c)
           \/ Callbacks!Reuse(c)
  PROVE  /\ \A d \in Conn \ {c} : called'[d] = called[d]
         /\ Callbacks!Open(c) \/ Callbacks!Message(c) => Live(c)'
         /\ Callbacks!Reuse(c) => ~Live(c)
BY DEF TypeInv, TypeOK, Live, Callbacks!Live, Callbacks!Open, Callbacks!Message, Callbacks!Close,
       Callbacks!Error, Callbacks!Reuse

LEMMA HandlerOwner ==
  ASSUME TypeInv, OwnerInv, NEW c \in Conn, Handler(c)
  PROVE  OwnerStep(c)
<1> USE DEF OwnerStep
<1>1. called' = called /\ \A d \in Conn \ {c} : job'[d] = job[d]
  BY HandlerStep DEF Handler, UploadsInit, NextFile, RemoveFile, DirectoryIsEmpty, RemoveAll,
     NextType, ListFile, Listed, EndLoop, Running
<1>2. job[c].at # "idle"
  BY DEF Handler, UploadsInit, NextFile, RemoveFile, DirectoryIsEmpty, RemoveAll, NextType,
         ListFile, Listed, EndLoop, Running
<1>3. Live(c)' /\ Live(c)
  BY <1>1, <1>2 DEF OwnerInv, Live, Callbacks!Live
<1>4. \A d \in Conn \ {c} : uploads'[d] = uploads[d]
  <2>1. CASE UploadsInit(c)
    BY <2>1 DEF UploadsInit, OpenStream, Disk, TypeInv, TypeOK
  <2>2. CASE ~UploadsInit(c)
    BY <2>2 DEF Handler, NextFile, RemoveFile, DirectoryIsEmpty, RemoveAll, NextType, ListFile,
       Listed, EndLoop, Disk
  <2> QED
    BY <2>1, <2>2
<1> QED
  BY <1>1, <1>3, <1>4, SMTT(30)

LEMMA CallbackOwner ==
  ASSUME TypeInv, OwnerInv, NEW c \in Conn, Callback(c)
  PROVE  OwnerStep(c)
<1> USE DEF OwnerStep
<1>0. /\ \A d \in Conn \ {c} : job'[d] = job[d]
      /\ Idle.at = "idle" /\ (job[c] = Idle => job[c].at = "idle")
  BY CallbackStep DEF Idle, At
<1>1. CASE Open(c)
  BY <1>0, <1>1, CalledStep DEF Open
<1>2. CASE Close(c)
  <2>1. /\ \A d \in Conn \ {c} : called'[d] = called[d]
        /\ job' = job /\ job[c].at = "idle"
    BY <1>0, <1>2, CalledStep DEF Close
  <2>2. CASE uploads[c].open /\ CloseStream(c)
    <3>1. uploads' = [uploads EXCEPT ![c] = NoUpload]
      BY <2>2, CloseStreamType DEF TypeInv
    <3>2. ~NoUpload.open
      BY DEF NoUpload
    <3> QED
      BY <1>0, <2>1, <3>1, <3>2 DEF TypeInv, TypeOK
  <2>3. CASE ~uploads[c].open /\ UNCHANGED files
    BY <1>0, <2>1, <2>3
  <2> QED
    BY <1>2, <2>2, <2>3 DEF Close
<1>3. CASE Error(c)
  <2>1. /\ uploads'[c].open = uploads[c].open
        /\ uploads'[c].orphan = uploads[c].open
        /\ \A d \in Conn \ {c} : uploads'[d] = uploads[d]
    BY <1>3 DEF Error, TypeInv, TypeOK, Upload
  <2>2. job' = job /\ job[c].at = "idle" /\ \A d \in Conn \ {c} : called'[d] = called[d]
    BY <1>0, <1>3, CalledStep DEF Error
  <2> QED
    BY <2>1, <2>2
<1>4. CASE Reuse(c)
  BY <1>0, <1>4, CalledStep DEF Reuse
<1>5. CASE Rejected(c) \/ Prepare(c) \/ RenameFile(c) \/ DeleteStart(c) \/ ListStart(c)
  <2>1. Callbacks!Message(c) /\ uploads' = uploads
    BY <1>5 DEF Rejected, Prepare, RenameFile, DeleteStart, ListStart, Start, Disk
  <2> QED
    BY <1>0, <2>1, CalledStep
<1>6. CASE WriteData(c)
  <2>1. Callbacks!Message(c)
    BY <1>6 DEF WriteData, Start
  <2>2. \A d \in Conn \ {c} : uploads'[d] = uploads[d]
    BY <1>6, AddDataType DEF WriteData, TypeInv, TypeOK
  <2> QED
    BY <1>0, <2>1, <2>2, CalledStep
<1> QED
  BY <1>1, <1>2, <1>3, <1>4, <1>5, <1>6 DEF Callback

LEMMA OwnerNext ==
  ASSUME TypeInv, OwnerInv, [Next]_vars
  PROVE  OwnerInv'
<1>1. ASSUME NEW c \in Conn, Handler(c) \/ Callback(c) PROVE OwnerInv'
  <2>1. OwnerStep(c)
    BY <1>1, HandlerOwner, CallbackOwner
  <2> QED
    BY <2>1 DEF OwnerStep, OwnerInv, EntryBelongs, Live, Callbacks!Live
<1>2. CASE UNCHANGED vars
  BY <1>2 DEF OwnerInv, EntryBelongs, Live, Callbacks!Live
<1> QED
  BY <1>1, <1>2 DEF Next

LEMMA OwnerInit == Init => OwnerInv
<1>1. Idle.at = "idle" /\ ~NoUpload.open
  BY DEF Idle, At, NoUpload
<1> QED
  BY <1>1 DEF Init, OwnerInv, EntryBelongs

\* An open upload belongs to the connection at its key, or to one that ended
\* in onerror.
THEOREM EntryBelongsCorrect == Spec => []EntryBelongs
<1>1. TypeInv /\ OwnerInv /\ [Next]_vars => TypeInv' /\ OwnerInv'
  BY TypeNext, OwnerNext
<1>2. OwnerInv => EntryBelongs
  BY DEF OwnerInv
<1> QED
  BY <1>1, <1>2, OwnerInit, TypeInit, PTL DEF Spec


-----------------------------------------------------------------------------
\* What the streams hold.  Two streams on one inode are shared, so a stream
\* that is not is written by its own connection only.
StreamOf(up, dt, sh, c) ==
  /\ up[c].ino # None /\ up[c].ino \notin sh =>
       dt[up[c].ino] \o Slices(up[c].buf, c) = Slices(up[c].acked, c)
  /\ \A d \in Conn \ {c} : up[c].ino # None /\ up[d].ino = up[c].ino => up[c].ino \in sh
  /\ ~up[c].open => up[c].ino = None
Streams(up, dt, sh) == \A c \in Conn : StreamOf(up, dt, sh, c)
StreamInv == Streams(uploads, data, shared)

LEMMA DiskStreams ==
  ASSUME NEW up \in [Conn -> Upload], NEW nd, NEW dt, NEW sh \in SUBSET Inode,
         Disk(up, nd, dt, sh), Streams(up, dt, sh)
  PROVE  StreamInv'
<1>1. uploads' = up
  BY DEF Disk
<1>2. ASSUME NEW c \in Conn, up[c].ino # None
      PROVE  /\ up[c].ino \in shared' <=> up[c].ino \in sh
             /\ up[c].ino \notin sh => data'[up[c].ino] = dt[up[c].ino]
  <2>1. up[c].ino \in Inode /\ Used(up[c].ino, nd, up)
    BY <1>2 DEF Upload, Used
  <2> QED
    BY <2>1 DEF Disk
<1>3. ASSUME NEW c \in Conn PROVE StreamOf(uploads', data', shared', c)
  <2>1. StreamOf(up, dt, sh, c)
    BY DEF Streams
  <2>2. CASE up[c].ino = None
    BY <1>1, <2>1, <2>2 DEF StreamOf
  <2>3. CASE up[c].ino # None
    BY <1>1, <1>2, <2>1, <2>3 DEF StreamOf
  <2> QED
    BY <2>2, <2>3
<1> QED
  BY <1>3 DEF StreamInv, Streams

LEMMA SlicesEmpty == \A c : Slices(0, c) = <<>>
<1>1. ASSUME NEW c PROVE Slices(0, c) = <<>>
  <2>1. Slices(0, c) \in [1 .. 0 -> {c}]
    BY DEF Slices
  <2>2. Slices(0, c) \in Seq({c}) /\ 1 .. 0 = {}
    BY <2>1, SeqDef
  <2>3. Len(Slices(0, c)) = 0
    BY <2>1, <2>2, LenProperties
  <2> QED
    BY <2>2, <2>3, EmptySeq
<1> QED
  BY <1>1

LEMMA ThreeParts ==
  ASSUME NEW s \in Seq(Conn), NEW t \in Seq(Conn), NEW u \in Seq(Conn)
  PROVE  (s \o t) \o u = s \o (t \o u)
BY ConcatAssociative, SMTT(30)

\* A slice that comes to the end of both.
LEMMA SliceAdded ==
  ASSUME NEW c \in Conn, NEW s \in Seq(Conn), NEW n \in Nat, NEW a \in Nat,
         s \o Slices(n, c) = Slices(a, c)
  PROVE  s \o Slices(n + 1, c) = Slices(a + 1, c)
<1>1. /\ Slices(n, c) \in Seq(Conn) /\ Slices(1, c) \in Seq(Conn)
      /\ Slices(n, c) \o Slices(1, c) = Slices(n + 1, c)
      /\ Slices(a, c) \o Slices(1, c) = Slices(a + 1, c)
  BY SlicesType, SlicesAdd
<1>2. (s \o Slices(n, c)) \o Slices(1, c) = s \o (Slices(n, c) \o Slices(1, c))
  BY <1>1, ThreeParts
<1> QED
  BY <1>1, <1>2

LEMMA CloseStreams ==
  ASSUME TypeOK, StreamInv, NEW c \in Conn, CloseStream(c)
  PROVE  StreamInv'
<1> DEFINE u == uploads[c]
           up == [uploads EXCEPT ![c] = NoUpload]
<1>1. u \in Upload /\ up \in [Conn -> Upload]
  BY UploadValues DEF TypeOK
<1>2. up[c].ino = None /\ \A d \in Conn \ {c} : up[d] = uploads[d]
  BY DEF TypeOK, NoUpload
<1>3. PICK dt \in {data, Flushed(u.ino, u.buf, c)} :
        /\ Disk(up, node, dt, shared)
        /\ dt = data \/ u.ino # None
  BY DEF CloseStream
<1>4. \A i \in Inode : i # u.ino => dt[i] = data[i]
  BY <1>3 DEF Flushed, TypeOK
<1>5. ASSUME NEW d \in Conn PROVE StreamOf(up, dt, shared, d)
  <2>1. CASE d = c
    BY <1>2, <2>1 DEF StreamOf
  <2>2. CASE d # c
    <3>1. /\ StreamOf(uploads, data, shared, d) /\ up[d] = uploads[d]
          /\ uploads[d] \in Upload /\ uploads[d].ino \in Inode \cup {None}
      BY <1>2, <2>2 DEF StreamInv, Streams, TypeOK, Upload
    <3>2. uploads[d].ino # None /\ uploads[d].ino \notin shared =>
            dt[uploads[d].ino] = data[uploads[d].ino]
      BY <1>4, <2>2, <3>1 DEF StreamOf
    <3> HIDE DEF up
    <3> QED
      BY <1>2, <3>1, <3>2 DEF StreamOf
  <2> QED
    BY <2>1, <2>2
<1>6. shared \in SUBSET Inode
  BY DEF TypeOK
<1> HIDE DEF up
<1> QED
  BY <1>1, <1>3, <1>5, <1>6, DiskStreams DEF Streams

LEMMA AddDataStreams ==
  ASSUME TypeOK, StreamInv, NEW c \in Conn, uploads[c].open, AddData(c)
  PROVE  StreamInv'
<1> DEFINE u == uploads[c]
           after(i, b) == [open |-> TRUE, ino |-> i, buf |-> b,
                           acked |-> u.acked + 1, orphan |-> u.orphan]
           put(i, b, dt) == Disk([uploads EXCEPT ![c] = after(i, b)], node, dt, shared)
           Cases(i, b, dt) ==
             \/ i = None /\ b = 0 /\ dt = data
             \/ u.ino # None /\ i = u.ino /\ b = u.buf + 1 /\ dt = data
             \/ u.ino # None /\ i = u.ino /\ b = 0 /\ dt = Flushed(u.ino, u.buf + 1, c)
<1>1. u \in Upload /\ u.buf \in Nat /\ u.acked \in Nat /\ u.ino \in Inode \cup {None}
      /\ u.orphan \in BOOLEAN
  BY DEF TypeOK, Upload
<1>2. PICK i \in {u.ino, None}, b \in Nat, dt \in [Inode -> Seq(Conn)] :
        put(i, b, dt) /\ Cases(i, b, dt)
  <2>1. \/ put(None, 0, data)
        \/ u.ino # None /\ put(u.ino, u.buf + 1, data)
        \/ u.ino # None /\ put(u.ino, 0, Flushed(u.ino, u.buf + 1, c))
    BY DEF AddData
  <2>2. /\ data \in [Inode -> Seq(Conn)] /\ u.buf + 1 \in Nat
        /\ u.ino # None => u.ino \in Inode
    BY <1>1 DEF TypeOK
  <2>3. u.ino # None => Flushed(u.ino, u.buf + 1, c) \in [Inode -> Seq(Conn)]
    BY <2>2, FlushedType
  <2> HIDE DEF u, put
  <2> QED
    BY <2>1, <2>2, <2>3
<1>3. /\ after(i, b).ino = i /\ after(i, b).buf = b /\ after(i, b).open
      /\ after(i, b).acked = u.acked + 1 /\ after(i, b) \in Upload
  BY <1>1 DEF Upload
<1> DEFINE up == [uploads EXCEPT ![c] = after(i, b)]
<1>4. /\ up \in [Conn -> Upload] /\ up[c] = after(i, b)
      /\ \A d \in Conn \ {c} : up[d] = uploads[d]
  BY <1>3 DEF TypeOK
<1>5. \A k \in Inode : k # u.ino => dt[k] = data[k]
  BY <1>2 DEF Flushed, TypeOK
<1>6. i # None => /\ i \in Inode /\ i = u.ino
                  /\ i \notin shared => dt[i] \o Slices(b, c) = Slices(u.acked + 1, c)
  <2> SUFFICES ASSUME i # None
               PROVE  /\ i \in Inode /\ i = u.ino
                      /\ i \notin shared => dt[i] \o Slices(b, c) = Slices(u.acked + 1, c)
    OBVIOUS
  <2>1. i \in Inode /\ i = u.ino /\ data[i] \in Seq(Conn)
    BY <1>1, <1>2 DEF TypeOK
  <2> SUFFICES ASSUME i \notin shared
               PROVE  dt[i] \o Slices(b, c) = Slices(u.acked + 1, c)
    BY <2>1
  <2>2. data[i] \o Slices(u.buf, c) = Slices(u.acked, c)
    BY <2>1 DEF StreamInv, Streams, StreamOf
  <2>3. data[i] \o Slices(u.buf + 1, c) = Slices(u.acked + 1, c)
    <3>1. \A s \in Seq(Conn) : \A k, m \in Nat :
            s \o Slices(k, c) = Slices(m, c) => s \o Slices(k + 1, c) = Slices(m + 1, c)
      BY SliceAdded
    <3>2. \A k, m \in Nat : data[i] \o Slices(k, c) = Slices(m, c) =>
            data[i] \o Slices(k + 1, c) = Slices(m + 1, c)
      BY <2>1, <3>1, Zenon
    <3> HIDE DEF u
    <3> QED
      BY <1>1, <2>2, <3>2, Zenon
  <2>4. CASE b = 0 /\ dt = Flushed(u.ino, u.buf + 1, c)
    <3>1. dt[i] = Slices(u.acked + 1, c)
      BY <2>1, <2>3, <2>4 DEF Flushed, TypeOK
    <3>2. dt[i] \in Seq(Conn)
      BY <1>2, <2>1
    <3> QED
      BY <2>4, <3>1, <3>2, SlicesEmpty, ConcatEmptySeq
  <2> QED
    BY <1>2, <2>1, <2>3, <2>4
<1>7. ASSUME NEW d \in Conn PROVE StreamOf(up, dt, shared, d)
  <2>0. /\ StreamOf(uploads, data, shared, d) /\ StreamOf(uploads, data, shared, c)
        /\ uploads[d].ino \in Inode \cup {None}
    BY DEF StreamInv, Streams, TypeOK, Upload
  <2> HIDE DEF up, after
  <2>1. CASE d = c
    BY <1>3, <1>4, <1>6, <2>0, <2>1 DEF StreamOf
  <2>2. CASE d # c
    <3>1. up[d] = uploads[d]
      BY <1>4, <2>2
    <3>2. uploads[d].ino # None /\ uploads[d].ino \notin shared =>
            dt[uploads[d].ino] = data[uploads[d].ino]
      BY <1>5, <2>0, <2>2 DEF StreamOf
    <3>3. ASSUME NEW e \in Conn \ {d}, uploads[d].ino # None, up[e].ino = uploads[d].ino
          PROVE  uploads[d].ino \in shared
      <4>1. uploads[e].ino = uploads[d].ino
        BY <1>3, <1>4, <1>6, <3>3
      <4> QED
        BY <2>0, <3>3, <4>1 DEF StreamOf
    <3> QED
      BY <2>0, <3>1, <3>2, <3>3 DEF StreamOf
  <2> QED
    BY <2>1, <2>2
<1>8. shared \in SUBSET Inode
  BY DEF TypeOK
<1>9. Disk(up, node, dt, shared)
  BY <1>2
<1> HIDE DEF after, up
<1> QED
  BY <1>4, <1>7, <1>8, <1>9, DiskStreams DEF Streams

\* The inode that is opened is empty, and shared if a stream is on it.
LEMMA OpenStreams ==
  ASSUME TypeOK, StreamInv, NEW c \in Conn, NEW f \in File, NEW i \in Inode, OpenStream(c, f, i)
  PROVE  StreamInv'
<1> DEFINE up == [uploads EXCEPT ![c] = IF @.open THEN @ ELSE NewUpload(i)]
           nd == [node EXCEPT ![f] = i]
           dt == [data EXCEPT ![i] = <<>>]
           sh == IF \E d \in Conn : uploads[d].ino = i THEN shared \cup {i} ELSE shared \ {i}
<1>1. up \in [Conn -> Upload] /\ sh \in SUBSET Inode /\ Disk(up, nd, dt, sh)
  BY UploadValues DEF TypeOK, OpenStream
<1>2. /\ up[c] = IF uploads[c].open THEN uploads[c] ELSE NewUpload(i)
      /\ \A d \in Conn \ {c} : up[d] = uploads[d]
      /\ dt[i] = <<>> /\ \A k \in Inode \ {i} : dt[k] = data[k]
      /\ \A k \in Inode \ {i} : k \in sh <=> k \in shared
      /\ \A d \in Conn : uploads[d].ino = i => i \in sh
  BY DEF TypeOK
<1>3. /\ NewUpload(i).ino = i /\ NewUpload(i).open
      /\ NewUpload(i).buf = 0 /\ NewUpload(i).acked = 0
  BY DEF NewUpload
<1>4. <<>> \o Slices(0, c) = Slices(0, c)
  BY SlicesEmpty, EmptySeq, ConcatEmptySeq
<1> HIDE DEF up, nd, dt, sh
<1>5. ASSUME NEW d \in Conn PROVE StreamOf(up, dt, sh, d)
  <2>0. /\ StreamOf(uploads, data, shared, d) /\ StreamOf(uploads, data, shared, c)
        /\ uploads[d].ino \in Inode \cup {None} /\ uploads[c].ino \in Inode \cup {None}
        /\ i # None
    BY NoneAssumption DEF StreamInv, Streams, TypeOK, Upload
  <2>1. CASE up[d] = uploads[d]
    <3>1. ASSUME uploads[d].ino # None, uploads[d].ino \notin sh
          PROVE  uploads[d].ino \notin shared /\ dt[uploads[d].ino] = data[uploads[d].ino]
      <4>1. uploads[d].ino \in Inode \ {i}
        BY <1>2, <2>0, <3>1
      <4> QED
        BY <1>2, <3>1, <4>1
    <3>2. ASSUME NEW e \in Conn \ {d}, uploads[d].ino # None, up[e].ino = uploads[d].ino
          PROVE  uploads[d].ino \in sh
      <4>1. CASE uploads[d].ino = i
        BY <1>2, <4>1
      <4>2. CASE uploads[d].ino # i
        <5>1. uploads[e].ino = uploads[d].ino
          BY <1>2, <1>3, <3>2, <4>2
        <5>2. uploads[d].ino \in shared
          BY <2>0, <3>2, <5>1 DEF StreamOf
        <5> QED
          BY <1>2, <2>0, <3>2, <4>2, <5>2
      <4> QED
        BY <4>1, <4>2
    <3> QED
      BY <2>0, <2>1, <3>1, <3>2 DEF StreamOf
  <2>2. CASE d = c /\ up[c] = NewUpload(i)
    BY <1>2, <1>3, <1>4, <2>0, <2>2, ZenonT(40) DEF StreamOf
  <2> QED
    BY <1>2, <2>1, <2>2
<1> QED
  BY <1>1, <1>5, DiskStreams DEF Streams

LEMMA SameStreams ==
  ASSUME TypeOK, StreamInv, NEW nd, Disk(uploads, nd, data, shared)
  PROVE  StreamInv'
<1>1. uploads \in [Conn -> Upload] /\ shared \in SUBSET Inode
  BY DEF TypeOK
<1> QED
  BY <1>1, DiskStreams DEF StreamInv

\* A stream without an inode says nothing of the disk.
LEMMA NoStream ==
  ASSUME TypeOK, StreamInv, NEW c \in Conn, UNCHANGED <<data, shared>>,
         \A d \in Conn \ {c} : uploads'[d] = uploads[d],
         \/ uploads'[c].ino = None
         \/ /\ uploads'[c].ino = uploads[c].ino /\ uploads'[c].buf = uploads[c].buf
            /\ uploads'[c].acked = uploads[c].acked
            /\ uploads'[c].open = uploads[c].open
  PROVE  StreamInv'
<1>1. ASSUME NEW d \in Conn PROVE StreamOf(uploads', data', shared', d)
  <2>1. StreamOf(uploads, data, shared, d)
    BY DEF StreamInv, Streams
  <2>2. CASE d = c
    BY <2>1, <2>2 DEF StreamOf
  <2>3. CASE d # c
    <3>1. ASSUME NEW e \in Conn \ {d}, uploads[d].ino # None, uploads'[e].ino = uploads[d].ino
          PROVE  uploads[e].ino = uploads[d].ino
      BY <3>1
    <3>2. uploads'[d] = uploads[d]
      BY <2>3
    <3> QED
      BY <2>1, <3>1, <3>2 DEF StreamOf
  <2> QED
    BY <2>2, <2>3
<1> QED
  BY <1>1 DEF StreamInv, Streams

LEMMA StreamNext ==
  ASSUME TypeInv, StreamInv, [Next]_vars
  PROVE  StreamInv'
<1>0. TypeOK
  BY DEF TypeInv
<1>1. ASSUME NEW c \in Conn, Handler(c) PROVE StreamInv'
  <2>1. CASE UploadsInit(c)
    <3>0. job[c].file \in File
      BY <2>1 DEF UploadsInit, Running, TypeInv, JobInv, AtFile
    <3>1. CASE \E i \in Inode : OpenStream(c, job[c].file, i)
      BY <1>0, <3>0, <3>1, OpenStreams
    <3>2. CASE /\ uploads' = [uploads EXCEPT ![c] = IF @.open THEN @ ELSE NewUpload(None)]
               /\ UNCHANGED <<node, data, shared>>
      <4>1. \A d \in Conn \ {c} : uploads'[d] = uploads[d]
        BY <1>0, <3>2 DEF TypeOK
      <4>2. uploads'[c] = IF uploads[c].open THEN uploads[c] ELSE NewUpload(None)
        BY <1>0, <3>2 DEF TypeOK
      <4>3. NewUpload(None).ino = None
        BY DEF NewUpload
      <4> QED
        BY <1>0, <3>2, <4>1, <4>2, <4>3, NoStream
    <3>3. CASE UNCHANGED files
      BY <3>3 DEF StreamInv, Streams, StreamOf
    <3> QED
      BY <2>1, <3>1, <3>2, <3>3 DEF UploadsInit
  <2>2. CASE UNCHANGED files
    BY <2>2 DEF StreamInv, Streams, StreamOf
  <2>3. CASE RemoveFile(c) \/ RemoveAll(c)
    <3>1. UNCHANGED files \/ \E nd : Disk(uploads, nd, data, shared)
      BY <2>3 DEF RemoveFile, RemoveAll
    <3> QED
      BY <1>0, <2>2, <3>1, SameStreams
  <2>4. CASE NextFile(c) \/ DirectoryIsEmpty(c) \/ NextType(c) \/ ListFile(c) \/ Listed(c)
             \/ EndLoop(c)
    BY <2>2, <2>4 DEF NextFile, DirectoryIsEmpty, NextType, ListFile, Listed, EndLoop
  <2> QED
    BY <1>1, <2>1, <2>3, <2>4 DEF Handler
<1>2. ASSUME NEW c \in Conn, Callback(c) PROVE StreamInv'
  <2>1. CASE UNCHANGED files
    BY <2>1 DEF StreamInv, Streams, StreamOf
  <2>2. CASE Close(c)
    BY <1>0, <2>1, <2>2, CloseStreams DEF Close
  <2>3. CASE Error(c)
    <3>1. /\ \A d \in Conn \ {c} : uploads'[d] = uploads[d]
          /\ uploads'[c].ino = uploads[c].ino /\ uploads'[c].buf = uploads[c].buf
          /\ uploads'[c].acked = uploads[c].acked /\ uploads'[c].open = uploads[c].open
          /\ UNCHANGED <<data, shared>>
      BY <1>0, <2>3 DEF Error, TypeOK, Upload
    <3> QED
      BY <1>0, <3>1, NoStream
  <2>4. CASE WriteData(c)
    BY <1>0, <2>1, <2>4, AddDataStreams DEF WriteData
  <2>5. CASE RenameFile(c)
    <3>1. UNCHANGED files \/ \E nd : Disk(uploads, nd, data, shared)
      BY <2>5 DEF RenameFile
    <3> QED
      BY <1>0, <2>1, <3>1, SameStreams
  <2>6. CASE Open(c) \/ Reuse(c) \/ Rejected(c) \/ Prepare(c) \/ DeleteStart(c) \/ ListStart(c)
    BY <2>1, <2>6 DEF Open, Reuse, Rejected, Prepare, DeleteStart, ListStart
  <2> QED
    BY <1>2, <2>2, <2>3, <2>4, <2>5, <2>6 DEF Callback
<1>3. CASE UNCHANGED vars
  BY <1>3 DEF StreamInv, Streams, StreamOf
<1> QED
  BY <1>1, <1>2, <1>3 DEF Next

LEMMA StreamInit == Init => StreamInv
<1>1. NoUpload.ino = None
  BY DEF NoUpload
<1> QED
  BY <1>1 DEF Init, StreamInv, Streams, StreamOf

\* The file of an upload and its buffer hold the slices acknowledged to it.
THEOREM UploadIntactCorrect == Spec => []UploadIntact
<1>1. StreamInv => UploadIntact
  BY DEF StreamInv, Streams, StreamOf, UploadIntact
<1>2. TypeInv /\ StreamInv /\ [Next]_vars => TypeInv' /\ StreamInv'
  BY TypeNext, StreamNext
<1> QED
  BY <1>1, <1>2, StreamInit, TypeInit, PTL DEF Spec

\* Nothing but onclose ends an upload.
LEMMA OnlyCloseEnds ==
  ASSUME TypeInv, OwnerInv, NEW d \in Conn, Handler(d) \/ Callback(d),
         NEW c \in Conn, uploads[c].open, ~uploads'[c].open
  PROVE  Close(c)
<1>1. d = c
  <2>1. OwnerStep(d)
    BY HandlerOwner, CallbackOwner
  <2> QED
    BY <2>1 DEF OwnerStep
<1>2. SUFFICES ASSUME ~Close(c) PROVE uploads'[c].open
  OBVIOUS
<1>3. CASE UploadsInit(c)
  <2>1. CASE \E i \in Inode : OpenStream(c, job[c].file, i)
    BY <2>1 DEF OpenStream, Disk, TypeInv, TypeOK
  <2>2. CASE uploads' = [uploads EXCEPT ![c] = IF @.open THEN @ ELSE NewUpload(None)]
    BY <2>2 DEF TypeInv, TypeOK
  <2> QED
    BY <1>3, <2>1, <2>2 DEF UploadsInit
<1>4. CASE WriteData(c)
  <2>1. PICK v \in Upload : uploads' = [uploads EXCEPT ![c] = v] /\ v.open = uploads[c].open
    BY <1>4, AddDataType DEF WriteData, TypeInv
  <2> QED
    BY <2>1 DEF TypeInv, TypeOK
<1>5. CASE Error(c)
  BY <1>5 DEF Error, TypeInv, TypeOK, Upload
<1>6. CASE uploads' = uploads
  BY <1>6
<1>7. UploadsInit(c) \/ WriteData(c) \/ Error(c) \/ uploads' = uploads
  BY <1>1, <1>2 DEF Handler, Callback, NextFile, RemoveFile, DirectoryIsEmpty, RemoveAll,
     NextType, ListFile, Listed, EndLoop, Open, Reuse, Rejected, Prepare, RenameFile, DeleteStart, ListStart, Disk
<1> QED
  BY <1>3, <1>4, <1>5, <1>6, <1>7

\* As long as the file system refuses nothing, onclose stores what was
\* acknowledged.
THEOREM ClosedUploadIsStoredCorrect ==
  ASSUME ~MayFail PROVE Spec => ClosedUploadIsStored
<1> DEFINE Stored(c) ==
      uploads[c].ino # None /\ uploads[c].ino \notin shared /\ ~uploads'[c].open =>
        \A f \in File : node[f] = uploads[c].ino =>
          data'[uploads[c].ino] = Slices(uploads[c].acked, c)
<1>1. TypeInv /\ OwnerInv /\ StreamInv /\ [Next]_vars => [\A c \in Conn : Stored(c)]_vars
  <2> SUFFICES ASSUME TypeInv, OwnerInv, StreamInv, NEW d \in Conn, Handler(d) \/ Callback(d),
                      NEW c \in Conn, uploads[c].ino # None, uploads[c].ino \notin shared,
                      ~uploads'[c].open, NEW f \in File, node[f] = uploads[c].ino
               PROVE  data'[uploads[c].ino] = Slices(uploads[c].acked, c)
    BY DEF Next
  <2> DEFINE i == uploads[c].ino
             up == [uploads EXCEPT ![c] = NoUpload]
             dt == Flushed(i, uploads[c].buf, c)
  <2>1. StreamOf(uploads, data, shared, c) /\ i \in Inode
    BY DEF StreamInv, Streams, TypeInv, TypeOK, Upload
  <2>2. uploads[c].open
    BY <2>1 DEF StreamOf
  <2>3. Disk(up, node, dt, shared)
    BY <2>2, OnlyCloseEnds DEF Close, CloseStream
  <2>4. data'[i] = dt[i]
    BY <2>1, <2>3 DEF Disk, Used
  <2>5. dt[i] = data[i] \o Slices(uploads[c].buf, c)
    BY <2>1 DEF Flushed, TypeInv, TypeOK
  <2> QED
    BY <2>1, <2>4, <2>5 DEF StreamOf
<1>2. TypeInv /\ OwnerInv /\ StreamInv /\ [Next]_vars => TypeInv' /\ OwnerInv' /\ StreamInv'
  BY TypeNext, OwnerNext, StreamNext
<1>3. Init => TypeInv /\ OwnerInv /\ StreamInv
  BY TypeInit, OwnerInit, StreamInit
<1> QED
  BY <1>1, <1>2, <1>3, PTL DEF Spec, ClosedUploadIsStored
=============================================================================
