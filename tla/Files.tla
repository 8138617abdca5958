------------------------------- MODULE Files -------------------------------
(***************************************************************************)
(* Files: the descriptor tables of the tasks (src/src/fs/fd.c), the open,  *)
(* read and close calls (src/src/fs/open.c, read.c, src/src/syscalls.c),   *)
(* what main() and kernel_task() do with files (src/src/kernel.c), and the *)
(* ramdisk they reach, built from a directory of the host (Ramdisk).  A    *)
(* task touches only its own table, so each call is one step.              *)
(***************************************************************************)
EXTENDS Ramdisk

CONSTANTS
  Task,
  Loaded,     \* tasks that start as kernel threads; the others are forked
  NFds,       \* descriptors a bitmap has bits for: 8 * (127 / 8)
  Zeroed,     \* entries of the file array that init_fd_table() clears
  Stale,      \* flags that recycled heap memory may hold in the others
  Host,       \* directories of the host that an image is built from
  Path,       \* the paths opened, as sequences of names
  ConfigPath, \* "/config/config.txt"
  TimerPath,  \* "/dev/timer"
  TimerId,    \* its file_id, 255
  ReadSize    \* sizes given to read()

Fd == 0 .. NFds - 1

ASSUME FilesAssumption ==
  /\ Loaded \subseteq Task
  /\ NFds \in Nat /\ Zeroed \in Nat /\ TimerId \in Nat
  /\ Stale \subseteq {0, 1}
  /\ \A h \in Host : IsHost(h) /\ Cardinality(DOMAIN h) <= TimerId
  /\ {TimerPath, ConfigPath} \subseteq Path
  /\ ReadSize \subseteq Nat

VARIABLES
  host,      \* the directory the image was built from
  img,       \* the image
  boot,      \* how far main() is: "mount", "list", "open", "read", "done"
  listing,   \* the last rdfs_readdir(): [node, ids]
  config,    \* file_t of main(), reading ConfigPath
  printed,   \* what main() has printed of it
  got,       \* the read by a task just before: [node, all, size, bytes], all
             \* if it wants the whole file
  table,     \* task_struct.fd_table: bitmap as the set of its bits, and file;
             \* alloc tells whether the pointers are set
  life,      \* "absent", "alive" or "zombie"
  opened     \* the host's node at the path a descriptor was opened with, for
             \* the properties

tables == <<table, life, opened>>
mount  == <<host, img, boot, listing, config, printed>>
vars   == <<mount, got, tables>>

\* What rdfs_file_get_id_from_path() may return, and the node of the host's
\* directory at the same path; NoFile if there is none.
IdsOf(p) == rdfs_file_get_id_from_path(img, p)
NodeAt(p) == NodeIn(host, p)

NoRead  == [node |-> NoFile, all |-> FALSE, size |-> 0, bytes |-> <<>>]
NoList  == [node |-> Root, ids |-> <<Wild>>]
Closed  == [file_id |-> 0, index |-> 0, flags |-> 0]
NoTable == [alloc |-> FALSE, bitmap |-> {}, file |-> [f \in Fd |-> Closed]]

TimerNode == -2

\* The file_t of a file just found: reading starts at its first byte.
rdfs_open_file_id(id) == [Closed EXCEPT !.file_id = id]

Mut_Advanced(file, size) == file

\* index += size, of the file_t the caller passed.
Advanced(file, size) == [file EXCEPT !.index = @ + size]

-----------------------------------------------------------------------------
(***************************************************************************)
(* fd.c.                                                                   *)
(***************************************************************************)
\* init_fd_table(): the sizeof of a pointer clears a third of the file array.  Of
\* what the heap left in the rest, the flags matter; file_id and index are taken to
\* be 0.
init_fd_table ==
  {[alloc |-> TRUE, bitmap |-> {},
    file  |-> [f \in Fd |-> IF f < Zeroed THEN Closed
                                          ELSE [Closed EXCEPT !.flags = s[f]]]] :
     s \in [Fd -> Stale]}

Mut_create_fd(tab, file) ==
  LET fd == Cardinality(tab.bitmap)
  IN  IF fd = NFds THEN [tab |-> tab, fd |-> -1]
      ELSE [tab |-> [tab EXCEPT !.bitmap = @ \cup {fd},
                                !.file[fd] = [file EXCEPT !.flags = 1]],
            fd  |-> fd]

Mut_create_fd_past_end(tab, file) ==
  LET Clear == (0 .. NFds) \ tab.bitmap
      fd    == CHOOSE f \in Clear : \A g \in Clear : f <= g
  IN  [tab |-> [tab EXCEPT !.bitmap = @ \cup {fd},
                           !.file[fd] = [file EXCEPT !.flags = 1]],
       fd  |-> fd]

Mut_create_fd_no_flag(tab, file) ==
  LET Clear == Fd \ tab.bitmap
      fd    == CHOOSE f \in Clear : \A g \in Clear : f <= g
  IN  IF Clear = {} THEN [tab |-> tab, fd |-> -1]
      ELSE [tab |-> [tab EXCEPT !.bitmap = @ \cup {fd}, !.file[fd] = file], fd |-> fd]

\* create_fd(): takes the lowest clear bit; returns -1 if there is none.
create_fd(tab, file) ==
  LET Clear == Fd \ tab.bitmap
      fd    == CHOOSE f \in Clear : \A g \in Clear : f <= g
  IN  IF Clear = {} THEN [tab |-> tab, fd |-> -1]
      ELSE [tab |-> [tab EXCEPT !.bitmap = @ \cup {fd},
                                !.file[fd] = [file EXCEPT !.flags = 1]],
            fd  |-> fd]

Mut_delete_fd(tab, fd) ==
  [tab EXCEPT !.bitmap = @ \ {fd}, !.file[fd].file_id = 0, !.file[fd].index = 0]

delete_fd(tab, fd) == [tab EXCEPT !.bitmap = @ \ {fd}, !.file[fd] = Closed]

is_valid_fd(tab, fd) == tab.file[fd].flags > 0

-----------------------------------------------------------------------------
(***************************************************************************)
(* main() before the tasks exist.                                          *)
(***************************************************************************)
Init ==
  /\ host \in Host /\ img = genRamDisk(host)
  /\ boot = "mount"
  /\ listing = NoList
  /\ config = Closed
  /\ printed = <<>>
  /\ got = NoRead
  /\ table = [t \in Task |-> NoTable]
  /\ life = [t \in Task |-> IF t \in Loaded THEN "alive" ELSE "absent"]
  /\ opened = [t \in Task |-> [f \in Fd |-> NoFile]]

\* rdfs_init().  An image without the magic number leaves null pointers behind,
\* which main() does not notice: no step.
Mount ==
  /\ boot = "mount" /\ rdfs_init(img)
  /\ boot' = "list"
  /\ UNCHANGED <<host, img, listing, config, printed, got, tables>>

\* rdfs_readdir(), for any paths: main() lists a file and a directory.
ListDir(p) ==
  \E id \in IdsOf(p) \ {Wild} :
    /\ boot = "list" /\ boot' \in {"list", "open"}
    /\ listing' = [node |-> NodeAt(p),
                   ids |-> IF id = NoFile THEN <<>> ELSE rdfs_readdir_id(img, id)]
    /\ UNCHANGED <<host, img, config, printed, got, tables>>

OpenConfig ==
  \E id \in IdsOf(ConfigPath) :
    /\ boot = "open" /\ boot' = IF id = NoFile THEN "done" ELSE "read"
    /\ config' = IF id = NoFile THEN config ELSE rdfs_open_file_id(id)
    /\ listing' = NoList
    /\ UNCHANGED <<host, img, printed, got, tables>>

\* while(rdfs_read_file(&f, buf, 1)) printf("%c", *buf);
ReadConfig ==
  LET r == rdfs_read_file(img, config, 1)
  IN  /\ boot = "read" /\ boot' = IF r.size = 0 THEN "done" ELSE "read"
      /\ config' = Advanced(config, r.size)
      /\ printed' = printed \o r.bytes
      /\ UNCHANGED <<host, img, listing, got, tables>>

-----------------------------------------------------------------------------
(***************************************************************************)
(* kernel_task(), the system calls, and what fork and exit do to the       *)
(* tables.                                                                 *)
(***************************************************************************)
Alive(t) == boot = "done" /\ life[t] = "alive"

\* kernel_task(), before the task is a user program that opens files: the size
\* by rdfs_getattr(), then the whole file in one read.  elf_load() is in Paging.
LoadProgram(t, p) ==
  \E id \in IdsOf(p) \ {NoFile, Wild} :
    /\ Alive(t) /\ t \in Loaded /\ ~table[t].alloc
    /\ LET size == rdfs_getattr_size(img, id)
       IN  got' = [node |-> NodeAt(p), all |-> TRUE, size |-> size,
                   bytes |-> rdfs_read_file(img, rdfs_open_file_id(id), size).bytes]
    /\ UNCHANGED <<mount, tables>>

\* vfs_open().  A path that is not found is answered by 0; the table has been
\* allocated by then.
Open(t, p) ==
  LET Ids == IF p = TimerPath THEN {TimerId} ELSE IdsOf(p)
  IN  /\ Alive(t)
      /\ \E tab \in IF table[t].alloc THEN {table[t]} ELSE init_fd_table :
         \E id \in Ids :
           LET r == create_fd(tab, rdfs_open_file_id(id))
           IN  IF id = NoFile \/ r.fd = -1
                 THEN /\ table' = [table EXCEPT ![t] = tab]
                      /\ UNCHANGED opened
                 ELSE /\ table' = [table EXCEPT ![t] = r.tab]
                      /\ opened' = [opened EXCEPT ![t][r.fd] =
                                      IF p = TimerPath THEN TimerNode ELSE NodeAt(p)]
      /\ got' = NoRead
      /\ UNCHANGED <<mount, life>>

\* syscall_read() and vfs_read(), on a copy of the table's file_t: the index that
\* rdfs_read_file() advances is the copy's, and the table is not written.
\* "/dev/timer" copies the four bytes of the counter, whatever the size.  There is
\* no upper bound on fd in the code either; what lies behind the table is outside
\* the model, which takes descriptors of the table only.
Read(t, fd, n) ==
  LET file  == table[t].file[fd]
      bytes == IF file.file_id = TimerId THEN <<0, 0, 0, 0>>
                                         ELSE rdfs_read_file(img, file, n).bytes
  IN  /\ Alive(t) /\ table[t].alloc
      /\ is_valid_fd(table[t], fd)
      /\ got' = [node |-> opened[t][fd], all |-> FALSE, size |-> n, bytes |-> bytes]
      /\ UNCHANGED <<mount, tables>>

\* syscall_close(): any descriptor of the table, open or not.  The code does not
\* test that fd is one: behind the arrays it would clear memory of the heap.
Close(t, fd) ==
  /\ Alive(t) /\ table[t].alloc
  /\ table' = [table EXCEPT ![t] = delete_fd(@, fd)]
  /\ opened' = [opened EXCEPT ![t][fd] = NoFile]
  /\ got' = NoRead
  /\ UNCHANGED <<mount, life>>

\* kernel_fork() gives the child no table.
Fork(t, c) ==
  /\ Alive(t) /\ life[c] = "absent"
  /\ life' = [life EXCEPT ![c] = "alive"]
  /\ table' = [table EXCEPT ![c] = NoTable]
  /\ got' = NoRead
  /\ UNCHANGED <<mount, opened>>

\* exit_task(): destroy_fd_table() frees the arrays and keeps the pointers.
Exit(t) ==
  /\ Alive(t)
  /\ life' = [life EXCEPT ![t] = "zombie"]
  /\ table' = [table EXCEPT ![t] = [NoTable EXCEPT !.alloc = table[t].alloc]]
  /\ opened' = [opened EXCEPT ![t] = [f \in Fd |-> NoFile]]
  /\ got' = NoRead
  /\ UNCHANGED mount

Next ==
  \/ Mount \/ OpenConfig \/ ReadConfig
  \/ \E p \in Path : ListDir(p)
  \/ \E t \in Task :
       \/ \E p \in Path : LoadProgram(t, p) \/ Open(t, p)
       \/ \E fd \in Fd : Close(t, fd) \/ \E n \in ReadSize : Read(t, fd, n)
       \/ \E c \in Task : Fork(t, c)
       \/ Exit(t)

Spec == Init /\ [][Next]_vars
-----------------------------------------------------------------------------
(***************************************************************************)
(* Properties.                                                             *)
(***************************************************************************)

\* Types of the tables and of what the properties record.
TypeOK ==
  /\ boot \in {"mount", "list", "open", "read", "done"}
  /\ config.file_id \in EntryId(img) /\ config.index \in Nat
  /\ \A t \in Task :
       /\ table[t].alloc \in BOOLEAN
       /\ table[t].bitmap \subseteq Fd
       /\ table[t].file \in [Fd -> [file_id : EntryId(img) \cup {TimerId},
                                    index : Nat, flags : {0, 1}]]
  /\ life \in [Task -> {"absent", "alive", "zombie"}]
  /\ opened \in [Task -> [Fd -> DOMAIN host \cup {NoFile, TimerNode}]]

\* Descriptors that is_valid_fd() takes for open though create_fd() may still allot
\* them, or the other way round.
Strays(t) == {fd \in Fd : ~(fd \in table[t].bitmap <=> is_valid_fd(table[t], fd))}

\* The bitmap, from which create_fd() allots descriptors, and the flags, by
\* which is_valid_fd() recognises them, agree on every descriptor that
\* init_fd_table() cleared, and an open one is valid wherever it lies, whatever was
\* opened and closed before.  In the two thirds of the array that are not cleared,
\* recycled memory can look open.
BitmapMatchesFlags ==
  \A t \in Task : life[t] = "alive" =>
    \A fd \in Strays(t) : fd >= Zeroed /\ fd \notin table[t].bitmap

\* Such strays come from init_fd_table() alone: no open, read or close of any task
\* makes one in a table that exists, a descriptor in use included.
NoNewStrays ==
  [][\A t \in Task :
       table[t].alloc /\ life'[t] = "alive" => Strays(t)' \subseteq Strays(t)]_vars

IsRegular(n) == n \in DOMAIN host /\ ~host[n].dir

\* What the lookup of a path finds in the image is the host's node at that path
\* ("get list of ids in current directory", rdfs_file_get_id_from_path()): its
\* name, kind and size and, where the entry says they are, the bytes of a file
\* or the words with the ids of a directory's children.
ImageHoldsHost ==
  /\ Cardinality(DOMAIN img.entries) = Cardinality(DOMAIN host)
  /\ img.file_directory_size = Cardinality(DOMAIN img.entries) * FILE_DIRECTORY_SIZE
  /\ \A p \in Path : \A id \in IdsOf(p) :
       LET n == NodeAt(p)
           f == img.entries[id]
       IN  IF n = NoFile THEN id = NoFile
           ELSE /\ n \in DOMAIN host /\ id \in EntryId(img)
                /\ f.filename = host[n].name
                /\ rdfs_id_isDir(img, id) = host[n].dir
                /\ f.data_entry_size = EntrySize(host, n) /\ f.data_block_offset \in Nat
                /\ IsRegular(n) =>
                     Bytes(img, DATA_LOCATION(img, f), Len(host[n].data)) = host[n].data
                /\ \A i \in DOMAIN host[n].children : \E c \in EntryId(img) :
                     /\ Bytes(img, DATA_LOCATION(img, f) + 8 * (i - 1), 8) = LittleEndian(c)
                     /\ img.entries[c].filename = host[host[n].children[i]].name

\* An open descriptor refers to the file of the host at the path it was opened
\* with, also when descriptors are reused and other files are opened and closed.
OpenedByPath ==
  \A t \in Task : \A fd \in table[t].bitmap :
    LET n  == opened[t][fd]
        id == table[t].file[fd].file_id
    IN  IF n = TimerNode THEN id = TimerId
        ELSE /\ n # NoFile
             /\ img.entries[id].filename = host[n].name
             /\ rdfs_id_isDir(img, id) = host[n].dir
             /\ host[n].dir \/ rdfs_getattr_size(img, id) = Len(host[n].data)

\* A read stores bytes of the host's file at the path in the caller's buffer,
\* from the file's start and as many as were asked for and it has, and nothing
\* behind them; kernel_task() gets all of them.
ReadsHostFile ==
  IsRegular(got.node) =>
    LET data == host[got.node].data
    IN  got.bytes = IF got.all \/ got.size > Len(data) THEN data
                                                       ELSE SubSeq(data, 1, got.size)

\* main() prints ConfigPath byte by byte, each once and in order, and stops at
\* its end.
ConfigPrinted ==
  IsRegular(NodeAt(ConfigPath)) =>
    LET data == host[NodeAt(ConfigPath)].data
    IN  IsPrefix(printed, data) /\ (boot = "done" => printed = data)

\* rdfs_readdir() of a directory gives entries with the names of its children
\* on the host, in their order, and of anything else none.
ListsHostDirectory ==
  listing # NoList =>
    LET kids == IF listing.node = NoFile THEN <<>> ELSE host[listing.node].children
    IN  /\ Len(listing.ids) = Len(kids)
        /\ \A i \in DOMAIN kids : img.entries[listing.ids[i]].filename = host[kids[i]].name

\* A descriptor that stays open keeps its file: no other call of the task, and
\* no fork or exit, gives it to another file.
DescriptorsStable ==
  [][\A t \in Task : \A fd \in table[t].bitmap \cap table'[t].bitmap :
       table'[t].file[fd] = table[t].file[fd]]_vars
=============================================================================
