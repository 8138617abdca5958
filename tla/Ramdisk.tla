------------------------------ MODULE Ramdisk ------------------------------
(***************************************************************************)
(* Ramdisk: the image that src/tools/fs/genRamDisk.py builds from a        *)
(* directory of the host, and how src/src/fs/rdfs/rdfs.c finds files in    *)
(* it.  A host directory is a function from nodes, with the root at 0, to  *)
(* [name, dir, children, data]: children in the order of listdir(), data   *)
(* the bytes of a file.  In an image, sizes and ids are bytes as on disk;  *)
(* names are kept whole.                                                   *)
(***************************************************************************)
EXTENDS Integers, Sequences, SequencesExt

FILE_DIRECTORY_SIZE == 96  \* sizeof(rdfs_file_dir_entry_t)
HEADER_SIZE == 96          \* sizeof(rdfs_partition_header_t)
RDFS_MAGIC_NUMBER == 32245 \* 0x7DF5
RDFS_FILE_TYPE_DIR == 1
RDFS_FILE_TYPE_FILE == 2

Root == 0

\* A host directory: one root, names that are unique in their directory.
IsHost(h) ==
  /\ Root \in DOMAIN h /\ h[Root].dir /\ DOMAIN h \subseteq Nat /\ IsFiniteSet(DOMAIN h)
  /\ \A n \in DOMAIN h :
       /\ h[n].children \in Seq(DOMAIN h \ {Root})
       /\ h[n].dir \/ h[n].children = <<>>
       /\ h[n].data \in Seq(0 .. 255)
       /\ \A i, j \in DOMAIN h[n].children :
            i # j => h[h[n].children[i]].name # h[h[n].children[j]].name

\* The node at a path; -1 if there is none.
NodeIn(h, p) ==
  LET Child(n, name) ==
        LET Named == {c \in IF n = -1 THEN {} ELSE Range(h[n].children) : h[c].name = name}
        IN  IF Named = {} THEN -1 ELSE CHOOSE c \in Named : TRUE
  IN  FoldLeft(Child, Root, p)

-----------------------------------------------------------------------------
(***************************************************************************)
(* genRamDisk.py.                                                          *)
(***************************************************************************)
\* to_bytes(8, 'little'), for numbers below 2^24.
LittleEndian(n) ==
  <<n % 256, (n \div 256) % 256, (n \div 65536) % 256, 0, 0, 0, 0, 0>>

\* flatten_dir(root_dir, 1): nodes with the ids they are given, the children
\* of a directory before its next sibling.  The id of a directory was set by
\* the caller, one below start_id.
flatten_dir(h) ==
  LET flat[dir \in DOMAIN h, start_id \in 1 .. Cardinality(DOMAIN h)] ==
        FoldLeft(LAMBDA acc, child :
                   IF h[child].dir
                     THEN LET sub == flat[child, acc.id + 1]
                          IN  [list |-> acc.list \o sub.list, id |-> sub.id]
                     ELSE [list |-> Append(acc.list, [node |-> child, id |-> acc.id]),
                           id |-> acc.id + 1],
                 [list |-> <<[node |-> dir, id |-> start_id - 1]>>, id |-> start_id],
                 h[dir].children)
  IN  flat[Root, 1].list

\* bin_list and dlist: the node of each id.
bin_list(h) ==
  LET flat == flatten_dir(h)
  IN  [id \in 0 .. Len(flat) - 1 |->
         (CHOOSE e \in Range(flat) : e.id = id).node]

Mut_IdOf(h, node) == node

\* The id flatten_dir() gave a node.
IdOf(h, node) == (CHOOSE e \in Range(flatten_dir(h)) : e.node = node).id

\* Size of an entry's data: eight bytes per child, or the file's size.
EntrySize(h, node) ==
  IF h[node].dir THEN 8 * Len(h[node].children) ELSE Len(h[node].data)

Mut_curr_offset(h) ==
  LET nodes == bin_list(h)
      off[id \in DOMAIN nodes] ==
        EntrySize(h, nodes[id]) + (IF id = 0 THEN 0 ELSE off[id - 1])
  IN  off

\* Where the data of each id begins: the sizes before it added up.
curr_offset(h) ==
  LET nodes == bin_list(h)
      off[id \in DOMAIN nodes] ==
        IF id = 0 THEN 0 ELSE off[id - 1] + EntrySize(h, nodes[id - 1])
  IN  off

\* genFileDirectories(): the entries by id.
genFileDirectories(h) ==
  LET nodes == bin_list(h)
  IN  [id \in DOMAIN nodes |->
         [file_id |-> id,
          file_type |-> IF h[nodes[id]].dir THEN RDFS_FILE_TYPE_DIR
                                            ELSE RDFS_FILE_TYPE_FILE,
          filename |-> h[nodes[id]].name,
          data_block_offset |-> curr_offset(h)[id],
          data_entry_size |-> EntrySize(h, nodes[id])]]

\* genDataDirectories(): the children's ids of a directory, or the file.
genDataDirectories(h) ==
  LET block(node) ==
        IF h[node].dir
          THEN FlattenSeq([i \in DOMAIN h[node].children |->
                             LittleEndian(IdOf(h, h[node].children[i]))])
          ELSE h[node].data
      nodes == bin_list(h)
  IN  FlattenSeq([i \in 1 .. Cardinality(DOMAIN nodes) |-> block(nodes[i - 1])])

\* main() and genHeader().
genRamDisk(h) ==
  [magic |-> <<245, 125>>,
   file_directory_size |-> Cardinality(DOMAIN bin_list(h)) * FILE_DIRECTORY_SIZE,
   entries |-> genFileDirectories(h),
   data |-> genDataDirectories(h)]

-----------------------------------------------------------------------------
(***************************************************************************)
(* rdfs.c on an image.                                                     *)
(***************************************************************************)
NoFile == -1   \* the lookup returned -1
Wild   == -2   \* an id that is no entry's: memory behind the file directory

\* rdfs_init() takes an image with the magic number.
rdfs_init(img) == img.magic[1] + 256 * img.magic[2] = RDFS_MAGIC_NUMBER

\* numFiles, and the ids below it.
EntryId(img) == 0 .. (img.file_directory_size \div FILE_DIRECTORY_SIZE) - 1

\* DATA_LOCATION(): relative to rdfs_start.
DATA_LOCATION(img, f) == img.file_directory_size + f.data_block_offset + HEADER_SIZE

\* n bytes from an address on; -1 stands for one outside the data blocks.
Bytes(img, addr, n) ==
  LET first == HEADER_SIZE + FILE_DIRECTORY_SIZE * Cardinality(DOMAIN img.entries)
      at(i) == addr - first + i
  IN  [i \in 1 .. n |-> IF at(i) \in DOMAIN img.data THEN img.data[at(i)] ELSE -1]

\* rdfs_get_file_list_from_dir_id(): whole words of the data, as ids.  The
\* entry's type is not looked at.
rdfs_get_file_list_from_dir_id(img, id) ==
  LET f       == img.entries[id]
      word(b) == IF -1 \in Range(b) \/ \E i \in 4 .. 8 : b[i] # 0 THEN Wild
                 ELSE b[1] + 256 * b[2] + 65536 * b[3]
      ids     == [k \in 1 .. f.data_entry_size \div 8 |->
                    word(Bytes(img, DATA_LOCATION(img, f) + 8 * (k - 1), 8))]
  IN  [k \in DOMAIN ids |-> IF ids[k] \in EntryId(img) THEN ids[k] ELSE Wild]

\* rdfs_get_file_id_from_list_and_name(): the first id with that name.  What is
\* at a wild id may compare equal or not.
IdsFromList(img, list, name) ==
  LET Hit(i) == list[i] # Wild /\ img.entries[list[i]].filename = name
      Hits   == {i \in DOMAIN list : Hit(i) /\ \A j \in 1 .. i - 1 : ~Hit(j)}
      Wilds  == {i \in DOMAIN list : list[i] = Wild /\ \A j \in 1 .. i - 1 : ~Hit(j)}
  IN  {list[i] : i \in Hits \cup Wilds} \cup (IF Hits = {} THEN {NoFile} ELSE {})

\* One round of rdfs_file_get_id_from_path(); a failure ends the lookup.  kmalloc()
\* is taken to find memory for the name and the ids: with an empty free list both
\* are stored through a null pointer, and only an empty directory gets as far as
\* the return for a null list.
Component(img, id, name) ==
  CASE id = NoFile -> {NoFile}
    [] id = Wild   -> EntryId(img) \cup {NoFile, Wild}
    [] OTHER -> IdsFromList(img, rdfs_get_file_list_from_dir_id(img, id), name)

Mut_rdfs_file_get_id_from_path(img, p) ==
  FoldLeft(LAMBDA S, name : UNION {Component(img, id, name) : id \in S}, {Root},
           SubSeq(p, 1, Len(p) - 1))

\* What rdfs_file_get_id_from_path() may return for a path.
rdfs_file_get_id_from_path(img, p) ==
  FoldLeft(LAMBDA S, name : UNION {Component(img, id, name) : id \in S}, {Root}, p)

\* rdfs_id_isDir(), and rdfs_readdir() of an id: <<>> also if it is none.
rdfs_id_isDir(img, id) == img.entries[id].file_type = RDFS_FILE_TYPE_DIR
rdfs_readdir_id(img, id) ==
  IF rdfs_id_isDir(img, id) THEN rdfs_get_file_list_from_dir_id(img, id) ELSE <<>>

\* rdfs_getattr(): st_size.
rdfs_getattr_size(img, id) == img.entries[id].data_entry_size

\* memcpy(): its u8 loop copies n bytes; a count of 0 goes to the u64 loop,
\* which stores one word before it looks at the count.
memcpy(img, addr, n) == Bytes(img, addr, IF n = 0 THEN 8 ELSE n)

Mut_rdfs_read_file(img, file, size) ==
  LET f      == img.entries[file.file_id]
      remain == f.data_entry_size - file.index
  IN  IF size > remain THEN [size |-> 0, bytes |-> <<>>]
      ELSE [size |-> size, bytes |-> memcpy(img, DATA_LOCATION(img, f) + file.index, size)]

\* rdfs_read_file(): what it returns and then adds to index, and the bytes it
\* stores in the buffer.
rdfs_read_file(img, file, size) ==
  LET f      == img.entries[file.file_id]
      remain == f.data_entry_size - file.index
      n      == IF size > remain THEN remain ELSE size
  IN  IF remain = 0 THEN [size |-> 0, bytes |-> <<>>]
      ELSE [size |-> n, bytes |-> memcpy(img, DATA_LOCATION(img, f) + file.index, n)]
=============================================================================
