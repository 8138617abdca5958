---------------------------- MODULE FilesProofs ----------------------------
(***************************************************************************)
(* Proofs about the descriptor tables and about reading, for every number  *)
(* of tasks and descriptors, every image and every sequence of calls.      *)
(***************************************************************************)
EXTENDS Files, NatFacts, FiniteSetTheorems, SequenceTheorems

-----------------------------------------------------------------------------
(***************************************************************************)
(* The inductive invariant of the tables.                                  *)
(***************************************************************************)
\* What a lookup may give, and the nodes it is asked for.
KnownId   == ({0, TimerId} \cup UNION {IdsOf(p) : p \in Path}) \ {NoFile}
KnownNode == {NodeAt(p) : p \in Path} \cup {NoFile, TimerNode}

FileT   == [file_id : KnownId, index : {0}, flags : {0, 1}]
FdTable == [alloc : BOOLEAN, bitmap : SUBSET Fd, file : [Fd -> FileT]]

TablesTyped ==
  /\ table \in [Task -> FdTable]
  /\ life \in [Task -> {"absent", "alive", "zombie"}]
  /\ opened \in [Task -> [Fd -> KnownNode]]

\* A task that has no table, or was not forked yet, has no bits set.
NoTableEmpty ==
  \A t \in Task : ~table[t].alloc \/ life[t] = "absent" => table[t].bitmap = {}

\* Open entries have their flag; the others have none, but for what
\* init_fd_table() did not clear.
FlagsFollow ==
  \A t \in Task, fd \in Fd :
    IF fd \in table[t].bitmap THEN table[t].file[fd].flags = 1
    ELSE \/ table[t].file[fd].flags = 0
         \/ fd >= Zeroed /\ table[t].file[fd].flags \in Stale

\* An entry that is open came from a lookup, one that is not from none.
NodesFollow ==
  \A t \in Task, fd \in Fd :
    IF fd \in table[t].bitmap
      THEN \/ opened[t][fd] = TimerNode /\ table[t].file[fd].file_id = TimerId
           \/ \E p \in Path : /\ opened[t][fd] = NodeAt(p)
                              /\ table[t].file[fd].file_id \in IdsOf(p) \ {NoFile}
      ELSE opened[t][fd] = NoFile

TableInv == TablesTyped /\ NoTableEmpty /\ FlagsFollow /\ NodesFollow

-----------------------------------------------------------------------------
LEMMA FdFacts == Fd \subseteq Nat /\ Stale \subseteq {0, 1}
BY FilesAssumption DEF FilesAssumption, Fd

\* create_fd() takes a clear bit, and sets up no other entry.
LEMMA CreateFd ==
  ASSUME NEW tab \in FdTable, NEW file, [file EXCEPT !.flags = 1] \in FileT,
         NEW r, r = create_fd(tab, file), r.fd # -1
  PROVE  /\ r.fd \in Fd \ tab.bitmap
         /\ r.tab \in FdTable /\ r.tab.alloc = tab.alloc
         /\ r.tab.bitmap = tab.bitmap \cup {r.fd}
         /\ r.tab.file[r.fd] = [file EXCEPT !.flags = 1]
         /\ \A f \in Fd \ {r.fd} : r.tab.file[f] = tab.file[f]
<1> DEFINE Clear == Fd \ tab.bitmap
           fd == CHOOSE f \in Clear : \A g \in Clear : f <= g
           x == [file EXCEPT !.flags = 1]
           new == [tab EXCEPT !.bitmap = @ \cup {fd}, !.file[fd] = x]
<1>1. Clear # {} /\ r = [tab |-> new, fd |-> fd]
  BY DEF create_fd
<1>2. Clear \subseteq Nat
  BY FdFacts
<1>3. \E f \in Clear : \A g \in Clear : f <= g
  <2> HIDE DEF Clear
  <2> QED BY <1>1, <1>2, LeastExists
<1>4. fd \in Clear
  <2> HIDE DEF Clear
  <2> QED BY <1>3
<1> HIDE DEF fd, x
<1>5. x \in FileT /\ fd \in Fd
  BY <1>4 DEF x
<1>6. new \in FdTable
  BY <1>5 DEF FdTable
<1>7. /\ new.alloc = tab.alloc /\ new.bitmap = tab.bitmap \cup {fd}
      /\ new.file = [tab.file EXCEPT ![fd] = x]
  BY <1>5 DEF FdTable
<1>8. new.file[fd] = x /\ \A f \in Fd \ {fd} : new.file[f] = tab.file[f]
  BY <1>5, <1>7 DEF FdTable
<1>9. r.tab = new /\ r.fd = fd
  <2> HIDE DEF new
  <2> QED BY <1>1
<1> HIDE DEF new
<1> QED BY <1>4, <1>6, <1>7, <1>8, <1>9 DEF x

\* The entries of one table, as in FlagsFollow.
FlagsOf(tab) ==
  \A fd \in Fd :
    IF fd \in tab.bitmap THEN tab.file[fd].flags = 1
    ELSE \/ tab.file[fd].flags = 0
         \/ fd >= Zeroed /\ tab.file[fd].flags \in Stale

\* And the nodes they were opened for, as in NodesFollow.
NodeOf(tab, nodes, fd) ==
  IF fd \in tab.bitmap
    THEN \/ nodes[fd] = TimerNode /\ tab.file[fd].file_id = TimerId
         \/ \E p \in Path : /\ nodes[fd] = NodeAt(p)
                            /\ tab.file[fd].file_id \in IdsOf(p) \ {NoFile}
    ELSE nodes[fd] = NoFile

LEMMA EmptyTable ==
  /\ Closed \in FileT /\ NoTable \in FdTable
  /\ FlagsOf(NoTable) /\ NoTable.bitmap = {} /\ ~NoTable.alloc
<1>1. Closed \in FileT /\ Closed.flags = 0
  <2>1. 0 \in KnownId
    BY DEF KnownId, NoFile
  <2> QED BY <2>1 DEF Closed, FileT
<1>2. /\ ~NoTable.alloc /\ NoTable.bitmap = {}
      /\ NoTable.file = [f \in Fd |-> Closed]
  BY DEF NoTable
<1>3. NoTable \in FdTable
  BY <1>1 DEF NoTable, FdTable
<1>4. FlagsOf(NoTable)
  BY <1>1, <1>2 DEF FlagsOf
<1> QED BY <1>1, <1>2, <1>3, <1>4

\* The table that vfs_open() works on: the task's, or a new one.
LEMMA TableForOpen ==
  ASSUME TableInv, NEW t \in Task,
         NEW tab \in IF table[t].alloc THEN {table[t]} ELSE init_fd_table
  PROVE  /\ tab \in FdTable /\ tab.alloc /\ FlagsOf(tab)
         /\ tab.bitmap = table[t].bitmap
         /\ \A fd \in tab.bitmap : tab.file[fd] = table[t].file[fd]
<1>1. table[t] \in FdTable /\ FlagsOf(table[t])
  BY DEF TableInv, TablesTyped, FlagsFollow, FlagsOf
<1>2. CASE table[t].alloc
  BY <1>1, <1>2
<1>3. CASE ~table[t].alloc
  <2>1. table[t].bitmap = {}
    BY <1>3 DEF TableInv, NoTableEmpty
  <2>2. PICK s \in [Fd -> Stale] :
          tab = [alloc |-> TRUE, bitmap |-> {},
                 file  |-> [f \in Fd |-> IF f < Zeroed THEN Closed
                                         ELSE [Closed EXCEPT !.flags = s[f]]]]
    BY <1>3 DEF init_fd_table
  <2>3. ASSUME NEW f \in Fd
        PROVE  /\ tab.file[f] \in FileT
               /\ \/ tab.file[f].flags = 0
                  \/ f >= Zeroed /\ tab.file[f].flags \in Stale
    <3>1. tab.file[f] = IF f < Zeroed THEN Closed ELSE [Closed EXCEPT !.flags = s[f]]
      BY <2>2
    <3>2. s[f] \in Stale /\ s[f] \in {0, 1}
      BY FdFacts
    <3>3. f \in Nat /\ Zeroed \in Nat
      BY FdFacts, FilesAssumption DEF FilesAssumption
    <3> QED BY <3>1, <3>2, <3>3, EmptyTable DEF Closed, FileT
  <2>4. tab.alloc /\ tab.bitmap = {} /\ tab.file = [f \in Fd |-> tab.file[f]]
    BY <2>2
  <2>5. tab = [alloc |-> tab.alloc, bitmap |-> tab.bitmap, file |-> tab.file]
        /\ tab.alloc \in BOOLEAN /\ tab.file \in [Fd -> FileT]
    BY <2>2, <2>3
  <2> QED BY <2>1, <2>3, <2>4, <2>5 DEF FdTable, FlagsOf
<1> QED BY <1>2, <1>3

LEMMA InitTable == Init => TableInv
<1> SUFFICES ASSUME Init PROVE TableInv
  OBVIOUS
<1>1. /\ table = [t \in Task |-> NoTable]
      /\ opened = [t \in Task |-> [f \in Fd |-> NoFile]]
      /\ life \in [Task -> {"absent", "alive", "zombie"}]
  BY DEF Init
<1>2. NoFile \in KnownNode
  BY DEF KnownNode
<1>3. TablesTyped
  BY <1>1, <1>2, EmptyTable DEF TablesTyped
<1>4. NoTableEmpty /\ FlagsFollow /\ NodesFollow
  BY <1>1, EmptyTable DEF NoTableEmpty, FlagsFollow, NodesFollow, FlagsOf
<1> QED BY <1>3, <1>4 DEF TableInv

\* Nothing that the tasks do changes what a lookup finds.
LEMMA MountKept ==
  ASSUME UNCHANGED <<host, img>>
  PROVE  /\ KnownId' = KnownId /\ KnownNode' = KnownNode
         /\ FileT' = FileT /\ FdTable' = FdTable
         /\ \A p \in Path : IdsOf(p)' = IdsOf(p) /\ NodeAt(p)' = NodeAt(p)
BY DEF KnownId, KnownNode, FileT, FdTable, IdsOf, NodeAt

-----------------------------------------------------------------------------
(***************************************************************************)
(* The steps.                                                              *)
(***************************************************************************)
\* A step that gives task t the table tab and the nodes nodes.
LEMMA TableReplaced ==
  ASSUME TableInv, UNCHANGED <<host, img>>, NEW t \in Task, NEW tab \in FdTable,
         NEW nodes \in [Fd -> KnownNode],
         table' = [table EXCEPT ![t] = tab], opened' = [opened EXCEPT ![t] = nodes],
         life' \in [Task -> {"absent", "alive", "zombie"}],
         \A u \in Task : life'[u] = "absent" => u # t /\ life[u] = "absent",
         FlagsOf(tab), ~tab.alloc => tab.bitmap = {},
         \A fd \in Fd : NodeOf(tab, nodes, fd)
  PROVE  TableInv'
<1> /\ table \in [Task -> FdTable] /\ opened \in [Task -> [Fd -> KnownNode]]
  BY DEF TableInv, TablesTyped
<1>1. /\ table'[t] = tab /\ opened'[t] = nodes
      /\ \A u \in Task \ {t} : table'[u] = table[u] /\ opened'[u] = opened[u]
      /\ table' \in [Task -> FdTable] /\ opened' \in [Task -> [Fd -> KnownNode]]
  OBVIOUS
<1>2. TablesTyped'
  BY <1>1, MountKept DEF TablesTyped
<1>3. NoTableEmpty'
  BY <1>1 DEF TableInv, NoTableEmpty
<1>4. FlagsFollow'
  <2> SUFFICES ASSUME NEW u \in Task, NEW fd \in Fd
               PROVE  IF fd \in table'[u].bitmap THEN table'[u].file[fd].flags = 1
                      ELSE \/ table'[u].file[fd].flags = 0
                           \/ fd >= Zeroed /\ table'[u].file[fd].flags \in Stale
    BY DEF FlagsFollow
  <2>1. CASE u = t
    BY <1>1, <2>1 DEF FlagsOf
  <2>2. CASE u # t
    BY <1>1, <2>2 DEF TableInv, FlagsFollow
  <2> QED BY <2>1, <2>2
<1>5. NodesFollow'
  <2> SUFFICES ASSUME NEW u \in Task, NEW fd \in Fd
               PROVE  IF fd \in table'[u].bitmap
                        THEN \/ /\ opened'[u][fd] = TimerNode
                                /\ table'[u].file[fd].file_id = TimerId
                             \/ \E p \in Path :
                                  /\ opened'[u][fd] = NodeAt(p)'
                                  /\ table'[u].file[fd].file_id \in IdsOf(p)' \ {NoFile}
                        ELSE opened'[u][fd] = NoFile
    BY DEF NodesFollow
  <2>1. CASE u = t
    BY <1>1, <2>1, MountKept DEF NodeOf
  <2>2. CASE u # t
    BY <1>1, <2>2, MountKept DEF TableInv, NodesFollow
  <2> QED BY <2>1, <2>2
<1> QED BY <1>2, <1>3, <1>4, <1>5 DEF TableInv

LEMMA TablesKept ==
  ASSUME TableInv, UNCHANGED <<host, img, tables>>
  PROVE  TableInv'
<1>1. UNCHANGED <<table, life, opened>>
  BY DEF tables
<1>2. TablesTyped'
  BY <1>1, MountKept DEF TableInv, TablesTyped
<1>3. NoTableEmpty' /\ FlagsFollow'
  BY <1>1 DEF TableInv, NoTableEmpty, FlagsFollow
<1>4. NodesFollow'
  BY <1>1, MountKept DEF TableInv, NodesFollow
<1> QED BY <1>2, <1>3, <1>4 DEF TableInv

\* What is known of one task before a step.
LEMMA TaskFacts ==
  ASSUME TableInv, NEW t \in Task
  PROVE  /\ table[t] \in FdTable /\ opened[t] \in [Fd -> KnownNode]
         /\ FlagsOf(table[t]) /\ (~table[t].alloc => table[t].bitmap = {})
         /\ \A fd \in Fd : NodeOf(table[t], opened[t], fd)
BY DEF TableInv, TablesTyped, NoTableEmpty, FlagsFollow, FlagsOf, NodesFollow, NodeOf

\* What vfs_open() does to the task's table: nothing but its allocation, or one
\* entry that was clear is filled with what the lookup found.
Filled(tab, new, fd, id) ==
  /\ new \in FdTable /\ new.alloc = tab.alloc
  /\ new.bitmap = tab.bitmap \cup {fd}
  /\ new.file[fd] = [file_id |-> id, index |-> 0, flags |-> 1]
  /\ \A f \in Fd \ {fd} : new.file[f] = tab.file[f]

OpenDoes(t, p, tab) ==
  \/ table' = [table EXCEPT ![t] = tab] /\ opened' = opened
  \/ \E fd \in Fd \ tab.bitmap, id \in KnownId \ {NoFile}, new \in FdTable, n \in KnownNode :
       /\ Filled(tab, new, fd, id)
       /\ table' = [table EXCEPT ![t] = new]
       /\ opened' = [opened EXCEPT ![t][fd] = n]
       /\ \/ id = TimerId /\ n = TimerNode
          \/ id \in IdsOf(p) /\ n = NodeAt(p)

LEMMA OpenEffect ==
  ASSUME TableInv, NEW t \in Task, NEW p \in Path, Open(t, p)
  PROVE  \E tab \in IF table[t].alloc THEN {table[t]} ELSE init_fd_table :
           OpenDoes(t, p, tab)
<1> DEFINE Ids == IF p = TimerPath THEN {TimerId} ELSE IdsOf(p)
           r(tab, id) == create_fd(tab, rdfs_open_file_id(id))
           n == IF p = TimerPath THEN TimerNode ELSE NodeAt(p)
<1>1. PICK tab \in IF table[t].alloc THEN {table[t]} ELSE init_fd_table :
      \E id \in Ids :
        IF id = NoFile \/ r(tab, id).fd = -1
          THEN table' = [table EXCEPT ![t] = tab] /\ UNCHANGED opened
          ELSE /\ table' = [table EXCEPT ![t] = r(tab, id).tab]
               /\ opened' = [opened EXCEPT ![t][r(tab, id).fd] = n]
  BY DEF Open
<1>2. PICK id \in Ids :
        IF id = NoFile \/ r(tab, id).fd = -1
          THEN table' = [table EXCEPT ![t] = tab] /\ UNCHANGED opened
          ELSE /\ table' = [table EXCEPT ![t] = r(tab, id).tab]
               /\ opened' = [opened EXCEPT ![t][r(tab, id).fd] = n]
  BY <1>1
<1>3. tab \in FdTable
  BY TableForOpen
<1>4. CASE id = NoFile \/ r(tab, id).fd = -1
  BY <1>2, <1>4 DEF OpenDoes
<1>5. CASE ~(id = NoFile \/ r(tab, id).fd = -1)
  <2> DEFINE x == rdfs_open_file_id(id)
             c == r(tab, id)
  <2>1. /\ table' = [table EXCEPT ![t] = c.tab]
        /\ opened' = [opened EXCEPT ![t][c.fd] = n]
    BY <1>2, <1>5
  <2>2. id \in KnownId \ {NoFile} /\ n \in KnownNode
    BY <1>5 DEF KnownId, KnownNode
  <2>3. x = [file_id |-> id, index |-> 0, flags |-> 0]
    BY DEF rdfs_open_file_id, Closed
  <2>4. c = create_fd(tab, x) /\ c.fd # -1
    BY <1>5
  <2> HIDE DEF x, c
  <2>5. [x EXCEPT !.flags = 1] = [file_id |-> id, index |-> 0, flags |-> 1]
    BY <2>3
  <2>6. [file_id |-> id, index |-> 0, flags |-> 1] \in FileT
    BY <2>2 DEF FileT
  <2>7. c.fd \in Fd \ tab.bitmap /\ Filled(tab, c.tab, c.fd, id)
    BY <1>3, <2>4, <2>5, <2>6, CreateFd DEF Filled
  <2>8. \/ id = TimerId /\ n = TimerNode
        \/ id \in IdsOf(p) /\ n = NodeAt(p)
    OBVIOUS
  <2> HIDE DEF n
  <2>9. c.tab \in FdTable
    BY <2>7 DEF Filled
  <2> QED BY <2>1, <2>2, <2>7, <2>8, <2>9 DEF OpenDoes
<1> QED BY <1>4, <1>5

LEMMA OpenTable ==
  ASSUME TableInv, NEW t \in Task, NEW p \in Path, Open(t, p)
  PROVE  TableInv'
<1>1. UNCHANGED <<host, img, life>> /\ life \in [Task -> {"absent", "alive", "zombie"}]
      /\ life[t] = "alive"
      /\ opened \in [Task -> [Fd -> KnownNode]] /\ table \in [Task -> FdTable]
  BY DEF Open, Alive, mount, TableInv, TablesTyped
<1>2. PICK tab \in IF table[t].alloc THEN {table[t]} ELSE init_fd_table :
         OpenDoes(t, p, tab)
  BY OpenEffect
<1>3. /\ tab \in FdTable /\ tab.alloc /\ FlagsOf(tab)
      /\ tab.bitmap = table[t].bitmap
      /\ \A fd \in tab.bitmap : tab.file[fd] = table[t].file[fd]
  BY TableForOpen
<1>4. \A fd \in Fd : NodeOf(tab, opened[t], fd)
  BY <1>3, TaskFacts DEF NodeOf
<1>5. CASE table' = [table EXCEPT ![t] = tab] /\ opened' = opened
  <2>1. opened' = [opened EXCEPT ![t] = opened[t]]
    BY <1>1, <1>5
  <2>2. opened[t] \in [Fd -> KnownNode]
    BY <1>1
  <2> QED BY <1>1, <1>3, <1>4, <1>5, <2>1, <2>2, TableReplaced
<1>6. ASSUME NEW fd \in Fd \ tab.bitmap, NEW id \in KnownId \ {NoFile},
             NEW new \in FdTable, NEW n \in KnownNode,
             \/ id = TimerId /\ n = TimerNode
             \/ id \in IdsOf(p) /\ n = NodeAt(p),
             Filled(tab, new, fd, id),
             table' = [table EXCEPT ![t] = new],
             opened' = [opened EXCEPT ![t][fd] = n]
      PROVE  TableInv'
  <2> DEFINE nodes == [opened[t] EXCEPT ![fd] = n]
  <2>1. /\ nodes \in [Fd -> KnownNode] /\ nodes[fd] = n
        /\ \A f \in Fd \ {fd} : nodes[f] = opened[t][f]
        /\ opened' = [opened EXCEPT ![t] = nodes]
    BY <1>1, <1>6
  <2>2. /\ new.alloc = tab.alloc /\ new.bitmap = tab.bitmap \cup {fd}
        /\ new.file[fd] = [file_id |-> id, index |-> 0, flags |-> 1]
        /\ \A f \in Fd \ {fd} : new.file[f] = tab.file[f]
    BY <1>6 DEF Filled
  <2> HIDE DEF nodes
  <2>3. FlagsOf(new)
    BY <1>3, <2>2 DEF FlagsOf
  <2>4. ASSUME NEW f \in Fd
        PROVE  NodeOf(new, nodes, f)
    <3>1. CASE f = fd
      BY <1>6, <2>1, <2>2, <3>1 DEF NodeOf
    <3>2. CASE f # fd
      BY <1>4, <2>1, <2>2, <3>2 DEF NodeOf
    <3> QED BY <3>1, <3>2
  <2> QED BY <1>1, <1>3, <1>6, <2>1, <2>2, <2>3, <2>4, TableReplaced
<1> QED BY <1>2, <1>5, <1>6 DEF OpenDoes

\* delete_fd(): the bit and the entry of the descriptor, open or not.
LEMMA DeleteFd ==
  ASSUME NEW tab \in FdTable, NEW fd \in Fd, NEW new, new = delete_fd(tab, fd)
  PROVE  /\ new \in FdTable /\ new.alloc = tab.alloc
         /\ new.bitmap = tab.bitmap \ {fd}
         /\ new.file[fd] = Closed
         /\ \A f \in Fd \ {fd} : new.file[f] = tab.file[f]
<1>1. Closed \in FileT
  BY EmptyTable
<1> DEFINE del == [tab EXCEPT !.bitmap = @ \ {fd}, !.file[fd] = Closed]
<1>2. del \in FdTable
  BY <1>1 DEF FdTable
<1>3. /\ del.alloc = tab.alloc /\ del.bitmap = tab.bitmap \ {fd}
      /\ del.file = [tab.file EXCEPT ![fd] = Closed]
  BY <1>1 DEF FdTable
<1>4. del.file[fd] = Closed /\ \A f \in Fd \ {fd} : del.file[f] = tab.file[f]
  BY <1>3 DEF FdTable
<1>5. new = del
  BY DEF delete_fd
<1> HIDE DEF del
<1> QED BY <1>2, <1>3, <1>4, <1>5

LEMMA CloseTable ==
  ASSUME TableInv, NEW t \in Task, NEW fd \in Fd, Close(t, fd)
  PROVE  TableInv'
<1> DEFINE new == delete_fd(table[t], fd)
           nodes == [opened[t] EXCEPT ![fd] = NoFile]
<1>1. UNCHANGED <<host, img, life>> /\ life \in [Task -> {"absent", "alive", "zombie"}]
      /\ life[t] = "alive"
      /\ opened \in [Task -> [Fd -> KnownNode]] /\ table \in [Task -> FdTable]
  BY DEF Close, Alive, mount, TableInv, TablesTyped
<1>2. /\ table' = [table EXCEPT ![t] = new] /\ table[t].alloc
      /\ opened' = [opened EXCEPT ![t] = nodes]
  BY <1>1 DEF Close
<1>3. /\ nodes \in [Fd -> KnownNode] /\ nodes[fd] = NoFile
      /\ \A f \in Fd \ {fd} : nodes[f] = opened[t][f]
  BY <1>1 DEF KnownNode
<1> HIDE DEF new, nodes
<1>4. /\ new \in FdTable /\ new.alloc = table[t].alloc
      /\ new.bitmap = table[t].bitmap \ {fd} /\ new.file[fd] = Closed
      /\ \A f \in Fd \ {fd} : new.file[f] = table[t].file[f]
  BY <1>1, DeleteFd DEF new
<1>5. FlagsOf(new)
  BY <1>4, TaskFacts DEF FlagsOf, Closed
<1>6. ASSUME NEW f \in Fd
      PROVE  NodeOf(new, nodes, f)
  BY <1>3, <1>4, TaskFacts DEF NodeOf
<1> QED BY <1>1, <1>2, <1>3, <1>4, <1>5, <1>6, TableReplaced

\* kernel_fork() and exit_task() leave a table with nothing open.
LEMMA EmptiedTable ==
  ASSUME NEW a \in BOOLEAN
  PROVE  LET new == [NoTable EXCEPT !.alloc = a]
         IN  /\ new \in FdTable /\ FlagsOf(new) /\ new.bitmap = {}
             /\ new.file = [f \in Fd |-> Closed]
<1> DEFINE new == [NoTable EXCEPT !.alloc = a]
<1>1. new.bitmap = {} /\ new.file = [f \in Fd |-> Closed]
  BY DEF NoTable
<1>2. new \in FdTable
  BY EmptyTable DEF FdTable
<1> HIDE DEF new
<1>3. FlagsOf(new)
  BY <1>1 DEF FlagsOf, Closed
<1> QED BY <1>1, <1>2, <1>3 DEF new

LEMMA ForkTable ==
  ASSUME TableInv, NEW t \in Task, NEW c \in Task, Fork(t, c)
  PROVE  TableInv'
<1>1. /\ UNCHANGED <<host, img, opened>> /\ table' = [table EXCEPT ![c] = NoTable]
      /\ life' = [life EXCEPT ![c] = "alive"] /\ life[c] = "absent"
      /\ life \in [Task -> {"absent", "alive", "zombie"}]
      /\ opened \in [Task -> [Fd -> KnownNode]]
  BY DEF Fork, mount, TableInv, TablesTyped
<1>2. table[c].bitmap = {}
  BY <1>1 DEF TableInv, NoTableEmpty
<1>3. /\ life' \in [Task -> {"absent", "alive", "zombie"}]
      /\ \A u \in Task : life'[u] = "absent" => u # c /\ life[u] = "absent"
  BY <1>1
<1>4. opened' = [opened EXCEPT ![c] = opened[c]] /\ opened[c] \in [Fd -> KnownNode]
  BY <1>1
<1>5. \A fd \in Fd : NodeOf(NoTable, opened[c], fd)
  BY <1>2, TaskFacts, EmptyTable DEF NodeOf
<1> QED BY <1>1, <1>3, <1>4, <1>5, EmptyTable, TableReplaced

LEMMA ExitTable ==
  ASSUME TableInv, NEW t \in Task, Exit(t)
  PROVE  TableInv'
<1> DEFINE new == [NoTable EXCEPT !.alloc = table[t].alloc]
           none == [f \in Fd |-> NoFile]
<1>1. /\ UNCHANGED <<host, img>> /\ table' = [table EXCEPT ![t] = new]
      /\ opened' = [opened EXCEPT ![t] = none]
      /\ life' = [life EXCEPT ![t] = "zombie"]
      /\ life \in [Task -> {"absent", "alive", "zombie"}]
  BY DEF Exit, mount, TableInv, TablesTyped
<1>2. table[t].alloc \in BOOLEAN
  BY TaskFacts DEF FdTable
<1>3. new \in FdTable /\ FlagsOf(new) /\ new.bitmap = {}
  BY <1>2, EmptiedTable
<1>4. none \in [Fd -> KnownNode] /\ \A fd \in Fd : none[fd] = NoFile
  BY DEF KnownNode
<1>5. /\ life' \in [Task -> {"absent", "alive", "zombie"}]
      /\ \A u \in Task : life'[u] = "absent" => u # t /\ life[u] = "absent"
  BY <1>1
<1> HIDE DEF new, none
<1>6. \A fd \in Fd : NodeOf(new, none, fd)
  BY <1>3, <1>4 DEF NodeOf
<1> QED BY <1>1, <1>3, <1>4, <1>5, <1>6, TableReplaced

\* The steps of main(), and the calls that read, leave the tables alone.
LEMMA OtherTable ==
  ASSUME TableInv,
         \/ Mount \/ OpenConfig \/ ReadConfig
         \/ \E p \in Path : ListDir(p)
         \/ \E t \in Task : \/ \E p \in Path : LoadProgram(t, p)
                            \/ \E fd \in Fd : \E n \in ReadSize : Read(t, fd, n)
  PROVE  TableInv'
<1>1. UNCHANGED <<host, img, tables>>
  BY DEF Mount, OpenConfig, ReadConfig, ListDir, LoadProgram, Read, mount
<1> QED BY <1>1, TablesKept

LEMMA NextTable == TableInv /\ [Next]_vars => TableInv'
<1> SUFFICES ASSUME TableInv, [Next]_vars PROVE TableInv'
  OBVIOUS
<1>1. CASE UNCHANGED vars
  BY <1>1, TablesKept DEF vars, mount
<1>2. CASE Next
  BY <1>2, OpenTable, CloseTable, ForkTable, ExitTable, OtherTable DEF Next
<1> QED BY <1>1, <1>2

\* The tables' invariant, for every image, whatever its lookups return.
THEOREM TableInvariance == Spec => []TableInv
BY InitTable, NextTable, PTL DEF Spec

\* Whatever recycled memory init_fd_table() leaves uncleared, create_fd() and
\* is_valid_fd() agree on what it cleared, and every open descriptor is valid, after
\* any sequence of opens, closes, forks and exits.
THEOREM BitmapFollowsFlags == Spec => []BitmapMatchesFlags
<1>1. TableInv => BitmapMatchesFlags
  <2> SUFFICES ASSUME TableInv, NEW t \in Task, NEW fd \in Fd,
                      ~(fd \in table[t].bitmap <=> table[t].file[fd].flags > 0)
               PROVE  fd >= Zeroed /\ fd \notin table[t].bitmap
    BY DEF BitmapMatchesFlags, Strays, is_valid_fd
  <2>1. fd \in table[t].bitmap => table[t].file[fd].flags = 1
    BY DEF TableInv, FlagsFollow
  <2>2. fd \notin table[t].bitmap =>
          table[t].file[fd].flags = 0 \/ fd >= Zeroed
    BY DEF TableInv, FlagsFollow
  <2> QED BY <2>1, <2>2
<1> QED BY <1>1, TableInvariance, PTL

\* A descriptor that a step leaves open keeps its file.
LEMMA DescriptorsKept ==
  ASSUME TableInv, [Next]_vars
  PROVE  \A t \in Task : \A fd \in table[t].bitmap \cap table'[t].bitmap :
           table'[t].file[fd] = table[t].file[fd]
<1> SUFFICES ASSUME NEW t \in Task, NEW fd \in table[t].bitmap \cap table'[t].bitmap
             PROVE  table'[t].file[fd] = table[t].file[fd]
  OBVIOUS
<1> /\ table \in [Task -> FdTable] /\ fd \in Fd
  BY DEF TableInv, TablesTyped, FdTable
<1>1. CASE table' = table
  BY <1>1
<1>2. ASSUME NEW u \in Task, NEW p \in Path, Open(u, p)
      PROVE  table'[t].file[fd] = table[t].file[fd]
  <2>1. PICK tab \in IF table[u].alloc THEN {table[u]} ELSE init_fd_table :
           OpenDoes(u, p, tab)
    BY <1>2, OpenEffect
  <2>2. /\ tab.bitmap = table[u].bitmap
        /\ \A f \in tab.bitmap : tab.file[f] = table[u].file[f]
    BY TableForOpen
  <2>3. CASE t # u
    BY <2>1, <2>3 DEF OpenDoes
  <2>4. CASE t = u
    <3>1. CASE table' = [table EXCEPT ![u] = tab]
      BY <2>2, <2>4, <3>1
    <3>2. ASSUME NEW f \in Fd \ tab.bitmap, NEW id, NEW new \in FdTable,
                 Filled(tab, new, f, id), table' = [table EXCEPT ![u] = new]
          PROVE  table'[t].file[fd] = table[t].file[fd]
      <4>1. table'[t] = new /\ fd \in tab.bitmap /\ fd # f
        BY <2>2, <2>4, <3>2
      <4> QED BY <2>2, <2>4, <3>2, <4>1 DEF Filled
    <3> QED BY <2>1, <3>1, <3>2 DEF OpenDoes
  <2> QED BY <2>3, <2>4
<1>3. ASSUME NEW u \in Task, NEW f \in Fd, Close(u, f)
      PROVE  table'[t].file[fd] = table[t].file[fd]
  <2> DEFINE new == delete_fd(table[u], f)
  <2>1. table' = [table EXCEPT ![u] = new]
    BY <1>3 DEF Close
  <2> HIDE DEF new
  <2>2. /\ new.bitmap = table[u].bitmap \ {f}
        /\ \A g \in Fd \ {f} : new.file[g] = table[u].file[g]
    BY DeleteFd DEF new
  <2> QED BY <2>1, <2>2
<1>4. ASSUME NEW u \in Task, NEW c \in Task, Fork(u, c)
      PROVE  table'[t].file[fd] = table[t].file[fd]
  <2>1. table' = [table EXCEPT ![c] = NoTable]
    BY <1>4 DEF Fork
  <2> QED BY <2>1, EmptyTable
<1>5. ASSUME NEW u \in Task, Exit(u)
      PROVE  table'[t].file[fd] = table[t].file[fd]
  <2> DEFINE new == [NoTable EXCEPT !.alloc = table[u].alloc]
  <2>1. table' = [table EXCEPT ![u] = new]
    BY <1>5 DEF Exit
  <2>2. table[u].alloc \in BOOLEAN
    BY TaskFacts DEF FdTable
  <2>3. new.bitmap = {}
    BY <2>2, EmptiedTable
  <2> HIDE DEF new
  <2> QED BY <2>1, <2>3
<1>6. ASSUME \/ Mount \/ OpenConfig \/ ReadConfig
             \/ \E p \in Path : ListDir(p)
             \/ \E u \in Task : \/ \E p \in Path : LoadProgram(u, p)
                                \/ \E f \in Fd : \E n \in ReadSize : Read(u, f, n)
             \/ UNCHANGED vars
      PROVE  table' = table
  BY <1>6 DEF Mount, OpenConfig, ReadConfig, ListDir, LoadProgram, Read, tables, vars
<1> QED BY <1>1, <1>2, <1>3, <1>4, <1>5, <1>6 DEF Next

\* No call of any task, and no fork or exit, gives an open descriptor to
\* another file, whatever init_fd_table() left in the table.
THEOREM DescriptorsAreStable == Spec => DescriptorsStable
<1>1. TableInv /\ [Next]_vars =>
        [\A t \in Task : \A fd \in table[t].bitmap \cap table'[t].bitmap :
           table'[t].file[fd] = table[t].file[fd]]_vars
  BY DescriptorsKept
<1> QED BY <1>1, TableInvariance, PTL DEF Spec, DescriptorsStable

\* A table whose bits and entries a call leaves alone, or sets together, has no
\* stray it did not have.
LEMMA StraysKept ==
  ASSUME TableInv, [Next]_vars, NEW t \in Task, table[t].alloc, life'[t] = "alive"
  PROVE  Strays(t)' \subseteq Strays(t)
<1> SUFFICES ASSUME NEW fd \in Fd,
                    ~(fd \in table'[t].bitmap <=> table'[t].file[fd].flags > 0)
             PROVE  ~(fd \in table[t].bitmap <=> table[t].file[fd].flags > 0)
  BY DEF Strays, is_valid_fd
<1> table \in [Task -> FdTable]
  BY DEF TableInv, TablesTyped
<1>1. CASE table'[t] = table[t]
  BY <1>1
<1>2. ASSUME NEW new, NEW f \in Fd, table'[t] = new,
             f \in new.bitmap <=> new.file[f].flags > 0,
             \A g \in Fd \ {f} : /\ g \in new.bitmap <=> g \in table[t].bitmap
                                 /\ new.file[g] = table[t].file[g]
      PROVE  ~(fd \in table[t].bitmap <=> table[t].file[fd].flags > 0)
  <2>1. fd # f
    BY <1>2
  <2> QED BY <1>2, <2>1
<1>3. ASSUME NEW u \in Task, NEW p \in Path, Open(u, p)
      PROVE  ~(fd \in table[t].bitmap <=> table[t].file[fd].flags > 0)
  <2>1. PICK tab \in IF table[u].alloc THEN {table[u]} ELSE init_fd_table :
           OpenDoes(u, p, tab)
    BY <1>3, OpenEffect
  <2>2. CASE t # u
    <3>1. table'[t] = table[t]
      BY <2>1, <2>2 DEF OpenDoes
    <3> QED BY <1>1, <3>1
  <2>3. CASE t = u
    <3>1. tab = table[t]
      BY <2>1, <2>3
    <3>2. CASE table' = [table EXCEPT ![u] = tab]
      BY <1>1, <2>3, <3>1, <3>2
    <3>3. ASSUME NEW f \in Fd \ tab.bitmap, NEW id, NEW new \in FdTable,
                 Filled(tab, new, f, id), table' = [table EXCEPT ![u] = new]
          PROVE  ~(fd \in table[t].bitmap <=> table[t].file[fd].flags > 0)
      <4>1. table'[t] = new
        BY <2>3, <3>3
      <4>2. /\ new.bitmap = table[t].bitmap \cup {f} /\ new.file[f].flags > 0
            /\ \A g \in Fd \ {f} : new.file[g] = table[t].file[g]
        BY <3>1, <3>3 DEF Filled
      <4> QED BY <1>2, <4>1, <4>2
    <3> QED BY <2>1, <3>2, <3>3 DEF OpenDoes
  <2> QED BY <2>2, <2>3
<1>4. ASSUME NEW u \in Task, NEW f \in Fd, Close(u, f)
      PROVE  ~(fd \in table[t].bitmap <=> table[t].file[fd].flags > 0)
  <2> DEFINE new == delete_fd(table[u], f)
  <2>1. table' = [table EXCEPT ![u] = new]
    BY <1>4 DEF Close
  <2>2. /\ new.bitmap = table[u].bitmap \ {f} /\ new.file[f] = Closed
        /\ \A g \in Fd \ {f} : new.file[g] = table[u].file[g]
    BY DeleteFd
  <2> HIDE DEF new
  <2>3. CASE t # u
    BY <1>1, <2>1, <2>3
  <2>4. CASE t = u
    <3>1. table'[t] = new /\ ~(new.file[f].flags > 0)
      BY <2>1, <2>2, <2>4 DEF Closed
    <3> QED BY <1>2, <2>2, <2>4, <3>1
  <2> QED BY <2>3, <2>4
<1>5. ASSUME NEW u \in Task, NEW c \in Task, Fork(u, c)
      PROVE  ~(fd \in table[t].bitmap <=> table[t].file[fd].flags > 0)
  <2>1. table' = [table EXCEPT ![c] = NoTable]
    BY <1>5 DEF Fork
  <2>2. t # c
    BY <2>1, EmptyTable DEF NoTable, Closed
  <2> QED BY <1>1, <2>1, <2>2
<1>6. ASSUME NEW u \in Task, Exit(u)
      PROVE  ~(fd \in table[t].bitmap <=> table[t].file[fd].flags > 0)
  <2>1. t # u /\ table'[t] = table[t]
    BY <1>6 DEF Exit, TableInv, TablesTyped
  <2> QED BY <1>1, <2>1
<1>7. ASSUME \/ Mount \/ OpenConfig \/ ReadConfig
             \/ \E p \in Path : ListDir(p)
             \/ \E u \in Task : \/ \E p \in Path : LoadProgram(u, p)
                                \/ \E f \in Fd : \E n \in ReadSize : Read(u, f, n)
             \/ UNCHANGED vars
      PROVE  table' = table
  BY <1>7 DEF Mount, OpenConfig, ReadConfig, ListDir, LoadProgram, Read, tables, vars
<1> QED BY <1>1, <1>3, <1>4, <1>5, <1>6, <1>7 DEF Next

\* A descriptor that looks open without being allotted, or the reverse, was left by
\* init_fd_table(): no call makes one, whatever memory the heap recycles.
THEOREM StraysAreInherited == Spec => NoNewStrays
<1>1. TableInv /\ [Next]_vars =>
        [\A t \in Task :
           table[t].alloc /\ life'[t] = "alive" => Strays(t)' \subseteq Strays(t)]_vars
  BY StraysKept
<1> QED BY <1>1, TableInvariance, PTL DEF Spec, NoNewStrays

-----------------------------------------------------------------------------
(***************************************************************************)
(* Reading, on an image whose lookups find what the host has.              *)
(***************************************************************************)
Byte == 0 .. 255

FileKnown(n) == n \in DOMAIN host /\ host[n].data \in Seq(Byte)

LEMMA HostFacts ==
  ASSUME host \in Host
  PROVE  /\ DOMAIN host \subseteq Nat
         /\ \A n \in DOMAIN host : FileKnown(n) /\ EntrySize(host, n) \in Nat
         /\ Cardinality(DOMAIN host) \in 1 .. TimerId /\ TimerId \in Nat
<1>1. IsHost(host) /\ Cardinality(DOMAIN host) <= TimerId /\ TimerId \in Nat
  BY FilesAssumption DEF FilesAssumption
<1>2. /\ Root \in DOMAIN host /\ DOMAIN host \subseteq Nat /\ IsFiniteSet(DOMAIN host)
      /\ \A n \in DOMAIN host : /\ host[n].children \in Seq(DOMAIN host \ {Root})
                                /\ host[n].data \in Seq(Byte)
  BY <1>1 DEF IsHost, Byte
<1>3. Cardinality(DOMAIN host) \in Nat /\ Cardinality(DOMAIN host) # 0
  BY <1>2, FS_CardinalityType, FS_EmptySet
<1>4. \A n \in DOMAIN host : EntrySize(host, n) \in Nat
  BY <1>2 DEF EntrySize
<1> QED BY <1>1, <1>2, <1>3, <1>4 DEF FileKnown

LEMMA ImageIds ==
  ASSUME host \in Host, ImageHoldsHost
  PROVE  /\ img.file_directory_size \in Nat
         /\ HEADER_SIZE + FILE_DIRECTORY_SIZE * Cardinality(DOMAIN img.entries) \in Nat
         /\ EntryId(img) = 0 .. Cardinality(DOMAIN host) - 1
         /\ 0 \in EntryId(img) /\ TimerId \notin EntryId(img)
<1> DEFINE k == Cardinality(DOMAIN img.entries)
<1>1. k \in Nat /\ k >= 1 /\ k <= TimerId /\ TimerId \in Nat
      /\ k = Cardinality(DOMAIN host) /\ img.file_directory_size = k * 96
  BY HostFacts DEF ImageHoldsHost, FILE_DIRECTORY_SIZE
<1> HIDE DEF k
<1>2. (k * 96) \div 96 = k
  BY <1>1
<1>3. EntryId(img) = 0 .. k - 1
  BY <1>1, <1>2 DEF EntryId, FILE_DIRECTORY_SIZE
<1>4. HEADER_SIZE + FILE_DIRECTORY_SIZE * k \in Nat /\ k * 96 \in Nat
  BY <1>1 DEF HEADER_SIZE, FILE_DIRECTORY_SIZE
<1> QED BY <1>1, <1>3, <1>4 DEF k

\* What a lookup that succeeds has found.
LEMMA Looked ==
  ASSUME host \in Host, ImageHoldsHost, NEW p \in Path, NEW id \in IdsOf(p), id # NoFile
  PROVE  LET n == NodeAt(p)
             f == img.entries[id]
         IN  /\ n \in DOMAIN host /\ n \in Nat
             /\ id \in EntryId(img) /\ id # TimerId
             /\ f.filename = host[n].name
             /\ rdfs_id_isDir(img, id) = host[n].dir
             /\ f.data_entry_size = EntrySize(host, n)
             /\ DATA_LOCATION(img, f) \in Nat
             /\ IsRegular(n) =>
                  /\ f.data_entry_size = Len(host[n].data)
                  /\ Bytes(img, DATA_LOCATION(img, f), Len(host[n].data)) = host[n].data
<1> DEFINE n == NodeAt(p)
           f == img.entries[id]
<1>1. /\ n \in DOMAIN host /\ id \in EntryId(img)
      /\ f.filename = host[n].name
      /\ rdfs_id_isDir(img, id) = host[n].dir
      /\ f.data_entry_size = EntrySize(host, n) /\ f.data_block_offset \in Nat
      /\ IsRegular(n) =>
           Bytes(img, DATA_LOCATION(img, f), Len(host[n].data)) = host[n].data
  BY DEF ImageHoldsHost
<1>2. DATA_LOCATION(img, f) \in Nat
  BY <1>1, ImageIds DEF DATA_LOCATION, HEADER_SIZE
<1>3. IsRegular(n) => f.data_entry_size = Len(host[n].data)
  BY <1>1 DEF IsRegular, EntrySize
<1> QED BY <1>1, <1>2, <1>3, ImageIds, HostFacts

\* The entry id of the image im is a file with these bytes.
HasData(im, id, data) ==
  LET f == im.entries[id]
  IN  /\ f.data_entry_size = Len(data) /\ DATA_LOCATION(im, f) \in Nat
      /\ HEADER_SIZE + FILE_DIRECTORY_SIZE * Cardinality(DOMAIN im.entries) \in Nat
      /\ Bytes(im, DATA_LOCATION(im, f), Len(data)) = data

\* m bytes of data, from the one at k on.
Piece(data, k, m) == [i \in 1 .. m |-> data[k + i]]

\* How many of n bytes there are from the one at k on.
Count(data, k, n) == IF n > Len(data) - k THEN Len(data) - k ELSE n

Readable(im, file, n, data) ==
  /\ data \in Seq(Byte) /\ n \in Nat \ {0}
  /\ file.index \in 0 .. Len(data) /\ HasData(im, file.file_id, data)

ReadsPiece(im, file, n, data) ==
  LET r == rdfs_read_file(im, file, n)
      m == Count(data, file.index, n)
  IN  r.size = m /\ r.bytes = Piece(data, file.index, m)

\* rdfs_read_file() of n > 0 bytes gives the bytes from index on, up to the end.
LEMMA ReadFile ==
  ASSUME NEW im, NEW file, NEW n, NEW data, Readable(im, file, n, data)
  PROVE  ReadsPiece(im, file, n, data)
<1> DEFINE r == rdfs_read_file(im, file, n)
           k == file.index
           a == DATA_LOCATION(im, im.entries[file.file_id])
           m == IF n > Len(data) - k THEN Len(data) - k ELSE n
           first == HEADER_SIZE + FILE_DIRECTORY_SIZE * Cardinality(DOMAIN im.entries)
           byte(x) == IF x \in DOMAIN im.data THEN im.data[x] ELSE -1
<1>1. /\ Len(data) \in Nat /\ k \in Nat /\ k <= Len(data) /\ m \in Nat
      /\ k + m <= Len(data) /\ a \in Nat /\ first \in Nat
  <2>1. Len(data) \in Nat /\ k \in Nat /\ k <= Len(data) /\ n \in Nat
    BY DEF Readable
  <2>2. a \in Nat /\ first \in Nat
    BY DEF Readable, HasData
  <2> QED BY <2>1, <2>2
<1>2. /\ Len(data) - k = 0 => r = [size |-> 0, bytes |-> <<>>]
      /\ Len(data) - k # 0 => r = [size |-> m, bytes |-> Bytes(im, a + k, m)]
  BY <1>1 DEF Readable, HasData, rdfs_read_file, memcpy
<1>3. Bytes(im, a, Len(data)) = [i \in 1 .. Len(data) |-> byte(a - first + i)]
      /\ Bytes(im, a + k, m) = [i \in 1 .. m |-> byte((a + k) - first + i)]
  BY DEF Bytes
<1> HIDE DEF r, a, k, first, byte, m
<1>4. ASSUME NEW i \in 1 .. m PROVE byte((a + k) - first + i) = data[k + i]
  <2> DEFINE len == Len(data)
  <2>1. /\ len \in Nat /\ k \in Nat /\ m \in Nat /\ k + m <= len /\ i \in 1 .. m
        /\ a \in Nat /\ first \in Nat
    BY <1>1
  <2> HIDE DEF len
  <2>2. k + i \in 1 .. len /\ (a + k) - first + i = a - first + (k + i)
    BY <2>1
  <2>3. data[k + i] = byte(a - first + (k + i))
    BY <1>3, <2>2 DEF Readable, HasData, a, len
  <2> QED BY <2>2, <2>3
<1>5. CASE Len(data) - k = 0
  <2>1. m = 0
    BY <1>1, <1>5 DEF m
  <2>2. r.size = 0 /\ r.bytes = <<>> /\ 1 .. 0 = {}
    BY <1>2, <1>5
  <2>3. [i \in 1 .. m |-> data[k + i]] = <<>>
    BY <2>1
  <2> QED BY <2>1, <2>2, <2>3 DEF ReadsPiece, Piece, Count, r, m, k
<1>6. CASE Len(data) - k # 0
  <2>1. r.size = m /\ r.bytes = Bytes(im, a + k, m)
    BY <1>2, <1>6
  <2>2. [i \in 1 .. m |-> byte((a + k) - first + i)] = [i \in 1 .. m |-> data[k + i]]
    BY <1>4
  <2> QED BY <1>3, <2>1, <2>2 DEF ReadsPiece, Piece, Count, r, m, k
<1> QED BY <1>5, <1>6

PrefixOf(s, data) ==
  /\ s \in Seq(Byte) /\ Len(s) <= Len(data)
  /\ \A i \in 1 .. Len(s) : s[i] = data[i]

\* Where main() is with its file: it has printed as many bytes as config.index
\* says, and they are the file's.
ConfigProgress ==
  LET data == host[NodeAt(ConfigPath)].data
  IN  /\ PrefixOf(printed, data) /\ Len(printed) = config.index
      /\ boot = "done" => Len(printed) = Len(data)

BootInv ==
  /\ host \in Host
  /\ boot \in {"mount", "list", "open", "read", "done"}
  /\ config \in [file_id : EntryId(img), index : Nat, flags : {0}]
  /\ boot \in {"mount", "list", "open"} => config = Closed /\ printed = <<>>
  /\ boot = "read" => /\ config.file_id \in IdsOf(ConfigPath) \ {NoFile}
                      /\ config.index <= EntrySize(host, NodeAt(ConfigPath))
  /\ boot \in {"read", "done"} /\ IsRegular(NodeAt(ConfigPath)) => ConfigProgress

\* 0 bytes are not asked for: memcpy() copies eight then.
SizesPositive == 0 \notin ReadSize

ReadInv == TableInv /\ BootInv /\ ReadsHostFile

LEMMA InitRead ==
  ASSUME ImageHoldsHost, Init
  PROVE  ReadInv
<1>1. /\ host \in Host /\ boot = "mount" /\ config = Closed /\ printed = <<>>
      /\ got = NoRead
  BY DEF Init
<1>2. config \in [file_id : EntryId(img), index : Nat, flags : {0}]
  BY <1>1, ImageIds DEF Closed
<1>3. BootInv
  BY <1>1, <1>2 DEF BootInv
<1>4. ReadsHostFile
  <2>1. got.node = NoFile /\ NoFile \notin Nat
    BY <1>1 DEF NoRead, NoFile
  <2> QED BY <1>1, <2>1, HostFacts DEF ReadsHostFile, IsRegular
<1> QED BY <1>3, <1>4, InitTable DEF ReadInv

\* Steps that leave main()'s file alone.
LEMMA BootKept ==
  ASSUME BootInv, UNCHANGED <<host, img, config, printed>>,
         \/ boot' = boot
         \/ boot \in {"mount", "list"} /\ boot' \in {"list", "open"}
  PROVE  BootInv'
<1>1. /\ NodeAt(ConfigPath)' = NodeAt(ConfigPath) /\ IdsOf(ConfigPath)' = IdsOf(ConfigPath)
      /\ IsRegular(NodeAt(ConfigPath))' = IsRegular(NodeAt(ConfigPath))
  BY DEF NodeAt, IdsOf, IsRegular
<1>2. /\ boot \in {"read", "done"} => ConfigProgress' = ConfigProgress
      /\ EntrySize(host, NodeAt(ConfigPath))' = EntrySize(host, NodeAt(ConfigPath))
  BY <1>1 DEF ConfigProgress, BootInv
<1>3. /\ host' \in Host
      /\ boot' \in {"mount", "list", "open", "read", "done"}
      /\ config' \in [file_id : EntryId(img'), index : Nat, flags : {0}]
      /\ boot' \in {"mount", "list", "open"} => config' = Closed /\ printed' = <<>>
  BY DEF BootInv
<1>4. boot' \in {"read", "done"} => boot' = boot
  OBVIOUS
<1> QED BY <1>1, <1>2, <1>3, <1>4 DEF BootInv

LEMMA ConfigInPath == ConfigPath \in Path
BY FilesAssumption DEF FilesAssumption

LEMMA OpenConfigBoot ==
  ASSUME BootInv, ImageHoldsHost, OpenConfig
  PROVE  BootInv'
<1>1. PICK id \in IdsOf(ConfigPath) :
        /\ boot = "open" /\ boot' = IF id = NoFile THEN "done" ELSE "read"
        /\ config' = IF id = NoFile THEN config ELSE rdfs_open_file_id(id)
  BY DEF OpenConfig
<1>2. UNCHANGED <<host, img, printed>>
  BY DEF OpenConfig
<1>3. /\ NodeAt(ConfigPath)' = NodeAt(ConfigPath) /\ IdsOf(ConfigPath)' = IdsOf(ConfigPath)
      /\ IsRegular(NodeAt(ConfigPath))' = IsRegular(NodeAt(ConfigPath))
  BY <1>2 DEF NodeAt, IdsOf, IsRegular
<1>4. host \in Host /\ config = Closed /\ printed = <<>>
      /\ config \in [file_id : EntryId(img), index : Nat, flags : {0}]
  BY <1>1 DEF BootInv
<1>5. CASE id = NoFile
  <2>1. boot' = "done" /\ config' = config
    BY <1>1, <1>5
  <2>2. ~IsRegular(NodeAt(ConfigPath))
    <3>1. NodeAt(ConfigPath) # NoFile => id \in EntryId(img)
      BY ConfigInPath DEF ImageHoldsHost
    <3>2. NoFile \notin EntryId(img) /\ NoFile \notin Nat
      BY <1>4, ImageIds, HostFacts DEF NoFile
    <3>3. NodeAt(ConfigPath) = NoFile
      BY <1>5, <3>1, <3>2
    <3> QED BY <1>4, <3>2, <3>3, HostFacts DEF IsRegular
  <2> QED BY <1>2, <1>3, <1>4, <2>1, <2>2 DEF BootInv
<1>6. CASE id # NoFile
  <2>1. boot' = "read" /\ config' = [file_id |-> id, index |-> 0, flags |-> 0]
    BY <1>1, <1>6 DEF rdfs_open_file_id, Closed
  <2>2. NodeAt(ConfigPath) \in DOMAIN host /\ id \in EntryId(img)
    BY <1>4, <1>6, ConfigInPath, Looked
  <2>3. config' \in [file_id : EntryId(img), index : Nat, flags : {0}]
        /\ config'.file_id = id /\ config'.index = 0
    BY <2>1, <2>2
  <2>4. EntrySize(host, NodeAt(ConfigPath)) \in Nat
        /\ host[NodeAt(ConfigPath)].data \in Seq(Byte)
    BY <1>4, <2>2, HostFacts DEF FileKnown
  <2>5. EntrySize(host, NodeAt(ConfigPath))' = EntrySize(host, NodeAt(ConfigPath))
    BY <1>2, <1>3
  <2>6. ConfigProgress'
    <3>1. PrefixOf(<<>>, host[NodeAt(ConfigPath)].data) /\ Len(<<>>) = 0
      BY <2>4 DEF PrefixOf
    <3> QED BY <1>2, <1>3, <1>4, <2>1, <2>3, <3>1 DEF ConfigProgress
  <2> QED BY <1>2, <1>3, <1>4, <1>6, <2>1, <2>3, <2>4, <2>5, <2>6 DEF BootInv
<1> QED BY <1>5, <1>6

\* What rdfs_read_file() returns stays within the entry, of whatever kind.
LEMMA ReadWithin ==
  ASSUME NEW im, NEW file, NEW size \in Nat, NEW n \in Nat,
         im.entries[file.file_id].data_entry_size = size,
         file.index \in 0 .. size
  PROVE  LET r == rdfs_read_file(im, file, n)
         IN  r.size \in Nat /\ file.index + r.size <= size
<1> DEFINE remain == size - file.index
           m == IF n > remain THEN remain ELSE n
<1>1. rdfs_read_file(im, file, n).size = IF remain = 0 THEN 0 ELSE m
  BY DEF rdfs_read_file
<1> QED BY <1>1

\* A prefix followed by the next m bytes is a prefix.
LEMMA PrefixGrows ==
  ASSUME NEW data \in Seq(Byte), NEW s, PrefixOf(s, data), NEW m \in Nat, NEW b,
         Len(s) + m <= Len(data), b = Piece(data, Len(s), m)
  PROVE  PrefixOf(s \o b, data) /\ Len(s \o b) = Len(s) + m
<1> DEFINE k == Len(s)
           len == Len(data)
<1>1. s \in Seq(Byte) /\ k \in Nat /\ len \in Nat /\ k + m <= len
  BY DEF PrefixOf
<1> HIDE DEF k, len
<1>2. ASSUME NEW i \in 1 .. m PROVE data[k + i] \in Byte
  <2>1. k + i \in 1 .. len
    BY <1>1
  <2> QED BY <2>1, ElementOfSeq DEF len
<1>3. b \in Seq(Byte) /\ Len(b) = m /\ \A i \in 1 .. m : b[i] = data[k + i]
  BY <1>2 DEF k, Piece
<1>4. /\ s \o b \in Seq(Byte) /\ Len(s \o b) = k + m
      /\ \A i \in 1 .. k + m : (s \o b)[i] = IF i <= k THEN s[i] ELSE b[i - k]
  BY <1>1, <1>3, ConcatProperties DEF k
<1>5. ASSUME NEW i \in 1 .. k + m PROVE (s \o b)[i] = data[i]
  <2>1. CASE i <= k
    <3>1. i \in 1 .. k
      BY <1>1, <2>1
    <3> QED BY <1>4, <2>1, <3>1 DEF k, PrefixOf
  <2>2. CASE i > k
    <3>1. i - k \in 1 .. m /\ k + (i - k) = i /\ ~(i <= k)
      BY <1>1, <2>2
    <3>2. b[i - k] = data[k + (i - k)]
      BY <1>3, <3>1
    <3> QED BY <1>4, <3>1, <3>2
  <2>3. i <= k \/ i > k
    BY <1>1
  <2> QED BY <2>1, <2>2, <2>3, Zenon
<1>6. PrefixOf(s \o b, data)
  BY <1>1, <1>4, <1>5 DEF PrefixOf, len
<1> QED BY <1>4, <1>6 DEF k

LEMMA ReadConfigBoot ==
  ASSUME BootInv, ImageHoldsHost, ReadConfig
  PROVE  BootInv'
<1> DEFINE r == rdfs_read_file(img, config, 1)
           node == NodeAt(ConfigPath)
           size == EntrySize(host, node)
<1>1. /\ boot = "read" /\ boot' = IF r.size = 0 THEN "done" ELSE "read"
      /\ config' = Advanced(config, r.size)
      /\ printed' = printed \o r.bytes
      /\ UNCHANGED <<host, img>>
  BY DEF ReadConfig
<1>2. /\ node' = node /\ IdsOf(ConfigPath)' = IdsOf(ConfigPath)
      /\ IsRegular(node)' = IsRegular(node) /\ size' = size
  BY <1>1 DEF NodeAt, IdsOf, IsRegular
<1>3. /\ host \in Host /\ config.file_id \in IdsOf(ConfigPath) \ {NoFile}
      /\ config \in [file_id : EntryId(img), index : Nat, flags : {0}]
      /\ config.index <= size
  BY <1>1 DEF BootInv
<1>4. /\ node \in DOMAIN host
      /\ img.entries[config.file_id].data_entry_size = size
  BY <1>3, ConfigInPath, Looked
<1>5. size \in Nat /\ host[node].data \in Seq(Byte)
  BY <1>3, <1>4, HostFacts DEF FileKnown
<1>6. r.size \in Nat /\ config.index + r.size <= size
  <2> HIDE DEF size
  <2>1. config.index \in 0 .. size
    BY <1>3, <1>5
  <2> QED BY <1>4, <1>5, <2>1, ReadWithin
<1> HIDE DEF r
<1>7. /\ config' \in [file_id : EntryId(img), index : Nat, flags : {0}]
      /\ config'.file_id = config.file_id /\ config'.index = config.index + r.size
  BY <1>1, <1>3, <1>6 DEF Advanced
<1>8. ASSUME IsRegular(node) PROVE ConfigProgress'
  <2> DEFINE data == host[node].data
             k == config.index
             m == Count(data, k, 1)
  <2>1. /\ PrefixOf(printed, data) /\ Len(printed) = k /\ k \in Nat /\ k <= Len(data)
        /\ Len(data) \in Nat
    BY <1>1, <1>3, <1>5, <1>8 DEF BootInv, ConfigProgress, PrefixOf
  <2>2. /\ img.entries[config.file_id].data_entry_size = Len(data)
        /\ DATA_LOCATION(img, img.entries[config.file_id]) \in Nat
        /\ Bytes(img, DATA_LOCATION(img, img.entries[config.file_id]), Len(data)) = data
    BY <1>3, <1>8, ConfigInPath, Looked
  <2>3. data \in Seq(Byte) /\ host'[NodeAt(ConfigPath)'].data = data
    BY <1>1, <1>2, <1>5
  <2> HIDE DEF data
  <2>4. r.size = m /\ r.bytes = Piece(data, k, m)
    <3>1. config.index \in 0 .. Len(data)
      BY <2>1
    <3>2. HasData(img, config.file_id, data)
      BY <1>3, <2>2, ImageIds DEF HasData
    <3>3. 1 \in Nat \ {0}
      OBVIOUS
    <3>4. Readable(img, config, 1, data)
      BY <2>3, <3>1, <3>2, <3>3 DEF Readable
    <3>5. ReadsPiece(img, config, 1, data)
      BY <3>4, ReadFile
    <3> QED BY <3>5 DEF ReadsPiece, r
  <2>5. m \in Nat /\ (m = 0 => k = Len(data)) /\ Len(printed) + m <= Len(data)
    BY <2>1 DEF Count
  <2> HIDE DEF m
  <2>6. PrefixOf(printed', data) /\ Len(printed') = Len(printed) + m
    <3> DEFINE b == r.bytes
    <3>1. b = Piece(data, Len(printed), m) /\ printed' = printed \o b
      BY <1>1, <2>1, <2>4
    <3> HIDE DEF b
    <3>2. /\ data \in Seq(Byte) /\ PrefixOf(printed, data) /\ m \in Nat
          /\ Len(printed) + m <= Len(data) /\ b = Piece(data, Len(printed), m)
      BY <2>1, <2>3, <2>5, <3>1
    <3>3. PrefixOf(printed \o b, data) /\ Len(printed \o b) = Len(printed) + m
      BY <3>2, PrefixGrows, ZenonT(60)
    <3> QED BY <3>1, <3>3
  <2>7. boot' = "done" => Len(printed) + m = Len(data)
    BY <1>1, <2>1, <2>4, <2>5
  <2>8. config'.index = Len(printed) + m
    BY <1>7, <2>1, <2>4
  <2> QED BY <2>3, <2>5, <2>6, <2>7, <2>8 DEF ConfigProgress
<1>9. boot' \in {"done", "read"}
  BY <1>1
<1> HIDE DEF size
<1>10. boot' = "read" => /\ config'.file_id \in IdsOf(ConfigPath)' \ {NoFile}
                         /\ config'.index <= size'
  BY <1>2, <1>3, <1>6, <1>7
<1>11. config' \in [file_id : EntryId(img'), index : Nat, flags : {0}] /\ host' \in Host
  BY <1>1, <1>3, <1>7
<1> QED BY <1>2, <1>8, <1>9, <1>10, <1>11 DEF BootInv, size

\* What ReadsHostFile says of a read from the start of a file.
FirstOf(data, n) == IF n > Len(data) THEN data ELSE SubSeq(data, 1, n)

LEMMA FirstBytes ==
  ASSUME NEW data \in Seq(Byte), NEW n \in Nat
  PROVE  Piece(data, 0, Count(data, 0, n)) = FirstOf(data, n)
<1> DEFINE m == Count(data, 0, n)
<1>1. Piece(data, 0, m) = [i \in 1 .. m |-> data[i]]
  BY DEF Piece
<1>2. data = [i \in 1 .. Len(data) |-> data[i]] /\ Len(data) \in Nat
  OBVIOUS
<1>3. SubSeq(data, 1, n) = [i \in 1 .. n |-> data[i]]
  <2>1. SubSeq(data, 1, n) = [i \in 1 .. (1 + n) - 1 |-> data[(i + 1) - 1]]
    OBVIOUS
  <2> QED BY <2>1
<1>4. CASE n > Len(data)
  <2>1. m = Len(data)
    BY <1>2, <1>4 DEF Count
  <2> QED BY <1>1, <1>2, <1>4, <2>1 DEF FirstOf
<1>5. CASE ~(n > Len(data))
  <2>1. m = n
    BY <1>2, <1>5 DEF Count
  <2> QED BY <1>1, <1>3, <1>5, <2>1 DEF FirstOf
<1> QED BY <1>4, <1>5

LEMMA ReadFromStart ==
  ASSUME NEW im, NEW file, NEW data \in Seq(Byte), NEW n \in Nat \ {0},
         file.index = 0, HasData(im, file.file_id, data)
  PROVE  rdfs_read_file(im, file, n).bytes = FirstOf(data, n)
<1>1. file.index \in 0 .. Len(data)
  OBVIOUS
<1>2. Readable(im, file, n, data)
  BY <1>1 DEF Readable
<1>3. ReadsPiece(im, file, n, data)
  BY <1>2, ReadFile
<1> QED BY <1>3, FirstBytes DEF ReadsPiece

LEMMA FileFound ==
  ASSUME host \in Host, ImageHoldsHost, NEW p \in Path, NEW id \in IdsOf(p), id # NoFile,
         IsRegular(NodeAt(p))
  PROVE  /\ HasData(img, id, host[NodeAt(p)].data) /\ id # TimerId
         /\ host[NodeAt(p)].data \in Seq(Byte)
<1>1. HEADER_SIZE + FILE_DIRECTORY_SIZE * Cardinality(DOMAIN img.entries) \in Nat
  BY ImageIds
<1>2. host[NodeAt(p)].data \in Seq(Byte)
  BY HostFacts DEF IsRegular, FileKnown
<1> QED BY <1>1, <1>2, Looked DEF HasData

LEMMA ReadGot ==
  ASSUME ReadInv, ImageHoldsHost, SizesPositive,
         NEW t \in Task, NEW fd \in Fd, NEW n \in ReadSize, Read(t, fd, n)
  PROVE  ReadsHostFile'
<1> DEFINE file == table[t].file[fd]
           node == opened[t][fd]
           data == host[node].data
<1>1. /\ got' = [node |-> node, all |-> FALSE, size |-> n,
                 bytes |-> IF file.file_id = TimerId THEN <<0, 0, 0, 0>>
                           ELSE rdfs_read_file(img, file, n).bytes]
      /\ UNCHANGED <<host, img>>
  BY DEF Read, mount
<1>2. host \in Host /\ n \in Nat \ {0} /\ table[t] \in FdTable /\ NodeOf(table[t], opened[t], fd)
  BY TaskFacts, FilesAssumption DEF ReadInv, BootInv, SizesPositive, FilesAssumption
<1>3. file \in FileT
  BY <1>2 DEF FdTable
<1>4. file.index = 0
  BY <1>3 DEF FileT
<1> SUFFICES ASSUME IsRegular(node)
             PROVE  got'.bytes = FirstOf(data, n)
  <2> HIDE DEF file
  <2> QED BY <1>1 DEF ReadsHostFile, IsRegular, FirstOf
<1>5. node \in Nat
  BY <1>2, HostFacts DEF IsRegular
<1>6. PICK p \in Path : node = NodeAt(p) /\ file.file_id \in IdsOf(p) \ {NoFile}
  BY <1>2, <1>5 DEF NodeOf, NoFile, TimerNode
<1>7. HasData(img, file.file_id, data) /\ file.file_id # TimerId /\ data \in Seq(Byte)
  BY <1>2, <1>6, FileFound
<1>8. got'.bytes = rdfs_read_file(img, file, n).bytes
  BY <1>1, <1>7
<1> HIDE DEF file, data
<1> QED BY <1>2, <1>4, <1>7, <1>8, ReadFromStart

LEMMA LoadGot ==
  ASSUME ReadInv, ImageHoldsHost, NEW t \in Task, NEW p \in Path, LoadProgram(t, p)
  PROVE  ReadsHostFile'
<1>1. PICK id \in IdsOf(p) \ {NoFile, Wild} :
        got' = [node |-> NodeAt(p), all |-> TRUE, size |-> rdfs_getattr_size(img, id),
                bytes |-> rdfs_read_file(img, rdfs_open_file_id(id),
                                         rdfs_getattr_size(img, id)).bytes]
  BY DEF LoadProgram
<1> DEFINE file == rdfs_open_file_id(id)
           data == host[NodeAt(p)].data
           n == rdfs_getattr_size(img, id)
<1>2. UNCHANGED <<host, img>> /\ host \in Host
  BY DEF LoadProgram, mount, ReadInv, BootInv
<1> SUFFICES ASSUME IsRegular(NodeAt(p))
             PROVE  got'.bytes = data
  <2>1. got'.node = NodeAt(p) /\ got'.all = TRUE
    BY <1>1
  <2>2. ASSUME IsRegular(got.node)' PROVE IsRegular(NodeAt(p))
    BY <1>2, <2>1, <2>2 DEF IsRegular
  <2>3. host'[got'.node].data = data
    BY <1>2, <2>1
  <2> HIDE DEF data
  <2> QED BY <2>1, <2>2, <2>3 DEF ReadsHostFile
<1>3. file.file_id = id /\ file.index = 0
  BY DEF rdfs_open_file_id, Closed
<1>4. HasData(img, id, data) /\ data \in Seq(Byte)
  BY <1>2, FileFound
<1>5. n = Len(data) /\ n \in Nat
  BY <1>4 DEF HasData, rdfs_getattr_size
<1>6. got'.bytes = rdfs_read_file(img, file, n).bytes
  BY <1>1
<1> HIDE DEF file, data, n
<1>7. CASE n = 0
  <2>1. rdfs_read_file(img, file, n).bytes = <<>>
    BY <1>3, <1>4, <1>5, <1>7 DEF rdfs_read_file, HasData
  <2>2. data = <<>>
    BY <1>4, <1>5, <1>7, EmptySeq
  <2> QED BY <1>6, <2>1, <2>2
<1>8. CASE n # 0
  <2>1. rdfs_read_file(img, file, n).bytes = FirstOf(data, n)
    BY <1>3, <1>4, <1>5, <1>8, ReadFromStart
  <2>2. FirstOf(data, n) = data
    BY <1>4, <1>5 DEF FirstOf
  <2> QED BY <1>6, <2>1, <2>2
<1> QED BY <1>7, <1>8


\* A step that forgets the last read, or keeps it with the host.
LEMMA GotKept ==
  ASSUME BootInv, ReadsHostFile, host' = host, got' = got \/ got' = NoRead
  PROVE  ReadsHostFile'
<1>1. CASE got' = got
  BY <1>1 DEF ReadsHostFile, IsRegular
<1>2. CASE got' = NoRead
  <2>1. got'.node = NoFile /\ NoFile \notin Nat
    BY <1>2 DEF NoRead, NoFile
  <2>2. DOMAIN host' \subseteq Nat
    BY HostFacts DEF BootInv
  <2> QED BY <2>1, <2>2 DEF ReadsHostFile, IsRegular
<1> QED BY <1>1, <1>2

LEMMA NextRead ==
  ASSUME SizesPositive, ReadInv, ImageHoldsHost, [Next]_vars
  PROVE  ReadInv'
<1> USE DEF ReadInv
<1>1. TableInv'
  BY NextTable
<1>2. CASE Mount
  BY <1>1, <1>2, BootKept, GotKept DEF Mount
<1>3. CASE OpenConfig
  BY <1>1, <1>3, OpenConfigBoot, GotKept DEF OpenConfig
<1>4. CASE ReadConfig
  BY <1>1, <1>4, ReadConfigBoot, GotKept DEF ReadConfig
<1>5. ASSUME NEW p \in Path, ListDir(p) PROVE ReadInv'
  BY <1>1, <1>5, BootKept, GotKept DEF ListDir
<1>6. ASSUME UNCHANGED mount PROVE BootInv' /\ host' = host
  BY <1>6, BootKept DEF mount
<1>7. ASSUME NEW t \in Task, NEW p \in Path, LoadProgram(t, p) PROVE ReadInv'
  <2>1. UNCHANGED mount
    BY <1>7 DEF LoadProgram
  <2> QED BY <1>1, <1>6, <1>7, <2>1, LoadGot
<1>8. ASSUME NEW t \in Task, NEW fd \in Fd, NEW n \in ReadSize, Read(t, fd, n) PROVE ReadInv'
  <2>1. UNCHANGED mount
    BY <1>8 DEF Read
  <2> QED BY <1>1, <1>6, <1>8, <2>1, ReadGot
<1>9. ASSUME UNCHANGED mount, got' = got \/ got' = NoRead PROVE ReadInv'
  BY <1>1, <1>6, <1>9, GotKept
<1>10. ASSUME NEW t \in Task, NEW p \in Path, Open(t, p) PROVE ReadInv'
  <2>1. UNCHANGED mount /\ got' = NoRead
    BY <1>10 DEF Open
  <2> QED BY <1>9, <2>1
<1>11. ASSUME NEW t \in Task, NEW fd \in Fd, Close(t, fd) PROVE ReadInv'
  BY <1>9, <1>11 DEF Close
<1>12. ASSUME NEW t \in Task, NEW c \in Task, Fork(t, c) PROVE ReadInv'
  BY <1>9, <1>12 DEF Fork
<1>13. ASSUME NEW t \in Task, Exit(t) PROVE ReadInv'
  BY <1>9, <1>13 DEF Exit
<1>14. CASE UNCHANGED vars
  BY <1>9, <1>14 DEF vars
<1> HIDE DEF ReadInv
<1> QED BY <1>2, <1>3, <1>4, <1>5, <1>7, <1>8, <1>10, <1>11, <1>12, <1>13, <1>14 DEF Next


\* The image is read-only, and so is the record of what it was built from.
LEMMA ImageStays ==
  ASSUME ImageHoldsHost, [Next]_vars
  PROVE  ImageHoldsHost'
<1>1. host' = host /\ img' = img
  <2>1. CASE UNCHANGED vars
    BY <2>1 DEF vars, mount
  <2>2. CASE Mount \/ OpenConfig \/ ReadConfig \/ \E p \in Path : ListDir(p)
    BY <2>2 DEF Mount, OpenConfig, ReadConfig, ListDir
  <2>3. ASSUME NEW t \in Task,
               \/ \E p \in Path : LoadProgram(t, p) \/ Open(t, p)
               \/ \E fd \in Fd : Close(t, fd) \/ \E n \in ReadSize : Read(t, fd, n)
               \/ \E c \in Task : Fork(t, c)
               \/ Exit(t)
        PROVE  host' = host /\ img' = img
    BY <2>3 DEF LoadProgram, Open, Close, Read, Fork, Exit, mount
  <2> QED BY <2>1, <2>2, <2>3 DEF Next
<1> QED BY <1>1 DEF ImageHoldsHost, IdsOf, NodeAt, IsRegular

\* The part of the argument that does not depend on the sizes that are read.
OpenInv == TableInv /\ BootInv

LEMMA NextOpen ==
  ASSUME OpenInv, ImageHoldsHost, [Next]_vars
  PROVE  OpenInv'
<1> USE DEF OpenInv
<1>1. TableInv'
  BY NextTable
<1>2. CASE Mount
  BY <1>1, <1>2, BootKept DEF Mount
<1>3. CASE OpenConfig
  BY <1>1, <1>3, OpenConfigBoot DEF OpenConfig
<1>4. CASE ReadConfig
  BY <1>1, <1>4, ReadConfigBoot DEF ReadConfig
<1>5. ASSUME NEW p \in Path, ListDir(p) PROVE OpenInv'
  BY <1>1, <1>5, BootKept DEF ListDir
<1>6. ASSUME UNCHANGED mount PROVE OpenInv'
  BY <1>1, <1>6, BootKept DEF mount
<1>7. ASSUME NEW t \in Task,
             \/ \E p \in Path : LoadProgram(t, p) \/ Open(t, p)
             \/ \E fd \in Fd : Close(t, fd) \/ \E n \in ReadSize : Read(t, fd, n)
             \/ \E c \in Task : Fork(t, c)
             \/ Exit(t)
      PROVE  UNCHANGED mount
  BY <1>7 DEF LoadProgram, Open, Close, Read, Fork, Exit
<1>8. CASE UNCHANGED vars
  BY <1>6, <1>8 DEF vars
<1> HIDE DEF OpenInv
<1> QED BY <1>2, <1>3, <1>4, <1>5, <1>6, <1>7, <1>8 DEF Next

\* Opening and main()'s reading, on an image that holds the host's files.
THEOREM OpenInvariance == Spec /\ ImageHoldsHost => [](OpenInv /\ ImageHoldsHost)
<1>1. Init /\ ImageHoldsHost => OpenInv
  BY InitRead DEF ReadInv, OpenInv
<1>2. OpenInv /\ ImageHoldsHost /\ [Next]_vars => OpenInv' /\ ImageHoldsHost'
  BY NextOpen, ImageStays
<1> QED BY <1>1, <1>2, PTL DEF Spec

\* Ids and nodes the tables hold.
LEMMA TablesKnown ==
  ASSUME OpenInv, ImageHoldsHost
  PROVE  /\ KnownId \subseteq EntryId(img) \cup {TimerId}
         /\ opened \in [Task -> [Fd -> DOMAIN host \cup {NoFile, TimerNode}]]
<1>1. host \in Host
  BY DEF OpenInv, BootInv
<1>2. ASSUME NEW p \in Path, NEW id \in IdsOf(p), id # NoFile
      PROVE  id \in EntryId(img) /\ NodeAt(p) \in DOMAIN host
  BY <1>1, <1>2, Looked
<1>3. KnownId \subseteq EntryId(img) \cup {TimerId}
  BY <1>1, <1>2, ImageIds DEF KnownId
<1>4. ASSUME NEW t \in Task, NEW fd \in Fd
      PROVE  opened[t][fd] \in DOMAIN host \cup {NoFile, TimerNode}
  BY <1>2 DEF OpenInv, TableInv, NodesFollow
<1>5. opened \in [Task -> [Fd -> KnownNode]]
  BY DEF OpenInv, TableInv, TablesTyped
<1> QED BY <1>3, <1>4, <1>5

\* Type correctness, for an image that holds the host's files.
THEOREM TypeCorrect == Spec /\ ImageHoldsHost => []TypeOK
<1>1. ASSUME OpenInv, ImageHoldsHost PROVE TypeOK
  <2>1. /\ boot \in {"mount", "list", "open", "read", "done"}
        /\ config.file_id \in EntryId(img) /\ config.index \in Nat
        /\ table \in [Task -> FdTable]
        /\ life \in [Task -> {"absent", "alive", "zombie"}]
    BY <1>1 DEF OpenInv, BootInv, TableInv, TablesTyped
  <2>2. /\ KnownId \subseteq EntryId(img) \cup {TimerId}
        /\ opened \in [Task -> [Fd -> DOMAIN host \cup {NoFile, TimerNode}]]
    BY <1>1, TablesKnown
  <2>3. ASSUME NEW t \in Task
        PROVE  /\ table[t].alloc \in BOOLEAN
               /\ table[t].bitmap \subseteq Fd
               /\ table[t].file \in [Fd -> [file_id : EntryId(img) \cup {TimerId},
                                            index : Nat, flags : {0, 1}]]
    <3>1. /\ table[t].alloc \in BOOLEAN /\ table[t].bitmap \subseteq Fd
          /\ table[t].file \in [Fd -> FileT]
      BY <2>1 DEF FdTable
    <3>2. FileT \subseteq [file_id : EntryId(img) \cup {TimerId}, index : Nat, flags : {0, 1}]
      BY <2>2 DEF FileT
    <3> QED BY <3>1, <3>2
  <2> QED BY <2>1, <2>2, <2>3 DEF TypeOK
<1> QED BY <1>1, OpenInvariance, PTL

\* An open descriptor refers to the host's file at the path it was opened with,
\* if the image holds the host's files, whatever is opened and closed.
THEOREM DescriptorsFollowPaths == Spec /\ ImageHoldsHost => []OpenedByPath
<1>1. ASSUME OpenInv, ImageHoldsHost, NEW t \in Task, NEW fd \in table[t].bitmap
      PROVE  LET n  == opened[t][fd]
                 id == table[t].file[fd].file_id
             IN  IF n = TimerNode THEN id = TimerId
                 ELSE /\ n # NoFile
                      /\ img.entries[id].filename = host[n].name
                      /\ rdfs_id_isDir(img, id) = host[n].dir
                      /\ host[n].dir \/ rdfs_getattr_size(img, id) = Len(host[n].data)
  <2> DEFINE n  == opened[t][fd]
             id == table[t].file[fd].file_id
  <2>1. host \in Host /\ fd \in Fd
    BY <1>1 DEF OpenInv, BootInv, TableInv, TablesTyped, FdTable
  <2>2. CASE n = TimerNode /\ id = TimerId
    BY <2>2
  <2>3. ASSUME NEW p \in Path, n = NodeAt(p), id \in IdsOf(p) \ {NoFile}
        PROVE  /\ n # TimerNode /\ n # NoFile
               /\ img.entries[id].filename = host[n].name
               /\ rdfs_id_isDir(img, id) = host[n].dir
               /\ host[n].dir \/ rdfs_getattr_size(img, id) = Len(host[n].data)
    <3>1. /\ n \in Nat /\ n \in DOMAIN host
          /\ img.entries[id].filename = host[n].name
          /\ rdfs_id_isDir(img, id) = host[n].dir
          /\ IsRegular(n) => img.entries[id].data_entry_size = Len(host[n].data)
      BY <1>1, <2>1, <2>3, Looked
    <3>2. n # TimerNode /\ n # NoFile
      BY <3>1 DEF TimerNode, NoFile
    <3> QED BY <3>1, <3>2 DEF IsRegular, rdfs_getattr_size
  <2>4. (n = TimerNode /\ id = TimerId)
        \/ \E p \in Path : n = NodeAt(p) /\ id \in IdsOf(p) \ {NoFile}
    BY <1>1, <2>1 DEF OpenInv, TableInv, NodesFollow
  <2> HIDE DEF n, id
  <2>5. CASE n # TimerNode
    <3>1. PICK p \in Path : n = NodeAt(p) /\ id \in IdsOf(p) \ {NoFile}
      BY <2>4, <2>5
    <3> QED BY <2>3, <2>5, <3>1 DEF n, id
  <2>6. CASE n = TimerNode
    <3>1. id = TimerId
      BY <2>3, <2>4, <2>6
    <3> QED BY <2>6, <3>1 DEF n, id
  <2> QED BY <2>5, <2>6
<1>2. OpenInv /\ ImageHoldsHost => OpenedByPath
  BY <1>1 DEF OpenedByPath
<1> QED BY <1>2, OpenInvariance, PTL

LEMMA PrefixIs ==
  ASSUME NEW data \in Seq(Byte), NEW s, PrefixOf(s, data)
  PROVE  IsPrefix(s, data) /\ (Len(s) = Len(data) => s = data)
<1>1. s \in Seq(Byte) /\ Len(s) \in Nat /\ Len(data) \in Nat /\ Len(s) <= Len(data)
      /\ \A i \in 1 .. Len(s) : s[i] = data[i]
  BY DEF PrefixOf
<1>2. SubSeq(data, 1, Len(s)) = [i \in 1 .. Len(s) |-> data[i]]
  <2>1. SubSeq(data, 1, Len(s)) = [i \in 1 .. (1 + Len(s)) - 1 |-> data[(i + 1) - 1]]
    BY <1>1
  <2> QED BY <1>1, <2>1
<1>3. s = [i \in 1 .. Len(s) |-> s[i]] /\ data = [i \in 1 .. Len(data) |-> data[i]]
  BY <1>1
<1>4. SubSeq(s, 1, Len(s)) = s
  BY <1>1
<1>5. SubSeq(s, 1, Len(s)) = SubSeq(data, 1, Len(s))
  BY <1>1, <1>2, <1>3, <1>4
<1>6. Len(s) = Len(data) => s = data
  BY <1>1, <1>3
<1> QED BY <1>1, <1>5, <1>6 DEF IsPrefix

\* main() prints the configuration file byte by byte, each once and in order,
\* and stops at its end.
THEOREM ConfigIsPrinted == Spec /\ ImageHoldsHost => []ConfigPrinted
<1>1. ASSUME OpenInv, ImageHoldsHost PROVE ConfigPrinted
  <2> DEFINE data == host[NodeAt(ConfigPath)].data
  <2> SUFFICES ASSUME IsRegular(NodeAt(ConfigPath))
               PROVE  IsPrefix(printed, data) /\ (boot = "done" => printed = data)
    BY DEF ConfigPrinted
  <2>1. /\ host \in Host
        /\ boot \in {"mount", "list", "open"} => printed = <<>>
        /\ boot \in {"read", "done"} => ConfigProgress
        /\ boot \in {"mount", "list", "open", "read", "done"}
    BY <1>1 DEF OpenInv, BootInv
  <2>2. data \in Seq(Byte)
    BY <2>1, HostFacts DEF IsRegular, FileKnown
  <2>3. CASE boot \in {"mount", "list", "open"}
    <3>1. PrefixOf(<<>>, data)
      <4> HIDE DEF data
      <4>1. <<>> \in Seq(Byte) /\ Len(<<>>) = 0 /\ Len(data) \in Nat
        BY <2>2
      <4> QED BY <4>1 DEF PrefixOf
    <3> HIDE DEF data
    <3> QED BY <2>1, <2>2, <2>3, <3>1, PrefixIs
  <2>4. CASE boot \in {"read", "done"}
    <3>1. PrefixOf(printed, data) /\ (boot = "done" => Len(printed) = Len(data))
      BY <2>1, <2>4 DEF ConfigProgress
    <3> HIDE DEF data
    <3> QED BY <2>2, <3>1, PrefixIs
  <2> QED BY <2>1, <2>3, <2>4
<1> QED BY <1>1, OpenInvariance, PTL

\* A read gives the host's bytes at the path the descriptor was opened with,
\* from the file's start, and kernel_task() gets the whole program, provided that
\* no read asks for 0 bytes.
THEOREM ReadsAreRight ==
  ASSUME SizesPositive
  PROVE  Spec /\ ImageHoldsHost => []ReadsHostFile
<1>1. Init /\ ImageHoldsHost => ReadInv
  BY InitRead
<1>2. ReadInv /\ ImageHoldsHost /\ [Next]_vars => ReadInv' /\ ImageHoldsHost'
  BY NextRead, ImageStays
<1>3. ReadInv => ReadsHostFile
  BY DEF ReadInv
<1> QED BY <1>1, <1>2, <1>3, PTL DEF Spec

-----------------------------------------------------------------------------
(***************************************************************************)
(* Listing directories.                                                    *)
(***************************************************************************)
\* Numbers that LittleEndian keeps.
MaxNumber == 16777216

\* The three bytes that rdfs.c puts together again are the id.
LEMMA WordRead ==
  ASSUME NEW c \in Nat, c < MaxNumber
  PROVE  LET b == LittleEndian(c)
         IN  /\ -1 \notin Range(b) /\ \A i \in 4 .. 8 : b[i] = 0
             /\ b[1] + 256 * b[2] + 65536 * b[3] = c
<1> DEFINE b == LittleEndian(c)
<1>1. /\ DOMAIN b = 1 .. 8
      /\ b[1] = c % 256 /\ b[2] = (c \div 256) % 256 /\ b[3] = (c \div 65536) % 256
      /\ b[4] = 0 /\ b[5] = 0 /\ b[6] = 0 /\ b[7] = 0 /\ b[8] = 0
  BY DEF LittleEndian
<1> HIDE DEF b
<1>2. \A i \in 4 .. 8 : b[i] = 0
  <2>1. \A i \in 4 .. 8 : i = 4 \/ i = 5 \/ i = 6 \/ i = 7 \/ i = 8
    OBVIOUS
  <2> QED BY <1>1, <2>1
<1>3. b[1] + 256 * b[2] + 65536 * b[3] = c
  <2>1. (c \div 65536) % 256 = c \div 65536
    BY DEF MaxNumber
  <2>2. (c % 256) + 256 * ((c \div 256) % 256) + 65536 * (c \div 65536) = c
    OBVIOUS
  <2> QED BY <1>1, <2>1, <2>2
<1>4. \A i \in 1 .. 8 : b[i] >= 0
  <2>1. c % 256 >= 0 /\ (c \div 256) % 256 >= 0 /\ (c \div 65536) % 256 >= 0
    OBVIOUS
  <2>2. \A i \in 1 .. 8 : i = 1 \/ i = 2 \/ i = 3 \/ i \in 4 .. 8
    OBVIOUS
  <2> QED BY <1>1, <1>2, <2>1, <2>2
<1>5. -1 \notin Range(b)
  BY <1>1, <1>4 DEF Range
<1> QED BY <1>2, <1>3, <1>5 DEF b

\* What rdfs_readdir() gives for a node that a lookup has found.
LEMMA Listed ==
  ASSUME TimerId <= MaxNumber, host \in Host, ImageHoldsHost,
         NEW p \in Path, NEW id \in IdsOf(p), id # NoFile
  PROVE  LET ids  == rdfs_readdir_id(img, id)
             kids == host[NodeAt(p)].children
         IN  /\ Len(ids) = Len(kids)
             /\ \A i \in DOMAIN kids : img.entries[ids[i]].filename = host[kids[i]].name
<1> DEFINE n    == NodeAt(p)
           f    == img.entries[id]
           kids == host[n].children
           list == rdfs_get_file_list_from_dir_id(img, id)
           at(k) == Bytes(img, DATA_LOCATION(img, f) + 8 * (k - 1), 8)
           word(b) == IF -1 \in Range(b) \/ \E i \in 4 .. 8 : b[i] # 0 THEN Wild
                      ELSE b[1] + 256 * b[2] + 65536 * b[3]
<1>1. /\ n \in DOMAIN host /\ rdfs_id_isDir(img, id) = host[n].dir
      /\ f.data_entry_size = EntrySize(host, n)
  BY Looked
<1>2. \A i \in DOMAIN kids : \E c \in EntryId(img) :
        at(i) = LittleEndian(c) /\ img.entries[c].filename = host[kids[i]].name
  BY DEF ImageHoldsHost
<1>3. kids \in Seq(DOMAIN host \ {Root}) /\ (host[n].dir \/ kids = <<>>)
  BY <1>1, FilesAssumption DEF FilesAssumption, IsHost
<1>4. CASE ~host[n].dir
  BY <1>1, <1>3, <1>4 DEF rdfs_readdir_id
<1>5. CASE host[n].dir
  <2>1. f.data_entry_size = 8 * Len(kids) /\ Len(kids) \in Nat
    BY <1>1, <1>3, <1>5 DEF EntrySize
  <2>2. f.data_entry_size \div 8 = Len(kids)
    <3> HIDE DEF f, kids
    <3>1. (8 * Len(kids)) \div 8 = Len(kids)
      BY <2>1
    <3> QED BY <2>1, <3>1
  <2>3. list = [k \in 1 .. Len(kids) |-> IF word(at(k)) \in EntryId(img)
                                           THEN word(at(k)) ELSE Wild]
    BY <2>2 DEF rdfs_get_file_list_from_dir_id
  <2>4. ASSUME NEW i \in DOMAIN kids
        PROVE  img.entries[list[i]].filename = host[kids[i]].name
    <3>1. PICK c \in EntryId(img) :
            at(i) = LittleEndian(c) /\ img.entries[c].filename = host[kids[i]].name
      BY <1>2
    <3>2. c \in Nat /\ c < MaxNumber
      BY ImageIds, HostFacts DEF MaxNumber
    <3>3. word(LittleEndian(c)) = c
      BY <3>2, WordRead
    <3>4. i \in 1 .. Len(kids)
      BY <1>3
    <3> HIDE DEF list, word, at
    <3>5. list[i] = c
      BY <2>3, <3>1, <3>3, <3>4
    <3> QED BY <3>1, <3>5
  <2>5. Len(list) = Len(kids)
    BY <2>1, <2>3
  <2>6. rdfs_readdir_id(img, id) = list
    BY <1>1, <1>5 DEF rdfs_readdir_id
  <2> QED BY <2>4, <2>5, <2>6
<1> QED BY <1>4, <1>5

LEMMA NextListed ==
  ASSUME TimerId <= MaxNumber, host \in Host, ImageHoldsHost, ListsHostDirectory, [Next]_vars
  PROVE  ListsHostDirectory'
<1>1. ASSUME NEW p \in Path, ListDir(p) PROVE ListsHostDirectory'
  <2>1. PICK id \in IdsOf(p) \ {Wild} :
          listing' = [node |-> NodeAt(p),
                      ids |-> IF id = NoFile THEN <<>> ELSE rdfs_readdir_id(img, id)]
    BY <1>1 DEF ListDir
  <2>2. host' = host /\ img' = img
    BY <1>1 DEF ListDir
  <2>3. CASE id = NoFile
    <3>1. NodeAt(p) = NoFile
      <4>1. NodeAt(p) # NoFile => id \in EntryId(img)
        BY DEF ImageHoldsHost
      <4>2. NoFile \notin EntryId(img)
        BY ImageIds, HostFacts DEF NoFile
      <4> QED BY <2>3, <4>1, <4>2
    <3>2. listing'.node = NoFile /\ listing'.ids = <<>>
      BY <2>1, <2>3, <3>1
    <3> QED BY <3>2 DEF ListsHostDirectory
  <2>4. CASE id # NoFile
    <3>1. NodeAt(p) \in DOMAIN host /\ NodeAt(p) # NoFile
      BY <2>4, Looked DEF NoFile
    <3>2. listing'.node = NodeAt(p) /\ listing'.ids = rdfs_readdir_id(img, id)
      BY <2>1, <2>4
    <3> QED BY <2>2, <2>4, <3>1, <3>2, Listed DEF ListsHostDirectory
  <2> QED BY <2>3, <2>4
<1>2. CASE OpenConfig
  BY <1>2 DEF OpenConfig, ListsHostDirectory
<1>3. ASSUME UNCHANGED <<host, img, listing>> PROVE ListsHostDirectory'
  BY <1>3 DEF ListsHostDirectory
<1>4. CASE Mount \/ ReadConfig \/ UNCHANGED vars
  BY <1>3, <1>4 DEF Mount, ReadConfig, vars, mount
<1>5. ASSUME NEW t \in Task,
             \/ \E p \in Path : LoadProgram(t, p) \/ Open(t, p)
             \/ \E fd \in Fd : Close(t, fd) \/ \E n \in ReadSize : Read(t, fd, n)
             \/ \E c \in Task : Fork(t, c)
             \/ Exit(t)
      PROVE  UNCHANGED <<host, img, listing>>
  BY <1>5 DEF LoadProgram, Open, Close, Read, Fork, Exit, mount
<1> QED BY <1>1, <1>2, <1>3, <1>4, <1>5 DEF Next

\* rdfs_readdir() of a directory gives its children on the host, by their names
\* and in their order, if the image holds the host's files and the ids are
\* numbers that LittleEndian keeps (TimerId is 255).
THEOREM ListingsAreRight ==
  ASSUME TimerId <= MaxNumber
  PROVE  Spec /\ ImageHoldsHost => []ListsHostDirectory
<1>1. Init => ListsHostDirectory
  BY DEF Init, ListsHostDirectory
<1>2. OpenInv => host \in Host
  BY DEF OpenInv, BootInv
<1>3. OpenInv /\ ImageHoldsHost /\ ListsHostDirectory /\ [Next]_vars => ListsHostDirectory'
  BY <1>2, NextListed
<1> QED BY <1>1, <1>3, OpenInvariance, PTL DEF Spec
=============================================================================
