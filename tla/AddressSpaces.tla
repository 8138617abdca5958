--------------------------- MODULE AddressSpaces ---------------------------
(***************************************************************************)
(* What the memory management of pellOS promises its user processes: each  *)
(* has a memory of its own, which grows by zeroed pages where it touches   *)
(* it, which fork() copies whole, and which nobody else writes.            *)
(***************************************************************************)
CONSTANTS
  Task,       \* the processes
  Thread,     \* those that load a program; the others come from fork()
  VPage,      \* the pages of the virtual address space
  CodePage,   \* the page a program is loaded to
  Value,      \* what a page may hold
  Zero,       \* the content of a page that was never written
  Unmapped    \* not a value: the process has no page there

VARIABLES started,   \* processes that have begun to run in user mode
          memory     \* the memory each of them sees

vars == <<started, memory>>

NoMemory == [v \in VPage |-> Unmapped]

Init == started = {} /\ memory = [t \in Task |-> NoMemory]

\* A program is loaded into a fresh process.
Load(t) ==
  /\ t \in Thread /\ t \notin started
  /\ started' = started \cup {t}
  /\ \E x \in Value :
       memory' = [memory EXCEPT ![t] = [NoMemory EXCEPT ![CodePage] = x]]

Store(t, v) ==
  /\ t \in started /\ memory[t][v] # Unmapped
  /\ \E x \in Value : memory' = [memory EXCEPT ![t][v] = x]
  /\ UNCHANGED started

\* The process touched a page it did not have.
Grow(t, v) ==
  /\ t \in started /\ memory[t][v] = Unmapped
  /\ memory' = [memory EXCEPT ![t][v] = Zero]
  /\ UNCHANGED started

Fork(t, c) ==
  /\ t \in started /\ c \notin started \cup Thread
  /\ started' = started \cup {c}
  /\ memory' = [memory EXCEPT ![c] = memory[t]]

Next ==
  \E t \in Task : \/ Load(t)
                  \/ \E v \in VPage : Store(t, v) \/ Grow(t, v)
                  \/ \E c \in Task : Fork(t, c)

Spec == Init /\ [][Next]_vars
=============================================================================
