------------------------------ MODULE MCFiles ------------------------------
(***************************************************************************)
(* Instances of Files for TLC: every directory tree of three nodes below   *)
(* the root with the names "a" and "b", up to exchanging the names.        *)
(***************************************************************************)
EXTENDS Files

\* A number stands for a tree: the parents of nodes 2 and 3, a bit for the
\* name of each of them (node 1 is "a") and one for the kind of each node.
Parent(k) == <<0, k % 2, (k \div 2) % 3>>
Bit(k, n) == (k \div 2^(n - 1)) % 2
Name(k)   == [n \in 1 .. 3 |-> IF n = 1 \/ Bit(k \div 6, n - 1) = 0 THEN "a" ELSE "b"]
Dir(k)    == [n \in 1 .. 3 |-> Bit(k \div 24, n) = 1]

IsTree(k) ==
  /\ \A n \in 1 .. 3 : Parent(k)[n] # 0 => Dir(k)[Parent(k)[n]]
  /\ \A m, n \in 1 .. 3 :
       m # n /\ Parent(k)[m] = Parent(k)[n] => Name(k)[m] # Name(k)[n]

\* Node n is listed before node n + 1 and, if a file, holds 2n - 2 bytes.
Tree(k) ==
  [n \in 0 .. 3 |->
     [name |-> IF n = 0 THEN "/" ELSE Name(k)[n],
      dir |-> n = 0 \/ Dir(k)[n],
      children |-> SetToSortSeq({c \in 1 .. 3 : Parent(k)[c] = n}, <),
      data |-> IF n = 0 \/ Dir(k)[n] THEN <<>>
              ELSE [i \in 1 .. 2 * n - 2 |-> 100 + 10 * n + i]]]

SmallHosts == {Tree(k) : k \in {k \in 0 .. 191 : IsTree(k)}}

DevTimer  == <<"dev", "timer">>
FileAB    == <<"a", "b">>
SomePaths == {<<>>, <<"b">>, FileAB, <<"a", "b", "a">>, DevTimer}
=============================================================================
