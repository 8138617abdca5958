------------------------------ MODULE MCPaging ------------------------------
(***************************************************************************)
(* Instances of Paging for TLC.  The programs touch the page they are      *)
(* loaded to, the stack page beside it and a page under other tables.      *)
(***************************************************************************)
EXTENDS Paging

TwoPages   == {<<0, 0, 0, 0>>, <<0, 0, 0, 1>>}
ThreePages == TwoPages \cup {<<0, 1, 0, 0>>}
=============================================================================
