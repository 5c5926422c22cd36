----------------------------- MODULE MCSuperStream -----------------------------
(***************************************************************************)
(* Small instances of SuperStream.                                         *)
(***************************************************************************)
EXTENDS SuperStream

\* Numbers of partitions; -1 stands for all that are negative.
UpToTwo == {0, 1, 2}
NegativeOrOne == {-1, 1}

QueueAndBinding == <<"partition", "binding">>

\* The two are treated alike; one of them leaves room for longer histories.
QueueOnly == <<"partition">>

\* Keys are only compared with each other.
KeySymmetry == Permutations(Keys)
================================================================================
