------------------------------ MODULE AbsFiles ------------------------------
(***************************************************************************)
(* What the file system promises of its root directory whenever the power  *)
(* may fail: files come, go and grow one at a time and as a whole, so that *)
(* every call has either had its effect or not had it.                     *)
(***************************************************************************)
EXTENDS Integers

CONSTANT Entries    \* the places in the directory

NoFile == -1

VARIABLE length     \* place -> the number of clusters of the file there

Init == length = [e \in Entries |-> NoFile]

\* A file without a cluster is one made when the disk was full.
Create(e) == length[e] = NoFile /\ \E n \in {0, 1} : length' = [length EXCEPT ![e] = n]

Remove(e) == length[e] # NoFile /\ length' = [length EXCEPT ![e] = NoFile]

Grow(e) == length[e] > 0 /\ length' = [length EXCEPT ![e] = @ + 1]

Next == \E e \in Entries : Create(e) \/ Remove(e) \/ Grow(e)

Spec == Init /\ [][Next]_length
=============================================================================
