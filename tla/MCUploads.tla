------------------------------- MODULE MCUploads -------------------------------
(***************************************************************************)
(* Uploads for TLC: layouts of the file tree and symmetry sets.            *)
(***************************************************************************)
EXTENDS Uploads, TLC

OneDirectory == [f \in File |-> CHOOSE d \in Dir : TRUE]
ADirectoryEach == CHOOSE D \in [File -> Dir] : \A d \in Dir : \E f \in File : D[f] = d

\* Files change places together with their directories.
Trees == {p \in Permutations(File \cup Dir) :
            \A f \in File : p[f] \in File /\ p[DirOf[f]] = DirOf[p[f]]}
Symmetry == Trees \cup Permutations(Conn) \cup Permutations(Inode)
=============================================================================
