--------------------------- MODULE MCClusterStore ---------------------------
(* Small clusters for TLC: the values the configurations give ClusterStore. *)
EXTENDS ClusterStore, TLC

CONSTANTS n1, n2, n3, t1, t2, s1, s2

ThreeNodes == {n1, n2, n3}
OneSession == {s1}
TwoSessions == {s1, s2}

(* Every node replicates to all the others. *)
Uniform == [n \in Node |-> "AllToAll"]
NoBackup == [n \in Node |-> NoNode]

(* n1 replicates to all, n2 to its backup n3, which joins late. *)
MixedMode == (n1 :> "AllToAll") @@ (n2 :> "PrimaryBackup") @@ (n3 :> "AllToAll")
MixedBackup == (n1 :> NoNode) @@ (n2 :> n3) @@ (n3 :> NoNode)

(* One writer per session, on different nodes; n1, which is not replicated *)
(* to, also loads the session of n2.                                       *)
WriterAt == (t1 :> n1) @@ (t2 :> n2)
WriterOps == {<<t1, "save", s1>>, <<t1, "delete", s1>>, <<t2, "save", s2>>,
              <<t1, "load", s2>>}

(* One writer that saves and deletes, and one load elsewhere. *)
ReaderAt == (t1 :> n1) @@ (t2 :> n3)
ReaderOps == {<<t1, "save", s1>>, <<t1, "delete", s1>>, <<t2, "load", s1>>}
=============================================================================
