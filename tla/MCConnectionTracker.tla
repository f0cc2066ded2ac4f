------------------------ MODULE MCConnectionTracker -------------------------
(***************************************************************************)
(* Small instances of the connection tracker.                              *)
(***************************************************************************)
EXTENDS ConnectionTracker, TLC

\* pgAdmin appends the database to its name, DBeaver its version.
Normal == [n \in Names |->
             IF n \in {"pgAdmin 4 - DB:a", "pgAdmin 4 - DB:b"} THEN "pgAdmin 4" ELSE "DBeaver"]

Symmetry == Permutations(Conns) \cup Permutations(Sessions)
=============================================================================
