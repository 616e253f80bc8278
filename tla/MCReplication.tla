---------------------------- MODULE MCReplication ----------------------------
(* Two clients, two entities and two values; the runs choose between many   *)
(* changes on the server and many events of the clients.                    *)
EXTENDS Replication, TLC

ConnSymmetry == Permutations(Conn)
=============================================================================
