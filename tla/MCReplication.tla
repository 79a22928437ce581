---------------------------- MODULE MCReplication ----------------------------
(* Instantiates Replication with three nodes that are the preference list  *)
(* of the key, in ring order.                                              *)
EXTENDS Replication

CONSTANTS n1, n2, n3

MCPrefList == <<n1, n2, n3>>

(* R and W are those of config.DefaultConfig, for N = Len(MCPrefList) = 3. *)
MCReadQuorum == DefaultConfig.readQuorum
MCWriteQuorum == DefaultConfig.writeQuorum
=============================================================================
