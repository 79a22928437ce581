--------------------------- MODULE MCQuorumManager ---------------------------
(* QuorumManager instantiated for TLC: the operations' nodes are model     *)
(* values given in the .cfg file.                                           *)
EXTENDS QuorumManager

(* N, R and W are those of config.DefaultConfig.                          *)
MCReplicationFactor == DefaultConfig.replicationFactor
MCReadQuorum == DefaultConfig.readQuorum
MCWriteQuorum == DefaultConfig.writeQuorum
====
