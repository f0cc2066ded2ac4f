-------------------------- MODULE MCDatabaseSession --------------------------
(* The connections of DatabaseSession that are model-checked: every protocol *)
(* through login and either relay, MySQL with every combination of limits,   *)
(* PostgreSQL and SQL Server with a log.                                     *)
EXTENDS DatabaseSession

CONSTANT Limit \* max_queries of sessions that have one

MCConfs ==
  {c \in [proto : {"mysql", "postgres", "sqlserver", "oracle"}, gateway : BOOLEAN,
          handshake : BOOLEAN, tracked : BOOLEAN, timer : BOOLEAN, limit : {0, Limit},
          idle : BOOLEAN, logging : BOOLEAN, pipelined : BOOLEAN] :
     /\ c.tracked => c.handshake \/ ~c.gateway
     \* where the credentials come from and how the session relays vary separately
     /\ ~c.gateway \/ ~c.handshake =>
          ~c.timer /\ c.limit = 0 /\ ~c.idle /\ ~c.logging /\ ~c.pipelined
     /\ c.gateway /\ c.handshake => c.tracked
     /\ c.pipelined => c.logging /\ c.limit # 0 /\ ~c.timer
     /\ c.idle => ~c.timer /\ c.limit = 0 /\ ~c.logging
     /\ c.proto # "mysql" => c.timer = c.logging /\ (c.limit # 0) = c.logging /\ ~c.pipelined}
==============================================================================
