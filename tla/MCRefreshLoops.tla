--------------------------- MODULE MCRefreshLoops ---------------------------
(* Instances of RefreshLoops for TLC: each opens some of the tools.        *)
EXTENDS RefreshLoops

Queries == {"databases", "statements", "picker", "snapshots", "detail", "samples",
            "log files", "logs", "log group", "pgbouncers", "pgbouncer", "describe"}
Server  == {"activity", "wait profile", "maintenance", "settings", "detail"}
=============================================================================
