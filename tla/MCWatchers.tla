------------------------------ MODULE MCWatchers ------------------------------
(* Small instances of Watchers for TLC. *)
EXTENDS WatcherProperties

CONSTANTS cron1, cron2
===============================================================================
