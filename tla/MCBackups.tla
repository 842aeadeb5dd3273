------------------------------ MODULE MCBackups ------------------------------
(* Calendars for small instances of the backup directory. *)
EXTENDS Backups, TLC

NoTiers  == [t \in Tiers |-> 0]
OneTier  == [t \in Tiers |-> IF t = "weekly" THEN 1 ELSE 0]
Calendar == [t \in Tiers |-> IF t = "weekly" THEN {2} \cap Days ELSE {}]
=============================================================================
