----------------------------- MODULE LedgerSystem -----------------------------
(***************************************************************************)
(* Everything that works on the ledger tables at the same time: the        *)
(* workers, the repair commands, and a client of the API.                  *)
(***************************************************************************)
EXTENDS LedgerRepair, LedgerPages

sysVars == <<lgVars, repairVars, pageVars>>

SysInit == LgInit /\ RpInit /\ PgInit

SysNext ==
  \/ LgNext /\ UNCHANGED repairVars /\ ReaderWaits
  \/ RepairStep /\ ReaderWaits
  \/ (FetchPage \/ RefuseQuery) /\ UNCHANGED <<lgVars, repairVars>>

SysSpec == SysInit /\ [][SysNext]_sysVars
=============================================================================
