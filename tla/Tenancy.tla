------------------------------ MODULE Tenancy -------------------------------
(***************************************************************************)
(* The tenant manager (tenant/manager.go): the quota is checked before a   *)
(* run and the run is counted after it succeeded, under two separate       *)
(* locks.  The costs that have quotas too are never added to and are left  *)
(* out: their checks never refuse.                                         *)
(***************************************************************************)
EXTENDS Naturals

CONSTANTS
  Tenants,     \* Tenants: the identifiers that are used
  Hour,        \* Hour: the units of time in an hour
  Day          \* Day: the units of time in a day

ASSUME HourAssumption == Hour \in Nat \ {0} /\ Day \in Nat \ {0}

VARIABLE usage   \* usage: the entry of each tenant

(* A new entry, registered at time t.  An unregistered tenant has none.    *)
Entry(t) ==
  [registered |-> TRUE, hour |-> 0, today |-> 0, hourStart |-> t, day |-> t \div Day]

Unregistered == [Entry(0) EXCEPT !.registered = FALSE]

NoUsage == [t \in Tenants |-> Unregistered]

(* Register replaces the entry, whatever it has counted.                   *)
Register(t, now) == usage' = [usage EXCEPT ![t] = Entry(now)]

(* The windows are rolled over by the check only.                          *)
HourRolled(u, now) ==
  IF now - u.hourStart >= Hour THEN [u EXCEPT !.hour = 0, !.hourStart = now] ELSE u

Rolled(u, now) ==
  LET v == HourRolled(u, now) IN
  IF now \div Day > v.day THEN [v EXCEPT !.today = 0, !.day = now \div Day] ELSE v

(* Mutant of WithinQuota: reaching the quota does not exhaust it.          *)
WithinQuotaInclusive(u, quota) ==
  /\ quota.hour > 0 => u.hour <= quota.hour
  /\ quota.day > 0 => u.today <= quota.day

(* A quota of zero is no quota.                                            *)
WithinQuota(u, quota) ==
  /\ quota.hour > 0 => u.hour < quota.hour
  /\ quota.day > 0 => u.today < quota.day

CheckQuota(t, now) ==
  usage' = [usage EXCEPT ![t] = IF @.registered THEN Rolled(@, now) ELSE @]

Admits(t, now, quota) ==
  usage[t].registered /\ WithinQuota(Rolled(usage[t], now), quota)

Counted(u) == [u EXCEPT !.hour = @ + 1, !.today = @ + 1]

RecordUsage(t) ==
  usage' = [usage EXCEPT ![t] = IF @.registered THEN Counted(@) ELSE @]

TenancyTypeOK ==
  usage \in [Tenants -> [registered : BOOLEAN, hour : Nat, today : Nat,
                         hourStart : Nat, day : Nat]]
=============================================================================
