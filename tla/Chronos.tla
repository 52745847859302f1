------------------------------ MODULE Chronos ------------------------------
(***************************************************************************)
(* The Chronos budget daemon: the usage poller (budget/usage_api_poller.py)*)
(* that trips the global cap, the transitions of the cap                   *)
(* (budget/cap_flag.py) and the midnight reset (budget/daily_reset.py).    *)
(* They run as jobs of several Arq workers and share four Redis keys and   *)
(* the Hemera override of builder.live; every Redis command and the Hemera *)
(* write is a step of its own.                                             *)
(***************************************************************************)
EXTENDS Integers, FiniteSets

CONSTANTS
  Poller,      \* the workers that may run poll_anthropic_usage
  DailyCap, MonthlyCap,
  MaxSpend,    \* bound on one day's spend
  MaxDay,      \* bound on the days of the month
  MaxDeaths    \* bound on workers that die in the middle of a job

ASSUME CapsPositive == DailyCap \in Nat \ {0} /\ MonthlyCap \in Nat \ {0}
ASSUME BoundsNat == MaxSpend \in Nat /\ MaxDay \in Nat /\ MaxDeaths \in Nat

VARIABLES
  day,      \* days since the start of the month, UTC
  today,    \* external: what Anthropic billed today
  month,    \* external: what it billed since the start of the month
  capFlag,  \* key chronos:ma_capped
  marker,   \* key chronos:global_auto_disabled, which expires at midnight
  lock,     \* key chronos:poll_lock, which expires after 60 s
  hemera,   \* the global override of builder.live
  pc,       \* where each poller is
  saw,      \* the cost report each poller fetched
  resetPc,  \* where the reset of the current day is
  hadAuto,  \* clear_global_cap: whether the marker was read as set
  deaths,
  late      \* history: the flag was set for a report of an earlier day

redis == <<capFlag, marker, lock>>
resetVars == <<resetPc, hadAuto>>
pollVars == <<pc, saw, deaths, late>>
clock == <<day, today, month>>
chronosVars == <<clock, redis, hemera, pollVars, resetVars>>

\* What a poll fetched, and when. A month's bill includes today's.
Report == {r \in [daily : Nat, mtd : Nat, day : Nat] : r.daily <= r.mtd}
Key == {"unset", "set"}
Override == {"none", "off", "on"}
PollPC == {"idle", "locked", "fetched", "unset_seen", "flagged", "marked",
           "closing"}
ResetPC == {"due", "read", "flag_deleted", "marker_deleted", "done",
            "abandoned"}
NoReport == [daily |-> 0, mtd |-> 0, day |-> 0]

ChronosTypeOK ==
  /\ day \in 0..MaxDay
  /\ today \in 0..MaxSpend /\ month \in Nat /\ today <= month
  /\ capFlag \in Key /\ marker \in Key /\ lock \in Key
  /\ hemera \in Override
  /\ pc \in [Poller -> PollPC]
  /\ saw \in [Poller -> Report]
  /\ resetPc \in ResetPC
  /\ hadAuto \in BOOLEAN
  /\ deaths \in 0..MaxDeaths
  /\ late \in BOOLEAN

ChronosInit ==
  /\ day = 0
  /\ today = 0 /\ month = 0
  /\ capFlag = "unset" /\ marker = "unset" /\ lock = "unset"
  /\ hemera = "none"
  /\ pc = [p \in Poller |-> "idle"]
  /\ saw = [p \in Poller |-> NoReport]
  /\ resetPc = "done"
  /\ hadAuto = FALSE
  /\ deaths = 0 /\ late = FALSE

Idle(p) == pc[p] = "idle"
Goto(p, place) == pc' = [pc EXCEPT ![p] = place]

----------------------------------------------------------------------------
(* The world: money is spent, time passes, keys expire. *)

Spend ==
  /\ today < MaxSpend
  /\ today' = today + 1
  /\ month' = month + 1
  /\ UNCHANGED <<day, redis, hemera, pollVars, resetVars>>

\* Midnight does not wait for a poll, which may take up to the job's 300 s.
\* The marker's TTL is the whole number of seconds to midnight, at least 1: it
\* has expired when the 00:00 cron jobs start, except when it was set in the
\* last second of the day.
Midnight ==
  /\ day < MaxDay
  /\ resetPc \in {"done", "abandoned"}
  /\ day' = day + 1
  /\ today' = 0
  /\ marker' \in {"unset", marker}
  /\ resetPc' = "due"
  /\ UNCHANGED <<month, capFlag, lock, hemera, pollVars, hadAuto>>

\* After 60 s, whether or not the poll that set it has ended.
LockExpires ==
  /\ lock = "set"
  /\ lock' = "unset"
  /\ UNCHANGED <<clock, capFlag, marker, hemera, pollVars, resetVars>>

----------------------------------------------------------------------------
(* poll_anthropic_usage *)

\* SET chronos:poll_lock NX EX 60; a poller that does not get it skips.
AcquireLock(p) ==
  /\ Idle(p)
  /\ lock = "unset"
  /\ lock' = "set"
  /\ Goto(p, "locked")
  /\ UNCHANGED <<clock, capFlag, marker, hemera, saw, deaths, late, resetVars>>

\* Mutant: the buckets before today are summed without today's.
FetchWithoutToday(p) ==
  /\ pc[p] = "locked"
  /\ saw' = [saw EXCEPT ![p] = [daily |-> today, mtd |-> month - today, day |-> day]]
  /\ Goto(p, "fetched")
  /\ UNCHANGED <<clock, redis, hemera, deaths, late, resetVars>>
\* The cost report from the first of the month until now.
Fetch(p) ==
  /\ pc[p] = "locked"
  /\ saw' = [saw EXCEPT ![p] = [daily |-> today, mtd |-> month, day |-> day]]
  /\ Goto(p, "fetched")
  /\ UNCHANGED <<clock, redis, hemera, deaths, late, resetVars>>

\* Mutant: only spend beyond the cap trips it.
OverCapStrict(report) == report.daily > DailyCap \/ report.mtd > MonthlyCap
\* evaluate_and_cap
OverCap(report) == report.daily >= DailyCap \/ report.mtd >= MonthlyCap

\* trip_global_cap reads the flag, and only a later command sets it.
ReadFlag(p) ==
  /\ pc[p] = "fetched"
  /\ Goto(p, IF OverCap(saw[p]) /\ capFlag = "unset"
             THEN "unset_seen" ELSE "closing")
  /\ UNCHANGED <<clock, redis, hemera, saw, deaths, late, resetVars>>

SetFlag(p) ==
  /\ pc[p] = "unset_seen"
  /\ capFlag' = "set"
  /\ late' = (saw[p].day < day /\ (capFlag = "unset" \/ late))
  /\ Goto(p, "flagged")
  /\ UNCHANGED <<clock, marker, lock, hemera, saw, deaths, resetVars>>

SetMarker(p) ==
  /\ pc[p] = "flagged"
  /\ marker' = "set"
  /\ Goto(p, "marked")
  /\ UNCHANGED <<clock, capFlag, lock, hemera, saw, deaths, late, resetVars>>

\* _set_hemera_flag swallows a failed write.
DisableBuilder(p) ==
  /\ pc[p] = "marked"
  /\ hemera' \in {"off", hemera}
  /\ Goto(p, "closing")
  /\ UNCHANGED <<clock, redis, saw, deaths, late, resetVars>>

\* A command that raises ends the cycle in the except branch.
Fail(p) ==
  /\ pc[p] \in {"locked", "fetched", "unset_seen", "flagged"}
  /\ Goto(p, "closing")
  /\ UNCHANGED <<clock, redis, hemera, saw, deaths, late, resetVars>>

\* The finally block deletes the lock whoever holds it now.
ReleaseLock(p) ==
  /\ pc[p] = "closing"
  /\ lock' = "unset"
  /\ Goto(p, "idle")
  /\ saw' = [saw EXCEPT ![p] = NoReport]
  /\ UNCHANGED <<clock, capFlag, marker, hemera, deaths, late, resetVars>>

\* The worker dies: no finally block runs.
Die(p) ==
  /\ ~ Idle(p)
  /\ deaths < MaxDeaths
  /\ deaths' = deaths + 1
  /\ Goto(p, "idle")
  /\ saw' = [saw EXCEPT ![p] = NoReport]
  /\ UNCHANGED <<clock, redis, hemera, late, resetVars>>

----------------------------------------------------------------------------
(* chronos_daily_reset, which runs clear_global_cap *)

ResetRead ==
  /\ resetPc = "due"
  /\ hadAuto' = (marker = "set")
  /\ resetPc' = "read"
  /\ UNCHANGED <<clock, redis, hemera, pollVars>>

\* Mutant: the flag is cleared only when the marker says Chronos set it.
ResetDeleteFlagIfAuto ==
  /\ resetPc = "read"
  /\ capFlag' = IF hadAuto THEN "unset" ELSE capFlag
  /\ resetPc' = "flag_deleted"
  /\ UNCHANGED <<clock, marker, lock, hemera, pollVars, hadAuto>>
ResetDeleteFlag ==
  /\ resetPc = "read"
  /\ capFlag' = "unset" /\ late' = FALSE
  /\ resetPc' = "flag_deleted"
  /\ UNCHANGED <<clock, marker, lock, hemera, pc, saw, deaths, hadAuto>>

ResetDeleteMarker ==
  /\ resetPc = "flag_deleted"
  /\ marker' = "unset"
  /\ resetPc' = "marker_deleted"
  /\ UNCHANGED <<clock, capFlag, lock, hemera, pollVars, hadAuto>>

ResetHemera ==
  /\ resetPc = "marker_deleted"
  /\ hemera' \in IF hadAuto THEN {"on", hemera} ELSE {hemera}
  /\ resetPc' = "done"
  /\ hadAuto' = FALSE
  /\ UNCHANGED <<clock, redis, pollVars>>

\* The worker dies or Redis fails: a cron job is not tried twice.
ResetDies ==
  /\ resetPc \notin {"done", "abandoned"}
  /\ deaths < MaxDeaths
  /\ deaths' = deaths + 1
  /\ resetPc' = "abandoned"
  /\ hadAuto' = FALSE
  /\ UNCHANGED <<clock, redis, hemera, pc, saw, late>>

----------------------------------------------------------------------------
RunPoll(p) ==
  \/ Fetch(p) \/ ReadFlag(p) \/ SetFlag(p) \/ SetMarker(p)
  \/ DisableBuilder(p) \/ ReleaseLock(p)

ResetStep == ResetRead \/ ResetDeleteFlag \/ ResetDeleteMarker \/ ResetHemera

ChronosNext ==
  \/ Spend \/ Midnight \/ LockExpires
  \/ \E p \in Poller : AcquireLock(p) \/ RunPoll(p) \/ Fail(p) \/ Die(p)
  \/ ResetStep \/ ResetDies

ChronosSpec == ChronosInit /\ [][ChronosNext]_chronosVars

\* The cron starts a poll on some worker every five minutes and the reset every
\* midnight; a job that started runs on, a key with a TTL expires, and the
\* Admin API and Redis are not down for ever.
ChronosFairness ==
  /\ WF_chronosVars(LockExpires)
  /\ WF_chronosVars(ResetStep)
  /\ WF_chronosVars(\E p \in Poller : AcquireLock(p))
  /\ \A p \in Poller : /\ WF_chronosVars(RunPoll(p)) /\ SF_chronosVars(SetFlag(p))
                       /\ SF_chronosVars(Fetch(p)) /\ SF_chronosVars(ReadFlag(p))

----------------------------------------------------------------------------
(* Properties. *)

\* "New day starts fresh": once the midnight reset has completed, the cap is set only
\* for spend of the day or of the month, or by a poll that fetched its report on an earlier
\* day and acted on it after that midnight: whatever expires, dies or overlaps.
NewDayStartsFresh ==
  resetPc = "done" /\ capFlag = "set" =>
    today >= DailyCap \/ month >= MonthlyCap \/ late

\* Spend at a cap is capped in the end and stays capped until the next reset,
\* although the midnight reset may delete the flag a poll has just set, a
\* worker may die holding the lock, and a poll may fail.
OverspendIsCapped ==
  <>[](today >= DailyCap \/ month >= MonthlyCap
         => capFlag = "set")

\* "Restore the Hemera builder.live override to true" (chronos_daily_reset): the reset that
\* finds the builder turned off, which only Chronos does here, will turn it on again.
ResetRestoresBuilder == [][ResetRead /\ hemera = "off" => hadAuto']_chronosVars
=============================================================================
