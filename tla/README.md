# Verification of Terminal Access Manager

Terminal Access Manager (TAM) discovers terminals by ARP, judges them against
the IPGuard baseline and a whitelist, and blocks the ones that fail on Sangfor
firewalls. What it has to get right is an agreement: the verdict on a terminal,
the blacklist rows in the database and the blacklists on the firewalls are three
copies of one fact, moved by a dozen periodic jobs and operator requests, each
of which may stop half way. Around that core there are locks and caches in
Redis, a notification pipeline, exclusion rules, accounts and backups, each with
its own way of getting out of step. This directory holds their TLA+ models, the
TLC configurations, and the proofs.

Paths below are relative to `src/backend/app/`. Line numbers are given where the
argument depends on them; `docs/`, `.trae/` and `manage.sh` are at the root of the
repository. The full correspondence is the `map` of `PROJECT.json`.

## 1. Inventory

| Component | State | Operations | Modelled by |
|---|---|---|---|
| Compliance engine, `services/compliance_service.py` | `compliance_status`, `non_compliant_confirm_count`, `compliance_checked_at`, `compliant_checked_at`, `device_id`; whitelist cache and a lock in Redis | `check_compliance`, `apply_initial_compliance_result`, `recalculate_all_compliance`, `_apply_compliance_result`, `auto_block_non_compliant`, `auto_unblock_compliant`, `apply_manual_whitelist_for_terminal` | `ComplianceDecision` (the verdict), `Enforcement` (its effect), `Recalculation` (its lock, list and batches), `Ledger` (what its blocks come to); partly |
| Firewall reconciliation, `services/firewall_reconciliation_service.py` | none of its own: compares rows with firewalls | adopt, skip, block again, repair stale status | `Enforcement`, which implements `Ledger` |
| Terminal service, `services/terminal_service.py` | whitelist, blacklist, terminals | whitelist add, delete, import; `cleanup_expired_blacklist`, `retry_unblock`; edits, listings | `Enforcement`, `ComplianceDecision`, `Recalculation`; partly |
| Sangfor client, `services/sangfor_service.py` | session, token; the firewall's blacklist is on the other side | `block_ip`, `unblock_ip`, `get_blocked_ips` | `Enforcement`, by effect; partly |
| ARP collector, `services/arp_collector_service.py` | terminals, `last_seen`, `block_state` | collect, exclude, insert, update, mark offline, first check | `Inventory`; the first check in `ComplianceDecision` and `Enforcement` |
| Exclusions, `services/terminal_exclusion_service.py` | rules; excluded flag of terminals | create, update, toggle, delete; evaluate, release, purge, clear | `Inventory` |
| Data sources, `services/data_source_service.py` | sources, bindings of an ARP source to a firewall | bind, `safe_delete_binding`, `safe_delete_data_source`, enable, test, sync | bindings in `Enforcement`, ARP sources in `Inventory`; partly |
| Scheduler, `main.py` | task locks, pause flags, last backup in Redis; loops | round, lock, release, pause, trigger, start, stop | `Scheduler`, which implements `Lease` |
| Notifications, `services/notification_*.py`, event emitter | list and retry set in Redis, suppression and escalation keys, log rows, cache of channels | emit, deliver, requeue, retry, supervise, edit channels, retry by hand | `NotificationDelivery`; partly |
| Accounts, roles, sessions, lockout, `core/security.py`, `api/v1/endpoints/auth.py`, `users.py`, `services/auth_providers/` | users, roles, grants; permission cache, token versions, blacklists, counters, codes in Redis | administer users and roles, log in, refresh, change and reset passwords, import | `Accounts`; partly |
| Backup, `services/backup_service.py` | archives, locally and remotely | run, upload, retain, delete, restore | `Backup`; partly |
| Database sessions, `core/database.py` | what a session has added and not flushed | add, flush, commit, roll back | `Recalculation` |
| Command line, `cli.py` | none | `scheduler trigger`, and calls of the services | `Scheduler`; partly |
| Scopes, configuration cache, task state and metrics, HTTP endpoints, schemas, rate limit, front end, migrations, deployment | - | - | not modelled, section 8 |

### How they interact

```
 scheduler (task locks in Redis) ── starts every task below

 IPGuard sync ──► cache of evidence, device registry (Redis)
                        │
 ARP collection ──► terminals ◄── first check ◄── check_compliance ──► retry-block
    ▲   ▲               │                                                 │
 exclusion rules,  whitelist ──► recalculate_all_compliance               │
 sources                │          (lock and list in Redis)               │
                        ▼                          ▼                      ▼
              compliance_status            blacklist rows  ◄────►  Sangfor firewalls
                        ▲                          ▲                      ▲
 auto_unblock_compliant ┴── expiry cleanup ────────┴── reconciliation ────┘

 every service ──► emit ──► queue, retry set ──► workers ──► channels
```

Nothing but the database and Redis is shared. The handlers are coroutines that
hold a session of their own and commit once, near the end; a firewall is called
before the commit. Between a call and a commit the process may stop, and
between two handlers any other may run.

### What is hard, and what makes it correct

* **Two phases without a transaction.** A firewall call cannot be rolled back.
  Correct means: every TAM entry without a row has a known cause, and goes away
  or gets a row (`EveryOrphanIsExplained`, `OrphanIsAdopted`); entries and rows
  part only in the ways a ledger allows (`LedgerIsKept`).
* **Success of some firewalls.** Immediate blocking and release are satisfied by
  one firewall, the retry pass asks for all, reconciliation works pair by pair.
  Correct means: the three views meet when the facts stop changing
  (`CompliantIsReleased`, `NonCompliantIsBlocked`, `WhitelistedIsBypass`).
* **A firewall knows IPs, a verdict is on a (MAC, IP).** Two terminals behind
  one IP, and two IPs of one MAC, are ordinary. Correct means: no block without
  a terminal on that IP that calls for it, and each terminal has its own verdict
  (`BlockHasCause`, `FirstVerdictIsOwn`).
* **Evidence that comes and goes.** Synchronisation fails, records lag behind a
  change of address. Counts, graces and intervals damp the downgrade. Correct
  means: the damping cannot be bypassed by a burst of checks or by stale data,
  and cannot hold a verdict for ever (`LoneDowngradeIsSpaced`,
  `NewcomerIsSpared`, `StaleDataNeverCounts`, `BadIsCondemned`,
  `GoodIsRecognised`, `MissesLeadToAVerdict`).
* **Locks with a time to live.** A task may outlive its lock, Redis may fail, a
  release may hit somebody else's key. Correct means: the lock is at least a
  lease and what relies on it fails only when the lease was broken
  (`LockIsALease`, `OneBackupAMinute`, `RoundsKeepComing`, `JudgedByOneList`).
* **Decisions on what was read before.** A recalculation judges by the list it
  loaded, a collection drops by the rules it loaded, a permission cache is
  filled by a query that is over. Correct means: what is out of date is put
  right or has a named cause (`EditsTakeEffect`, `PhantomsAreExplained`, `ExcludedTerminalsLeave`,
  `GoneTerminalsGoOffline`, `FlagsAreExplained`, `StaleIsExplained`).
* **Queues that drop what a crash interrupts, retries of what was done.**
  Correct means: losses and repetitions have a named cause and tries are bounded
  (`NothingVanishes`, `DeliveredOnce`, `TriesAreBounded`, `WindowHolds`,
  `EverythingIsProcessed`).
* **Two commits, or a commit and a key.** A user and its role, a password and
  its token version, a counter and its time to live, a dump and the sections on
  top of it. Correct means: what lies between them is the only way to see one
  without the other (`RolelessIsExplained`, `SessionsFollowPassword`,
  `CountersEnd`, `RestoredAsArchived`, `CompletedHoldsTheDump`,
  `YoungArchivesSurvive`, `OldArchivesGo`).

`hazards` in `PROJECT.json` has each of them at its line.

## 2. Modules

Each module's `MC...` module has the instances; the `...Proofs` modules the
theorems.

### `Enforcement` and `Ledger`

| Variable | Code |
|---|---|
| `known`, `term` | rows of `terminals`; `term[t]` has `compliance_status`, `status`, the set in the comma-separated `firewall_tag`, and `block_state` |
| `row`, `lapsed` | rows of `blacklist` with `unblocked_at IS NULL AND NOT auto_unblocked`; a partial unique index makes them a function of (IP, firewall). `lapsed`: `expires_at < now` |
| `ended` | rows the expiry cleanup closed: `unblocked_at` set, `auto_unblocked` still false, so selected again by the cleanup and by `auto_unblock_compliant` |
| `entry` | the blacklists of the firewalls, with who made the entry: only entries with TAM's description are ever deleted |
| `up`, `bound` | firewalls that answer; firewalls bound to the ARP source |
| `wl`, `ig` | whitelist entries; terminals the baseline matches |
| `cool` | how many rows of a MAC were auto-unblocked within the cooldown: none, one, several |
| `drift`, `disturbed` | history of causes of orphans; the bound on disturbances |

Each action is one handler on one terminal, one (MAC, IP) group or one (IP,
firewall) pair, with every firewall call and every field it writes:

* `RecalcApply`, `RecalcKeep`, `FirstCheck`: the recalculation and the first
  check, through `Apply` (`_apply_compliance_result` and its branches
  `ApplyRelease`, `ApplyClear`, `ApplyNoFirewall`, `ApplyAlreadyListed`,
  `ApplyBlock`).
* `AutoBlock`, `RetryBlock`, `HealWhitelisted`, `MarkNoFirewall`: the two
  passes that block what is non-compliant and still unblocked.
* `AutoUnblock`, `AutoUnblockPartly`, `CleanupElsewhereActive`,
  `CleanupUnblock`: the two passes over groups of rows.
* `ReconcileCreate`, `ReconcileSkip`, `ReconcileReblock`, `Repair`: one pair or
  one terminal of a reconciliation pass.
* `AddWhitelist`, `DeleteWhitelist`, `RetryUnblock`, `Bind`, `Unbind`: operator
  requests.
* `CrashAfterBlock`, `CrashAfterUnblock`: the firewalls were called, the commit
  was not reached.
* `ForeignBlock`, `ForeignRemove`, `FirewallDown`, `FirewallUp`,
  `BaselineChange`, `Expire`, `CooldownEnds`, `Discover`, `MarkOffline`,
  `SeenAgain`: the world.

A firewall that is down raises in most calls. `Reports` lets an unblock call
report success for it anyway, because the lookup before the DELETE returns
"not found" for every error (`sangfor_service.py` 478-508).

How many checks must fail before a bad verdict is abstracted away here: the
recalculation may reach it at any moment. `ComplianceDecision` has that part.

`Ledger` is the abstract specification: TAM's entries, the firewalls' own, the
records, and which of them have run out. Terminals, verdicts, whitelists and the
cooldown are gone, and what thirty handlers and disturbances do is left as a few
steps: enter an address and record it (`Enforce`), enter it and lose the record
(`Lose`), take entries and records off together (`Release`), close what ran out
beside a record in force (`Lapse`), an administrator of the firewall at work
(`Meddle`), a record running out (`RunOut`), a firewall that stops answering
(`Fail`) or answers again (`Return`). Its guards are the promise: nothing is
entered or deleted where a firewall does not answer or an entry is not TAM's, no
entry is made that no record covers but by losing it, and an entry outlives its
record only where a firewall does not answer. `LedgerIsKept` is `INSTANCE Ledger`
with `listed` and `foreign` read from `entry`, `recorded` from `row`, `overdue`
as `lapsed`, `reachable` as `up` and `happened` as `disturbed`.

### `ComplianceDecision`

Timestamps are modelled by their age in ticks, capped at the longest window that
reads them; NULL is an age past every window. One action is one check of one
terminal, and any number of checks fit between two ticks.

| Variable | Code |
|---|---|
| `scope`, `ev`, `data` | strategy of the terminal; what the baseline holds about it; state of the IPGuard cache (`ready`, `stale`: kept after a failed sync, `empty`: synchronised and without entries, `none`) |
| `device`, `mapped`, `registry` | stamped `device_id`; the MAC-to-device mapping; whether it can be read |
| `comp`, `miss`, `checked`, `good`, `born`, `moved` | `compliance_status`, `non_compliant_confirm_count`, ages of `compliance_checked_at`, `compliant_checked_at` and `timestamp`, and whether `ip_changed_at` is set |
| `offline`, `wl` | `block_state = 'offline'` and not blocked; covered by the whitelist |
| `since` | history: time since the first miss of a MAC after a reset |

`Recalc` is one terminal of `recalculate_all_compliance` with its four outcomes;
`CollectorFirstCheck` and `ScheduledFirstCheck` are the two callers of
`apply_initial_compliance_result`, which differ in how they look the result up
and in whether they pass the device; `AutoUnblock`, `Forget`, `Converge`,
`AddMacEntry`, `DeleteMacEntry` are the other writers of status and count.
`sticks` says whether a downgrade is carried through or refused (cooldown, or
every firewall failed), the point where this module meets `Enforcement`.

### `Recalculation`

How an edit of the whitelist reaches the terminals. A list is the set of the
edits it contains; what a verdict is does not matter here, only which list it
was made with.

| Variable | Code |
|---|---|
| `rules`, `cache` | the committed whitelist; `whitelist:all` in Redis |
| `applied` | for each batch of terminals, the list it was last judged with |
| `lock` | `compliance:recalc:lock`, by the owner of its token; `Nobody` when the owner is gone |
| `pc`, `kind`, `seen`, `done` | each caller: where it is, how it edits (`range`, `import`, `restore`, `point`), the list it loaded, the batches it has committed |
| `doomed` | requests whose transaction was rolled back |
| `overran` | history: a recalculation at work lost its lock |

`BeginEdit`, `BeginRestore`, `CommitPoint`, `BeginCheck`, `End` are the callers:
`add_to_whitelist`, `delete_from_whitelist`, the two imports, the restore from a
backup, the scheduler and every endpoint that recalculates without editing. The
rest is `recalculate_all_compliance`, split where it awaits Redis or the
database: `Acquire` or `Skip`, `LoadFromCache` or `LoadFromDatabase` and
`FillCache`, `JudgeBatch` (which commits, and the caller's edit with it),
`Error`, and the release in two steps, `CompareToken` and `DeleteLock`.
`Visible` says what a session that does not flush before it queries sees
(`core/database.py` 37): the imports flush in their savepoints, the others do
not.

### `Scheduler` and `Lease`

The loops of `main.py` in several processes. A behaviour follows one task,
chosen at the start, since loops of different tasks share nothing but Redis; the
backup's body is there step by step, the others are a body that ends or raises.
A tick is a minute.

| Variable | Code |
|---|---|
| `pc` | where each process is; `Cli` is `cli.py scheduler trigger`, which takes no lock |
| `lock`, `spent` | `scheduler:lock:<task>` with the ticks it has left and, unknown to the code, who set it; ticks a process has been inside |
| `lastRun`, `minute`, `ran` | the key with the last backup's minute, the clock, backups begun this minute by holders of the lock |
| `paused`, `redisUp` | `scheduler:ctrl:<task>`, set by an operator through `manage.sh`; whether Redis answers |

`Acquire`, `TurnedAway`, `AcquireOpen` are the three outcomes of
`_acquire_task_lock`; `Release`, `ReleaseFailed`, `ReleaseAgain` the
releases, of which the compliance check has two after an error; `Shutdown` is the end
of the lifespan, `Crash` the end of the process.

`Lease` is the abstract specification: members are inside a section; one is in
safety, the others are exposed; who runs past its time, enters without the key or
is hit by somebody's late release becomes exposed. `LockIsALease` is
`INSTANCE Lease` with `inside`, `exposed`, `overdue` and `stray` defined from
the loops' state.

### `Inventory`

The table of terminals with the three that add to it and remove from it: the
collector, the exclusion rules, the deletion of a source. A rule is the set of
(MAC, IP) pairs it matches.

| Variable | Code |
|---|---|
| `covers`, `active`, `sources` | rules, their `is_active`; sources absent, disabled or enabled |
| `present` | the ARP tables of the switches |
| `tag`, `blocked`, `state`, `flagged`, `stale` | `source_tag` of each row (none: no row), `status`, `block_state`, `excluded_by_rule`, not updated for longer than the threshold |
| `listed` | `source_tag` of the terminal's active blacklist row |
| `round`, `job`, `saw`, `known`, `plan` | a collection's sources to ask, the one it asks, the entries it was given, what the rules it loaded match, what its transaction will do |
| `belated`, `interrupted` | history: rows flagged by a rule already gone; an edit that died before its clean-up |

A collection is `BeginRound` or `SyncNow`, `Ask`, `Answer` (or `NoAnswer`,
`EmptyAnswer`), `Match`, `Save` (or `SaveFails`, when a row went or came
meanwhile), `Detect`, `Mark`. An edit of a rule is committed at once
(`CreateRule`, `UpdateRule`, `ToggleRule`, `DeleteRule`) and then has its
consequences: `Evaluate`, `Free`, `Purge`, `ReadFlags`, `ClearFlags`.
`BeginDelete` and `DeleteSource` remove a source; `Block`, `Unblock`, `Move`,
`Age`, `UpdateSource`, `Crash` are the rest.

### `NotificationDelivery`

| Variable | Code |
|---|---|
| `queue`, `retries` | `notify:queue:main`, `notify:queue:retry` |
| `work` | what the main and the retry worker have in hand: payload, channels still to do, phase |
| `stored`, `loaded`, `reload` | channels in the database, in the workers' cache, and each operator's reload of it |
| `window`, `escalation` | suppression keys, the counter of `check_escalation` |
| `log` | rows of `notification_logs`, by event and channel |
| `due`, `excused`, `tally`, `late` | history: deliveries begun, losses with a cause, attempts and acceptances, messages past a window |

`Emit`; `TakeQueued` and `TakeRetry`; `BeginDelivery` with `CheckEscalation`, or
`Requeue`; for each channel `SkipUnloaded`, `Suppress` or `BeginSend` and then an
answer: `SendAccepted` with `RecordSent`, `SendRefused`, `SendUnanswered`,
`SendUnauthorised`, `RetryLost`. `WorkerEnds`, `Supervise` and `Restart` are the
faults; `EditChannel`, `ClearCache`, `ReadChannels`, `FillCache`, `ReloadFails`,
`RetryByHand`, `DeleteLog` the operators.

### `Accounts`

Every request is a process of one operation, cut where it awaits the database or
Redis.

| Variable | Code |
|---|---|
| `users`, `gone`, `active`, `super` | the table `users`, ids once in it, `is_active`, `is_superuser` |
| `roles`, `registry`, `grants`, `cache` | `user_roles`, `roles`, `role_permissions`, `user_perms:<id>` in Redis |
| `password`, `version`, `session`, `ended` | the number of the last change, `token_version:<id>`, refresh tokens by the request that minted them, the blacklisted ones |
| `attempts`, `timed`, `locked` | `login_attempts:<name>`, whether it has a time to live, `login_lock:<name>` |
| `code`, `tries` | the e-mailed reset code and its wrong answers |
| `request` | where each request is and what it read |
| `blame`, `roleless`, `deaf`, `timeless` | history: the named causes |

Groups of actions: the permission cache (`ReadCache`, `QueryPermissions`,
`FillCache`, `ReadMembers`, `Drop`), roles (`UpdateRole`, `Assign`,
`CommitAssign`, `Toggle`, `CommitToggle`, `CreateRole`, `GrantNewRole`,
`CountMembers`, `DeleteRole`), users (`CreateUser`, `GiveRole`, `ImportUser`,
`SetActive`, `DeleteUser`), logins (`Login`, `Accept`, `CountFailure`,
`TimeCounter`, `LockAccount`, `ResetAttempts`, `Unlock`), sessions (`Mint`,
`Refresh`, `Retire`, `ChangePassword`, `IncrementVersion`), reset codes
(`SendCode`, `ReadCode`, `AnswerCode`, `ResetPassword`), and `Crash` with the keys
that expire.

### `Backup`

Data are versions: an edit gives an item a new one, a snapshot is a function from
items to versions, an archive a function from member names to snapshots.

| Variable | Code |
|---|---|
| `live` | accounts, settings, whitelist, branding as the system runs on them |
| `job` | each job's phase, members collected, archive name, checksum (`sealed`) |
| `local`, `remote`, `removed` | the two directories; names an operator deleted |
| `restore` | the section a restore is at, items edited meanwhile, items whose section failed |

`Start`, `DumpDatabase`, `CollectConfig`, `CollectWhitelist`, `CollectLogs` with
`CollectFails` and `CollectSkips`; `OpenArchive`, `WriteArchive`, `SealArchive`;
`Upload`, `Tidy` and their failures; `ScheduledCleanup`; `DeleteBackup`;
`BeginRestore`, `RestoreSection`, `RestoreDatabaseFails`, `RestoreSectionFails`,
`RestoreWhitelist`.

### How the modules meet

No state is shared between the modules; each takes the others' effect as a step
of its world. `Enforcement` takes a verdict at any moment, `ComplianceDecision`
takes a downgrade that sticks or not, `Recalculation` takes verdicts as lists.
`Inventory` has `Block` and `Unblock` for what `Enforcement` does to a row, and
`Enforcement` and `ComplianceDecision` have `Discover`, `MarkOffline` and
`SeenAgain` for what `Inventory` does. `Scheduler` says how often any of them
run, which is the fairness of the others.

## 3. Runs

| Run | Instance | Distinct states | Shows |
|---|---|---|---|
| `Enforcement_firewalls` | one terminal, two firewalls, 4 disturbances, fair | 55,228 | tags, orphans, and convergence of the three views |
| `Enforcement_shared` | two MACs on one IP, a second IP, one firewall, 3 disturbances | 121,569 | blocks have causes; first verdicts are the terminal's own; the ledger is kept |
| `Enforcement_recovery` | one MAC on two IPs, one firewall, 3 disturbances, fair | 63,681 | a verdict taken from a sibling is put right; the shared MAC holds neither address back |
| `ComplianceDecision_damping` | one address, two strategies, four kinds of evidence, grouping, thresholds 2, 3, 4, 2, windows of 2, fair | 178,432 | spacing of misses, stale data, no starvation either way |
| `ComplianceDecision_addresses` | two addresses of one MAC | 882,752 | misses add up to a verdict and not past it; graces of the younger address |
| `Recalculation_edits` | two requests of every kind, one periodic check, two batches, one disturbance, fair | 451,201 | one list per recalculation while the lock holds; whence a batch may have an entry that is not in the table; every edit arrives in the end |
| `Recalculation_range` | one request, one check, no disturbance | violation | the recalculation an edit of a pattern triggers does not see the edit |
| `Scheduler_locks` | two instances and the command line, a lock of two ticks, a day of three minutes with one due, 2 disturbances, fair | 270,002 | the lock is a lease, one backup a minute, rounds keep coming |
| `Inventory_collection` | two terminals, one rule, one source, scheduled and requested collection, one operator, 3 disturbances, fair | 539,938 | exclusion and offline marks end up right; stray flags are explained |
| `NotificationDelivery_pipeline` | two events, two channels (one suppressing, one mail), both workers, one operator, one retry, escalation at two, 1 disturbance, fair | 1,751,362 | losses, repetitions and late messages have named causes; the queue drains |
| `Accounts_requests` | four requests, two users, three roles, one permission, two attempts, 1 disturbance; symmetric in the requests | 1,042,600 | what cache, roles, sessions and counters may disagree about |
| `Backup_archives` | two full jobs, one restore, remote storage, a clock of two ticks, 1 disturbance, fair | 356,312 | young archives stay whole, old ones go, a restore restores |

The type invariants of `NotificationDelivery` and `Backup` are checked as well as
proved; those of the other modules are in no run: they are theorems (section 5),
for these instances and every other. Every invariant and every action
property of the table is a theorem; what the runs alone show is liveness.

### Bounds, and why they are enough

* **`MaxDisturbance`** bounds what happens *to* the system: crashes, outages,
  lost calls, foreign entries, edits by operators. Tasks are not bounded. In
  `Enforcement` four are enough for a crash, an outage, an expiry and a change
  of the facts in one behaviour. In `Inventory` three are a rule created, deleted
  and a crash between, or two edits and a terminal that moves. `Scheduler` has
  two: a crash with an outage, or a pause, or a trigger. Where the interleaving
  is the hazard and each request happens once anyway (`Recalculation`,
  `Accounts`, `NotificationDelivery`, `Backup`) one fault suffices: a request
  that dies, a call that is lost, an edit in the wrong moment.
* **Two firewalls** are the fewest on which one can succeed and one fail, and on
  which two rows fall into one cooldown. A third adds no new case: handlers ask
  "none", "some" or "all" of a set of firewalls.
* **Two terminals** are the fewest that share an IP or a MAC. The two kinds of
  sharing are separate runs, since no handler looks at both at once. The second,
  unused IP of `Enforcement_shared` is there because reconciliation blocks again
  only on a firewall that lists something.
* **Thresholds of 2, 3 and 4** differ, so that a comparison with the wrong one
  shows; the real ones (3 to 30) repeat the same steps. **Windows of 1 or 2
  ticks** separate "now", "within" and "past". The order of the real windows is
  not assumed.
* **Evidence.** `match`, `ip_only`, `mac_only` and `absent` take every branch of
  the matching. `mismatch` (both found, on different records) differs from
  `ip_only` only in a flag that `ip_only` with `mac_only` covers, and is left out
  of the instances; the proofs cover it.
* **Two batches** separate what a recalculation has judged from what it has
  not. **Two requests that edit** and one check put three processes at the lock.
* **Two instances** are a holder and a successor; the late release of the first
  hits the second. A lock of two ticks can run out while its holder works, and a
  day of three minutes has one that is due and two that are not.
* **One source** in the instance of `Inventory`: what two sources add is a tag
  that changes hands, which one source that is deleted and added again also
  does; two exceed what can be checked in minutes. The proofs are for any number.
* **Two channels, two events, both workers**: a payload that fails on one of two
  channels, and two deliveries at once. One retry is the smallest budget that can
  be used up.
* **Four requests** are what the longest of the properties takes: a login, a
  change of password, a refresh and a crash or second change between. Two users:
  one there from the start, one created and deleted meanwhile. A third role tells
  the built-in ones from those that can be deleted.
* **Two jobs and a clock of two ticks** make two archives meet in one name and
  one of them outlive the retention, which is less than a tick.

`CHECK_DEADLOCK FALSE` is set where the system may come to rest: in the
`Enforcement` runs when the disturbances are used up and no task has anything to
do, in `Accounts` when every request is over, in `NotificationDelivery` when
everything is processed and nothing is left to expire.

### Mutated definitions

A definition whose comment begins with "Mutated:" is a faulty version of the one
after it: a dropped guard, a missing reset, a lookup by the wrong key. No
specification uses it. `mutants` in `PROJECT.json` says which property of which
run it must break when it takes the place of the original; each property of a
passing run has one, so none holds for want of a case that could violate it.

## 4. Fairness

* `Enforcement`: weak fairness of each periodic task for each terminal, group
  and pair. The scheduler starts every job at a fixed interval and each pass
  walks over all rows its query selects, so what stays enabled is reached. Weak
  fairness of `FirewallUp` says outages end, that of `CooldownEnds` says time
  passes. No fairness of requests, crashes, `AutoBlock` (started by an endpoint)
  or of the partial outcomes.
* `ComplianceDecision`: weak fairness of `Tick` and of the recalculation of each
  terminal; strong fairness of a downgrade that sticks: refused again and again
  for ever would mean firewalls that fail for ever, and `Enforcement` has their
  recovery. Nothing is assumed of the first checks by themselves.
* `Recalculation`: what was begun goes on (`Recalculate`, `CommitPoint`), the
  check comes round again (`BeginCheck`), times to live end and Redis comes
  back. Nothing says a request is ever made.
* `Scheduler`: each loop runs when it is ready, a process that went down is
  started again, minutes pass, Redis comes back. An operator need not resume a
  paused task: `RoundsKeepComing` has the premise that it is not paused for good.
  That is also what the fairness of the tasks in the other modules rests on.
* `Inventory`: rounds begin again, collections and edits under way go on, rows
  age. No fairness of requests, edits, verdicts or moves.
* `NotificationDelivery`: the two workers take what they find and finish it, the
  supervisor restarts them. Nothing of the channels' answers.
* `Backup`: the hourly clean-up, which does not wait for a backup. Nothing of the
  jobs.

Premises of the liveness properties worth knowing: `CompliantIsReleased`
excludes an IP with an entry of the firewall's own. Such an entry is adopted as a
row at each reconciliation and closed at each unblock pass, since `unblock_ip`
counts a foreign entry as success, and the two take turns for ever.
The same entry on another
address of the MAC renews the MAC's cooldown at every round and so keeps a
sibling from being downgraded, hence the premise of `NonCompliantIsBlocked`.
`WhitelistedIsBypass` claims the verdict and the rows, not `status`, which flaps
with such an entry. `BadIsCondemned` is about a MAC with one address: a sibling
that keeps matching resets the counts of both. `GoneTerminalsGoOffline` wants
every enabled source to report something, since an empty table is taken for
nothing to do, and exempts rows with a `block_state` of another kind.

## 5. Proofs

Every invariant and every action property that a passing run checks is a theorem,
and so are the refinements of `Lease` and `Ledger`. All are for any values of the constants
(terminals, addresses, firewalls, thresholds, windows, instances, times to live,
requests, users, roles, channels, budgets, jobs, batches, rules, sources), under
the named assumptions of the modules: terminals are (MAC, IP) records and finite
in number where misses are summed, the NULL-like values differ from every other
and from each other, the thresholds and windows are positive (the clamps of their
readers), the built-in roles are two of the roles and staff are users, a backup is of one of
the known sections or of all, a day has a minute, a recalculation a batch. Only two theorems assume
more: `BlocksHaveCauses` and `FirstVerdictsAreOwn` are about terminals of which no
two share a MAC, as the run of their properties is; why, is in section 6.

`EnforcementProofs`:

* `TypeCorrect`: `TypeOK` is inductive. `TaskType` and `DisturbanceType` take
  the actions one by one; `ApplyType` has the record updates of the verdict.
* `NoStaleTag`: `UnblockedHasNoTag` is inductive with `TypeOK`. The interesting
  steps are those that move only one of the two fields: `ApplyBlock` when all
  firewalls fail, `Unbind` when a tag is dropped, `RecalcKeep`, which adds tags
  to blocked terminals only.
* `OrphansAreExplained`: `EveryOrphanIsExplained` is inductive by itself.
  `Explained` says that a step that records its orphans by `Explain(P)` keeps
  it when every new orphan is in `P`; `NoNewOrphan` and the lemmas on `Block`,
  `Unblock` and `CloseRows` say which pairs can become one. The point is that a
  released row is an orphan only where a firewall did not answer (`Unconfirmed`).
* `BlocksHaveCauses`: an action property. `BlockAdds` says which pairs gain an
  entry; each block handler then shows its terminal is covered by no entry and
  recorded or judged non-compliant. It assumes that no two terminals share a
  MAC: with siblings the first check blocks on another's verdict (section 6).
* `FirstVerdictsAreOwn`: an action property, under the same assumption.
  `ApplyJudges` says that `Apply` writes the verdict it was given or none, and to
  one terminal; the first check then has the one verdict of a group of one.
  `TaskOwn` and `DisturbanceOwn` take the other writers: reconciliation judges
  what a firewall lists, an unblock pass by the terminal's own evidence, a new
  whitelist entry by itself.
* `EnforcementKeepsTheLedger`: every step maps to a step of `Ledger` or to a
  stutter. `Enters`, `Loses`, `Releases` and `Idles` say, in terms of `Block`,
  `Attach`, `Unblock` and `CloseRows`, when a step is an `Enforce`, a `Lose`, a
  `Release` or none of the ledger's business; `ApplyBooks`, `BlocksBook`,
  `UnblocksBook`, `TaskBooks` and `DisturbanceBooks` find which it is for each
  handler. The invariant is `TypeOK` with `LapsedHaveRows`, only rows run out:
  without it a row that reconciliation creates might be overdue from the start.
  The retry pass is where `Lose` is needed without a disturbance: it records
  nothing when one of several firewalls did not answer.
* `PartingsHaveCauses`: what `Ledger` promises, carried over. An entry parts from
  its row in one step only where the row had run out, some firewall does not
  answer or a disturbance takes place; no handler adds or removes an entry of the
  firewall's own.

`ComplianceDecisionProofs`:

* `NothingCountsOnStaleData`, `NewcomersKeepTheirGrace`: `StepEffect` sums up what
  any step does to counts and status. A step is harmless (raises no count,
  condemns nobody), or is a miss, which needs data that are ready and, for an
  unknown terminal, both graces over. The two action properties follow;
  `CountsInvariant` gives the arithmetic its numbers.
* `TypeCorrect` and `VerdictsComeInTime` (`MissesLeadToAVerdict`): the inductive
  invariant `CountsOK` has the range of the counts, the bound on every sum, and
  that undiscovered records have missed nothing. A sum over the records of a MAC
  is the number of its (record, miss) pairs, so that what a step does to it is
  what it does to a finite set: `CountsFall` and the lemmas before it say that
  counts that fall take pairs away, a miss adds one, and a verdict empties the
  MAC's. No induction over the records is needed.
* `LoneDowngradesTakeTime` (`LoneDowngradeIsSpaced`): the invariant is
  `MissesAreSpaced`, `(miss - 1) * MinInterval + checked <= since` for a
  discovered terminal that is alone on its MAC and not whitelisted. It holds of
  the first miss as `since` and `checked` start together; a later miss is counted
  only when `checked` has reached the interval, and sets it back by what the left
  side gains. With the threshold reached it bounds `since` from below.

`SchedulerProofs`: the inductive invariant is `TypeOK`, `KeyInv` and `MarkInv`.

* `KeyInv`: a key whose setter is still inside has exactly the time left that
  its setter has not yet spent. It is what turns "the key ran out" into "its
  holder is overdue".
* `MarkInv`: a backup begun this minute has left its mark, and a holder that
  found no mark is the only one that could have begun one. `OneBackup` is its
  first conjunct.
* `SchedulerIsALease`: every step maps to a step of `Lease` or to a stutter.
  `SteadyLease` takes the steps that touch neither key nor place; `Departure`
  the releases, crashes and shutdowns; `LateRelease` the second delete of the
  compliance check after an error; `TickLease` the minute in which times run out.
* `LeaseIsExclusive`, of the abstract lock: of those inside at most one is not
  exposed, because every step but an entry with the key only takes from those in
  safety, and that entry finds nobody among them. Together: two instances are
  inside a task only if one of them outlived its lock, got in while Redis failed,
  or was hit by such a release.

`RecalculationProofs`: the inductive invariant adds `LockInv` (without an overrun
whoever is inside holds the lock, and the lock's owner is inside), `DoneInv`
(batches are counted from the loading of the list on) and `PointInv`. `OneList`:
another recalculation's batch cannot overwrite one already judged, because its
owner would be inside with the same lock; a commit of a single entry can, and
adds that entry only. `OneAtATime` reads mutual exclusion off `LockInv`.
`PhantomsHaveCauses` (`PhantomsAreExplained`) is about entries that are not in the
table: an import's recalculation reads the rows its savepoints flushed and caches
them for everybody, and a rolled back import does not take them out again.
`ListsInv` follows such an entry from the list an import loaded to the cache, where
the lock keeps others out until the import is through, and from there to their
lists; a batch that commits takes the entry into the table with it.

`InventoryProofs`: `TypeCorrect` needs that no transaction deletes a row it
flags (`WorkInv`). `StrayMarksAreExplained` rests on `FlagInv`: for every stray
flag that was not written late some edit is still to clear it
(`WillClear`: it has yet to read the rules, or has read this row as one to
clear). Deleting a rule makes flags stray and promises the clean-up in one step;
a collection or a purge that writes a flag by an old rule records it as late.

`NotificationDeliveryProofs`: five invariants, from one inductive invariant whose
parts rest on each other in the order given.

* `WindowInv`: while no window is open nothing has come late; while one is,
  either the late message has come or at most one worker can still send it. The
  run's bound on `late` (`WindowsHold`) is its consequence.
* `CopiesAreOnRecord`, `WholesAreNew`, `LaterRowsAreFinal`: every payload, channel
  in hand and row is of a delivery that has begun; an event has at most one
  payload for all channels, in one place, and none once a delivery began; only
  the first row of a delivery is ever written anew. Without the second a crash
  between taking and requeueing could double a notification.
* `NothingVanishes` is then inductive: `StartSafe` and `LoopSafe` follow a pair from
  the queue through a worker's hands into the retry set or a closed row
  (`NoneVanishes`).
* `Counted`: a payload has tokens for the pairs it carries, one for each try it
  has left (`Budget`) or a single one (`Once`). Acceptances and copies under way
  never exceed what was asked for, nor do attempts made and tries left exceed the
  budget. It gives `AcceptedOnce` and `TriesBounded` from one set of lemmas on how
  a load moves between queue, retry set and workers, whose elements are counted as
  finite sets; `retries` is shown to stay finite for it.

`AccountsProofs`: the inductive invariant is `TypeOK`, the four properties (with
`SessionsEnd` for the third) and three facts they need.

* `RequestsAreAboutOne`: a request past its first step is about one user, or one
  role, and who deletes a role counted nobody in it.
* `CacheIsOfUsers`: nothing is cached for an id nobody ever had, so a new user
  starts without a stale entry (`StaleCacheIsExplained`).
* `VersionsGrow`: a token's version is never above its user's, so a version that
  was passed is passed for good. `SessionsEnd` says of each refresh token that it
  is of a past version, of the present password, or excused by a named cause or by
  a request about to raise the version. `SessionsFollowPassword` by itself is not
  inductive: it is about tokens that are valid now, and an inactive user's token
  may be valid again when the user is switched on (`PasswordEndsSessions`).
* `RolelessUsersAreExplained` and `FailedLoginsEnd` are inductive with the first.

`BackupProofs`: `JobsAreNamed` and `WritersWrite` tie jobs to names and writers to
jobs; `ArchivesFollow` says, for each phase of a job whose name is its own, what
its archive is: being written by it and unbroken, then whole, then there as long
as it is young, locally and remotely. `YoungArchivesStay` is its last phase.
`SectionsFollow` says which sections a job past them holds
(`CompletedJobsHoldTheDump`). `RestoredSoFar` says of every item that nobody
touched and no section lost that the sections done so far have put it back,
the dump first and the whitelist's own section over it; the last step makes it
`RestoresAreTrue`.

Model-checked only: the liveness properties, since fairness and `ENABLED` are out
of the prover's reach (`CompliantIsReleased`, `WhitelistedIsBypass`,
`NonCompliantIsBlocked`, `OrphanIsAdopted`, `BadIsCondemned`, `GoodIsRecognised`,
`EditsTakeEffect`, `ExcludedTerminalsLeave`, `GoneTerminalsGoOffline`,
`RoundsKeepComing`, `EverythingIsProcessed`, `OldArchivesGo`). No module uses a
RECURSIVE operator.

## 6. Disagreements between the code and its documentation

One is shown by a run (`findings` in `PROJECT.json`): the recalculation that an
edit of a pattern triggers judges every terminal without the edit, because the
session does not flush before it queries and the edit is not committed yet
(`Recalculation_range`). `EditsTakeEffect` shows that a later check puts it
right, once the list's time to live is over.

The others were met while modelling. The models behave as the code does; no
property claims the contrary.

* **Siblings.** `scheduled_compliance_check` looks results up by MAC only
  (`main.py` 355-398), although `models/terminal.py` 60-62 says a MAC may appear
  on several IPs and that identity is the pair; the collector's lookup is keyed by
  the pair. A first verdict may be a sibling's. `FirstVerdictIsOwn` is about MACs
  that differ; `Enforcement_recovery` shows the recovery.
* **Cooldown.** The recently unblocked row of a MAC is asked for with
  `scalar_one_or_none` (`compliance_service.py` 2540-2547). A terminal unblocked
  on two firewalls has two, the call raises, `except Exception: pass` goes on with
  the downgrade. `docs/business-workflow.md` 179 and `docs/changelog.md` 744
  promise the cooldown.
* **Whitelisted and on a firewall.** Reconciliation leaves the entry of a bypass
  terminal to the recalculation (`firewall_reconciliation_service.py` 298-299,
  346-352), which unblocks only when a verdict changes, and it starts from rows, of
  which there is none. The entry stays.
* **Cycles.** The interval guard looks at one record, the threshold at the sum
  over a MAC (`compliance_service.py` 3358-3366, 3554-3566): two addresses missed
  in one cycle count as two. The docstring at 3668 says N independent cycles.
* **Grace after an automatic unblock.** `auto_unblock_compliant` sets the status
  to compliant without `compliant_checked_at` (1229), so the next miss meets no
  grace, which 3696-3697 and `models/terminal.py` 42 promise.
* **Lost registry.** The stamped device is kept "to avoid mass false downgrades"
  (1777-1779) but is then looked up in a set of devices from the same lost
  registry (3171), and a match by address is overridden.
* **Release of a task lock.** `_acquire_task_lock` promises that another instance
  is kept out while one holds the lock (`main.py` 45-47); `_release_task_lock`
  deletes the key whoever set it (60-69), and the compliance check calls it twice
  after an error (629-634). `Lease` says what is left of the promise.
* **Last backup.** `last_run.decode()` (`main.py` 697) is called on a string,
  since the client decodes responses; the round ends in the error handler instead
  of `continue`. No backup is started either way.
* **Whitelist backups.** A backup of type `whitelist` is an archive that holds
  `whitelist.zip` (`_create_archive`, `backup_service.py` 817-826), while
  `restore_whitelist` looks for `whitelist.json` in it (679-700) and returns
  False. The full restore unpacks the nested archive.
  `.trae/documents/backup_optimization_plan.md` 206-217 expects the round trip to
  work.
* **Settings.** A restore looks for `config/system_config.json`; the archive has
  it as `system_config.json`. The settings come back from the dump, as
  `RestoredAsArchived` says.
* **Lifecycle of a log row.** `models/notification.py` 43-48 has one row go from
  pending to a terminal state. `log_sent` and `log_suppressed` add a row
  (`notification_logging.py` 124-158), so a notification that is sent after a
  retry has two, and the row that says retrying stays.
* **Retained rows.** The docstring of `clear_stale_exclusion_flags` says rows
  return to the statistics once no rule covers them
  (`terminal_exclusion_service.py` 700-705). A collection that loaded the rules
  before flags them again afterwards, and nothing clears that flag before the
  next edit of a rule. `FlagsAreExplained` names it.
* **Blocked terminals are kept** (`can_purge`, 440-444): a purge decides first
  and deletes by id afterwards; a terminal blocked in between is deleted with the
  rest.
* **Superuser for a moment.** `admin_create_user` commits the new user with the
  `is_superuser` it was asked for and takes it away in a second commit
  (`api/v1/endpoints/auth.py` 685-717), next to a comment that new users should
  never be superuser (713-714). A refused role, or a request that dies in between,
  leaves it.
* **Offline.** Rows with `block_state` `block_failed` or `no_firewall` are never
  marked offline (`arp_collector_service.py` 684), although nothing else tells
  that they left.
* **Supervisor.** It leaves a cancelled worker as it is
  (`notification_workers.py` 120); only `stop_workers` cancels one, so nothing
  comes of it.

## 7. Abstractions

* **Enforcement.** A handler is one step on one terminal: in the code it commits
  for many at once, and other handlers may run at its awaits. Lost commits are
  modelled, interleavings inside a handler are not.
* **ComplianceDecision.** The matching of addresses and the construction of the
  device registry are inputs (`ev`, `mapped`).
* **Recalculation.** A batch is judged and committed in one step. Deleting an
  entry is an edit like adding one.
* **Scheduler.** One task per behaviour; the bodies of the others are "over or
  failed". Every minute all sleepers wake: shorter and longer intervals are a
  loop that is turned away or not scheduled.
* **Inventory.** The entries of a collection are read one by one in the code and
  in one step here, followed by the one commit. A row deleted and added again is
  taken for the same row. The release of a purge's blocked rows has two outcomes,
  on every firewall of the row or not. Only ARP sources are deleted.
* **NotificationDelivery.** One event type, since the keys of the rules differ by
  type. No time: what is due may be served and what expires may expire at any
  moment.
* **Accounts.** Users are local. The access token, its blacklist at logout and
  captchas are left out; the two tokens of a login are minted in one step.
  Permissions are a small set of names.
* **Backup.** A section is collected in one step. The transfer protocols are an
  upload that succeeds or does not; a remote clean-up deletes any part of what
  it should.

## 8. Not modelled, and why

* Scope conditions, the matching of addresses against whitelist patterns and
  IPGuard records: pure functions whose results are inputs of the models; planned
  as algorithms checked against reference definitions.
* The configuration cache: a table with a copy that expires; its clamps are the
  assumptions of the constants.
* Deletion of a firewall source and edits of single terminals by an operator: they
  move the same rows as the handlers of `Enforcement`, and would enlarge it past
  what can be checked in minutes; part of the plan.
* Session and login of the Sangfor client, LDAP, RADIUS, SMTP, SSH, FTP, SFTP:
  protocols on the far side of a call, of which the models have the outcomes.
* HTTP endpoints that only read, schemas, event payloads, metrics, task state, rate limit,
  front end, migrations and deployment: pure I/O or observation, nothing the
  modelled components decide on reads it.

## 9. Plan

Done: enforcement, the verdict, the recalculation's lock and list, the
scheduler's locks and the ledger of blocks with their refinements, the inventory, the notification
pipeline, accounts, backups; every safety property is proved. In this order next:

1. `EnforcementRaces`: two handlers in two sessions on one terminal, with reads
   before and writes after the firewall calls, and the unique index; deletion of a
   firewall source.
2. `ConfigCache`, and the pure algorithms: whitelist matching (MAC, IP, range,
   wildcard), IPGuard matching by strategy, scope conditions, retry delay.
3. Theorems: the safety part of the liveness properties: in every state what is
   promised holds already or the guard of a step towards it does, written out
   without `ENABLED`.
