# A TLA+ development of NocTORnal

NocTORnal (`src/`) is a platform for investigating cybercrime: analysts keep a
graph of actors and the ties between them, collectors read forums and chats as
personas, and an access model with two-person rules decides who may do what.
It is a FastAPI program over one PostgreSQL database, with scheduled workers
(collector, notification drain, retention sweep, lab, sandbox) on the same
tables. Nearly all of what can go wrong between two actors goes wrong in those
tables, so the models here are models of rows and of the statements that move
them.

Four facts about the program shape every module.

* A request's connection is **autocommit** (`db.py`, `http/deps.py`). A function
  that issues three statements is three steps, and anything may run between
  them; it is one step only inside `with conn.transaction()`.
* Transactions are **READ COMMITTED**. A transaction that reads and then writes
  without locking what it read is modelled as a read step and a write step. A
  lock it takes is a variable, or the guard of the step that waits for it.
* **Processes die.** A worker is killed between two statements; a request is
  abandoned. What is committed stays.
* **Other systems answer outside the transaction.** An object the store has
  deleted, an issue Jira has created or a post a platform has seen is not undone
  by a rollback, and its answer may be lost.

## 1. Inventory

State, operations and hard behaviours of each part, with the properties that
make it correct. A module's name says that the part is modelled in it; the rest
is in section 11.

| Part | State | Operations | What is hard, and what must hold |
|---|---|---|---|
| Persona act queue (`persona_acts.py`, 0156) | `collect.persona_act` rows, outcome events | submit, sweep, cancel, claim, recheck, run, requeue, finish | death of a collector, runners that outlive `STALE_S`, double clicks; at most once, one live row per ask, truthful outcomes. *PersonaActs* |
| Collector (`scripts/collector.py`) | none of its own | drain, poll in a child | keeps running; one persona at a time. *In PersonaActs* |
| Four-eyes approvals (`approvals.py`, 0028, 0074) | `core.approval_request` | request, decide, withdraw, consume | reads before writes, expiry, re-granted signers; spent once, on what was signed. *CaseSwitch*; its spending by a purge in *Exhibits* |
| The case's merge switch (`routers/approvals.py`, 0076) | `dual_control_merge` and its epoch | set on, relax, merge with one or two signatures | a relaxation that outlives the "on" it was signed for. *CaseSwitch* |
| Dual control policy (`dual_control.py`, 0075) | mode per operation, separated duties, seven-day windows | propose, countersign, apply | stale approvals against a moved policy; `based_on` must match |
| Merges (`merges.py`, 0027, 0055, 0133) | redirects, `node_merge`, `node_merge_edge` | merge, unmerge | two merges, two reversals, ties retired between; exact reversal. *Merges* |
| Graph (`graph.py`, `routers/graph.py`) | nodes, ties, assertions | create, correct, retire, review | live ties to entities nobody sees. *Partly in Merges and Proposals* |
| Retention and holds (`retention.py`, 0142) | clocks, holds, tombstones, the object store | due, sweep, purge out of schedule, hold, lift | a hold entered during a sweep; bytes gone and the mark rolled back; no held exhibit destroyed. *Exhibits* |
| Evidence (`evidence.py`, 0141) | exhibits, custody, WORM objects | ingest, read, re-acquire | bytes before row; a reading or a lodging beside a purge. *Exhibits* |
| Audit and custody chains (0013, 0149, `audit_verify.py`, `custody_verify.py`) | two hash chains, anchors | append, migrate, verify, anchor | forks under writers, numbers out of order, rows removed by the table's owner; no false alarm, no unseen removal. *Ledger* |
| Proposals and paste extraction (`proposals.py`, `extraction.py`) | `collect.proposal`, documents | paste, propose, accept, reject, defer | a disposal reads before its transaction; overlapping pastes. *Proposals* |
| Selector index (`selectors.py`) | `core.selector` and its owner | record, follow a label, release | twins handed a row while they change. *Proposals* |
| Jira (`jira.py`) | destination, links, events, deliveries | pass, reconcile, create, comment, settle by hand | lost answers, retries, death between statements; one issue per link, nothing posted twice. *Jira* |
| Notifications, transports | outbox, subscriptions, digests | enqueue, drain, escalate | quiet hours, retries. *The outbox rows of Jira only* |
| Break-glass (`break_glass.py`) | grants | invoke, revoke, review | a review of a live grant; access after the end |
| Lookups (`lookups.py`, `providers.py`) | queued lookups, quota windows | ask, authorise, drain, retry | quotas at their limit, releases that went stale |
| Samples, lab, sandbox | samples, runs, submissions | screen, triage, submit, poll | ownership by session locks, abandoned runs |
| Collection runs (`collection.py`, `forum_*.py`, `telegram*.py`) | sources, cursors, personas | plan, fetch, store | one poll per source and persona |
| Rate limiting (`ratelimit*.py`) | one number per subject | measure, peek | GCRA arithmetic at the boundary |
| Outbound (`egress_*.py`, `pinned_http.py`) | routes, ledger | authorise, connect, close | a STOP that must hold while connections open |
| Accounts and cases (`iam_admin.py`, `cases.py`, `security/`) | users, roles, assignments, sessions | grant, revoke, sign in | the last user manager; assignments that expire |
| Analytics, embeddings, reports, reasoning records, ingest, console, scripts | see `PROJECT.json` | | data more than control |

Interactions that matter to the models: a merge route asks the approvals for a
second signature and *spends* it in the merge's own transaction, and a purge out
of schedule does the same; the collector's poll and its acts compete for a
persona's advisory lock; an assignment granted or granted again changes who may
sign; retiring an entity meets the merge ledger and the selector index; reading
and lodging an exhibit meet its purge; the outbox decides what Jira is asked.

## 2. Plan

Order is by how much harm a wrong step does and how little a test sees of it.

1. **PersonaActs** with **ActPromise**: done, proved.
2. **CaseSwitch** with **SecondSignature**: done, proved.
3. **Merges**: done, proved for calls one at a time.
4. **Exhibits**: done, proved. It composes the sweep, the purge out of schedule
   with the approval it spends, holds, reading and lodging.
5. **Ledger**: done, proved.
6. **Jira**: done, proved, with liveness model-checked.
7. **Proposals** with the selector index: done, proved.
8. Next about what is there: an abstract specification of a reversible ledger
   that Merges implements while calls come one at a time, and one of delivery that
   Jira implements.
9. Modules left, in order: **PolicyLedger** (the deployment's policy, to replace
   `ChangeMode`, the environment action of CaseSwitch, by the protocol that
   causes it), **BreakGlass**, **Lookups**, the lab's run ownership, the egress
   STOP.

## 3. Modules

| Module | Role |
|---|---|
| `ActPromise` | what a requester may rely on, without a queue |
| `PersonaActs` | the queue, the requests and the collectors |
| `SecondSignature` | what a second signature promises, without routes and clocks |
| `CaseSwitch` | requests, decisions, spends, the switch, assignments, the mode |
| `Merges` | entities, ties and the merge ledger |
| `Exhibits` | exhibits, their bytes, holds, both purges, readings and lodgings |
| `Ledger` | the hash chain, its writers, its migration, its verifier and its owner |
| `Jira` | a delivery pass, Jira's answers, the destination |
| `Proposals` | pastes, triage, entities and the selector index |
| `<Module>Props` | the properties of a module, its refinement mapping and its inductive invariant, where it has them |
| `MC<Module>`, `*.cfg` | TLC instances |
| `<Module>Proofs` | theorems: of PersonaActs, CaseSwitch, Merges, Exhibits, Ledger, Jira and Proposals |

Definitions marked `a mutant` in a module are never part of its behaviour: each
is a definition next to it as a plausible bug would have it, kept so that the
property it must break can be seen to break. Ghost variables (`cut`, `late`,
`uses`, `origin`, `unwanted`, `spoilt`, `by`, `misled`, `vouched`, `raced`,
`left`, `met`) are written and never read by a guard.

Every run but those of `PersonaActs` and `CaseSwitch` says `CHECK_DEADLOCK
FALSE`: their identifiers (merges, exhibits, numbers, links, pastes) are bounded
and used up, and a bounded instance stops there.

## 4. PersonaActs: how it corresponds to the code

One row of `collect.persona_act` is `st`, `key` and three clocks per row: `age`
(against `expires_at`), `hold` (against `not_before`) and `run` (against
`claimed_at`). Keeping elapsed times instead of a global clock leaves time
unbounded while the state space is finite: each clock stops where the SQL no
longer distinguishes. `effect` counts how often the platform saw the act.

A process is a request (`Clients`) or a collector; `pc` says between which two
statements it is. `submit` is `twin -> dead -> sweep... -> insert -> queuedAudit`
with its loop run at most twice; `sweep` is two UPDATEs followed by one event
per row it returned (`todo`); a runner goes `claim -> recheck -> execute ->
acting -> finish`, or `requeue` when the persona is busy. `Crash` ends a process
anywhere, and PostgreSQL releases its advisory lock. The persona's lock is
session-scoped in the code and keyed by the persona here.

Choices worth knowing:

* `CollectionBusy` is raised before anything is sent (`persona_locked`,
  `collection.py`), so a requeue never follows an effect.
* The trigger `guard_persona_act` (0156), which refuses a change of a finished
  row, is *not* a guard of the model: `FinishedIsFinal` shows the code never
  meets it.
* In inline mode (`Inline = TRUE`, development only) a request claims and runs
  its own act without `_recheck`; `NotRunForAnEndedSession` speaks of collectors.
  `acts_queue` sets it beside a collector, which may claim what a request queued
  before the request does: `run_inline` finds nothing to claim then.

| Run | Instance | Shows |
|---|---|---|
| `acts_queue` | 2 requests in inline mode, 1 collector, 2 rows of one ask | at most once, no contradicting events, one runner per persona, finished rows final; CANCELLED, EXPIRED, DONE are true; the refinement; `IInv` |
| `acts_sessions` | 2 collectors, 1 row whose session may end, polls may hold the persona for ever, 1 death | the recheck holds; every queued act is settled |

Bounds: `TTL = 2`, `Stale = 1`, `Busy = 1` ticks put an expiry, a lost runner and
a retry within reach of one another in every order; two rows of one key are what
a duplicate needs, two runners what a late runner needs. A runner that never
takes another step is indistinguishable from a dead one, so `acts_queue` needs no
death; in `acts_sessions` one is enough because a second adds no new kind of
orphan. `MaxCrashes`, `Revocable` and `Polls` are the only bounds on behaviour and
are constants; the theorems hold for every value of them.

Fairness (`FairSpec`, used by `acts_sessions`): weak fairness of each step of a
collector and of `Tick`. `scripts/collector.py` drains in a loop that survives
any exception of a pass and is restarted by its supervisor, and time passes. No
fairness is assumed of requests, of sessions, of the poller or of death: an act
is settled although the persona may be busy at each try, because it expires.

Proved for every value of the constants (`PersonaActsProofs`): all safety
properties above and the refinement. The invariant `IInv` adds to them who may
hold a row. Its heart is `HolderInv`: only a claim makes a holder, of a row that
was PENDING, so a row has one holder; a holder whose row is not RUNNING lost it
to the sweep, and the row says FAILED. `EffectInv` then gives at-most-once: a
holder that has not sent anything finds `effect = 0`, and no step returns a
FAILED row to the queue. `AuditInv` says that an event owed is owed by one
process and for a row that already says the same.

One disagreement, which no run is spent on: the docstring of 0156 says the
outcomes are also in the audit log, and the two autocommit statements of
`_finish`, `cancel` and `sweep` allow a death between them. `EveryOutcomeAudited`
states it, and fails with one death.

## 5. CaseSwitch: how it corresponds to the code

A request is `state`, `what` (merge of a pair, or relaxation naming the epoch of
the switch it was raised under), `by`, `signer` and its remaining life. A call is
a record of the operation in progress with what it read. Consecutive reads of a
route that only feed one guard are one step (`BeginRaise`, `BeginDecide`);
reads and the transaction that uses them are separate steps always.

| Code | Actions |
|---|---|
| `ApprovalService.request`, `_relax_payload_problem` | `BeginRaise`, `InsertRequest` |
| `decide`, `withdraw` | `BeginDecide`, `Decide`, `Withdraw` |
| `merge`, `_merge_under_dual_control`, `consume` | `BeginMerge`, `ReadMode`, `ReadSwitch`, `MergeAlone`, `ReadApproval`, `SpendOnMerge` |
| `set_policy` | `BeginPolicy`, `PolicyMode`, `PolicySigner`, `Tighten`, `RelaxSwitch` |
| the trigger of 0076 | `ForThisEpoch`, `EpochAfter` |
| `_grant`, `revoke_user` | `Grant`, `Revoke` |
| the deployment's policy | `ChangeMode` (environment) |

| Run | Instance | Shows |
|---|---|---|
| `switch_serial` | 1 call at a time, 2 requests, 2 users, 3 changes of the switch, a 1-tick seasoning window | an off is signed by a second, seasoned person for this very "on"; `SwitchInv` |
| `switch_race` | 2 calls, 1 request, one pair to merge | spent once, decided once; a late decision is worthless; implements `SecondSignature` |

Bounds: `MaxEpoch` bounds how often the switch moves; 3 lets it go on, off and on
again under a live relaxation, 1 suffices for races over one "on". Requests
share no row, so the races of two calls are races over one request; the theorems
hold for any number of either. One `TTL`
serves both operations. Two users are the least with a second signature, and
what distinguishes a third (an unrelated signer) is not asked for here. No
fairness: nothing in this part promises progress.

Proved (`CaseSwitchProofs`): types, `SpentOnce`, `LateDecisionIsWorthless`,
`OffByTwoForThisOn`, `DecidedOnce` and the refinement of `SecondSignature`, from
`SwitchInv`. It is needed because a spend is guarded by what its UPDATE sees and
not by what the call had read: `RowInv` ties each state of a row to its signer
and uses, `CallInv` says a call about to relax holds a payload that names a past
or present epoch, `LateInv` that a decision after the expiry leaves a row
whose life is over, `EpochInv` that no row names an epoch to come.

`SignedBySeasoned` is proved for calls one at a time (`SeasonedSigner`, for any
requests, people, life time and window) from `SeasonInv`. A decision by somebody no
longer seasoned happens when the assignment is granted again between the check of
`decide` and its UPDATE. It is harmless because of two clocks: the approval's age and
the signer's time on the case run alike, so `held - since` stays where it was at
the decision, short of the window, until the request expires or a further grant
sets it back further (`FreshInv`); the spend asks just that, and a call past
the asking keeps a row that nobody can decide meanwhile, unless it expires
(`RelaxInv`). TLC checks `SeasonInv` on the instance of `switch_serial` (241,980
states), with no window (72,858) and with a life of 2 and one "on" (787,922).
With the window at 0 the code does not ask at all, and neither does `Seasoned`.

Disagreements, which no run is spent on:

* The mode is read before the transaction, so a case relaxes under `ALWAYS`,
  which docs/05 says it cannot: `NeverRelaxedUnderAlways` fails.
* The signer of a request decided after the spend began is judged by neither
  route, so `SignedBySeasoned` fails with two calls.
* A request that expired undecided is still PENDING to the check and to the
  partial index of 0028, so `InsertRequest` refuses the successor which `decide`
  tells the asker to raise; only a withdrawal by its requester clears it. A
  relaxation's payload is the same for every asker of one epoch.

## 6. Merges: how it corresponds to the code

`into` and `retired` are the columns of a node, `tie` and `ends` those of a tie,
`record[m]` the `node_merge_edge` rows of a merge. `merge` is `BeginMerge` (the two
nodes are read, the time taken), `OpenMerge` (INSERT, which waits for and is refused
by another live merge of the source, and the SELECT of ties) and `ApplyMerge` (the
UPDATEs, which act on current rows with the *selected* ends). `unmerge` is
`BeginReversal` (is it live, is it blocked) and `Restore`. A failed transaction is
`FailMerge`. `Hidden` kinds are ties the merging analyst may not read: their
duplicates are set aside instead of refusing the merge.

| Run | Instance | Shows |
|---|---|---|
| `merges_serial` | 1 call, 3 entities, 2 ties the analysts may not read, 3 merges | exact reversal under every nesting and folding, retired ties stay out, redirects match the ledger, nobody vanishes |
| `merges_vanish` | 2 calls, 2 merges, no ties | **violated**: A into B beside B into A |

Bounds: a duplicate needs three entities and two ties, and three merges nest, are
reversed in the wrong order if LIFO fails, and are done again; with three entities
the third merge of a nest makes self-loops, so a chain of three redirects with
both ends of a tie outside it is beyond the instance. `MaxTime` bounds the merges
begun. The clock is one strictly increasing counter; skew between API
processes is a hazard noted and not modelled.

Every check of `merge` and `unmerge` is made before the transaction and repeated
by no lock, so the passing run is of one call at a time, where the ledger is
exact. `merges_vanish` is the plainest consequence. With `Calls = {c1, c2}` TLC
finds more: `RedirectIsLedger` fails (a merge reversed twice, the second reversal
after the entity was merged again, clears the new redirect; three merges), and
`RetiredStaysOut` and `Restored` fail (a tie retired between a merge's SELECT and
its UPDATE is recorded as one the merge took out, and is resurrected). The LIFO
rule can be raced as well: the blocker query runs before the transaction, and a
later merge of the same tie may commit in between.

Proved (`MergesProofs`), for any entities, ties, merges and kinds: whatever runs at
once, `DeskInv`, the types with what a call has in hand (a merge that is open is
one call's). The four promises of `merges_serial` are proved for one call at a time,
`Calls = {c}`, from `SerialInv`. Its parts: what a call read is so when it writes,
and its merge is the last begun (`AsRead`); merges have distinct times (`Times`);
who was merged into an entity that was merged on was merged first (`Ledgered`);
and, the heart of it, `Chained`: the live merges that hold a tie, in order of time,
are a chain that starts where the tie was recorded (`origin`), each taking the tie
where the one before left it, and the last leaving it where it is; only the last may
have taken it out. The LIFO rule is what keeps it: a merge that is not `Blocked` is
the last of every tie it holds, so a reversal removes the end of each chain and puts
the tie where the one before left it. `Accounted` says that a tie is out because an
analyst retired it or a live merge took it out, and nothing else.
`Restored` is the empty chain; `RetiredStaysOut` is `Accounted`. `NobodyVanishes`
says that no set of entities is closed under redirects: of the merges out of such a
set one was the last, and the redirect of the entity it went into would be a later
one. TLC checks every part of `SerialInv` on the instance of `merges_serial`
(1,503,038 states), and `DeskInv` with two calls, three entities, a tie and two
merges (208,880).

Two more need no race, and no run is spent on them. `LiveTiesAreDrawn`: a
reversal revives a tie whose other end was merged away since.
`NoTieToTheRetired`: with hidden kinds, a duplicate set aside by a merge is not
seen by the cascade that retires its third party, and the reversal revives it.

## 7. Exhibits: how it corresponds to the code

`row` is the exhibit's row as the database sees it (`open` is inserted and not
committed, `void` rolled back), `bytes` what the store has, `hold` and `caseHold`
the two legal holds, `approval` the request a purge out of schedule spends,
`stones` and `emptied` what tombstones count. Row locks are explicit (`locks`,
share or update): whoever wants a conflicting one waits. A transaction's writes
are made in the step that commits it, except where another transaction can see
that they are coming, which is through the locks.

| Code | Actions |
|---|---|
| `set_legal_hold`, `set_case_legal_hold` | `SetHold`, `SetCaseHold` |
| `purge_due`: the case's claim, `_claim_for_destruction`, the store's delete, the mark, the tombstones, the case's own records | `BeginSweep`, `ClaimCase`, `ClaimExhibit`, `StoreDestroys` / `StoreRefuses`, `MarkExhibit`, `WriteTombstone`, `EmptyRecords` |
| `purge_out_of_schedule` with `_lock_approval` | `BeginPurge`, `LockApproval`, `LockCase`, `LockRow`, `RereadHolds`, the store, `Spend` |
| `_fetch_verified` with `_refuse_if_retention_has_it` | `BeginRead`, `Fetch`, `AskRetention` |
| `ingest` with `_existing_for`, the index of 0141, the put and `_record_orphan`; `_reacquired` | `BeginLodge`, `InsertRow`, `LookAgain`, `PutObject`, `CommitLodging`, `Reacquire` |
| a process dies | `Crash`, `CrashLodging`; an answer is lost in `StoreDestroys`, `PutObject` |

Choices worth knowing:

* The trigger of 0142, which refuses a hold on a destroyed exhibit, is *not* a
  guard: `HeldIsThere` shows that the locks suffice.
* `spoilt` is what one fault may leave: bytes gone and the row live, or bytes
  stored that no row names. `OneInFlight` bounds it for a sweep, one exhibit for
  each fault. A purge out of schedule may lose a whole batch, and its approval
  stays usable; the docstring at `retention.py:1102` calls this the bad direction.
* The UPDATEs that empty a case's clocked records do not ask whether they are
  empty, so two sweeps that both found them due count them twice (`emptied`
  passes 1). No document says those counts are exact, and no property does.
* VIEWED or ACQUIRED custody may be written after the destruction of the exhibit
  it names; the preview's digest is compared before the sweep reads again.

| Run | Instance | Shows |
|---|---|---|
| `exhibits` | 2 calls; exhibit 1 lodged, 2 and 3 of one content that may be lodged; one approval; holds on 1 and on the case; 1 fault | holds are never passed over; rows, orphan events, alarms, tombstones and approvals tell what happened to the bytes; one order of row locks |
| `exhibits_reacquired` | the same with 2 lodged, no holds, no faults | **violated**: a lodging is answered with a purged exhibit |

Bounds: two calls are what any of these races needs; three exhibits allow a batch
of two and a twin. `Named` says which exhibits orders and readers ask for: one is
enough, since exhibits differ in the order of their ids only. A fault is a crash
between a destruction, or a put, and what would have recorded it, or an answer
the store's delete loses; other crashes are free and unbounded. A second fault would repeat the first, and `OneInFlight` says
per fault. The order of locks is a property of one call's acquisitions, so
`InLockOrder` needs no more calls to show that no cycle of waits can form among
purges and lodgings of any number; holds take one row lock each.
Deadlock checking itself is off, since every exhibit may be purged in the end.

Proved (`ExhibitsProofs`): the seven invariants and `HoldBeatsPurge`, for any
number of cases, exhibits, requests, calls and faults, cases and exhibits being
finite so that what was lost can be counted (`FiniteAssumption`). The invariant `IInv` of
`ExhibitsProps` says, for each call and each place it can be at, which row locks it
holds and which it needs (`LocksAt`, `LocksFor`), that an update lock excludes
every other (`Exclusive`), and what the exhibits it is destroying look like
meanwhile: live, not held, and under its lock (`Fated`). A hold writes the row, or
the case's, so it waits for that lock; that is the whole of why a hold cannot
overtake a purge, and the trigger is not needed. `Missing` says that bytes are
missing under a live row only between the store's delete and the mark of a call
that is still there, or where a fault cut one off. `Lost` counts the latter:
`OneInFlight` follows by an injection of the exhibits in flight into the sweeps
that destroy them, one each because a sweep commits every mark before it claims
the next (`Aim`). `InLockOrder` needs the locks where they are held *and* the list
of a purge out of schedule to be taken up from its least exhibit. TLC checks
`IInv` on the instance of `exhibits` as well (1,282,341 states; not one of its
runs, for the time it takes).

## 8. Ledger: how it corresponds to the code

One module for both chains, `audit.event` and `core.evidence_custody`: the same
trigger (0149), the same verifier. A row is `[seq, prev, body, hash]`; `Digest`
is injective and stands for SHA-256 over the canonical row. `Begin`, `Draw` (the
number's default), `TakeLock`, `Append`, `Commit` and `Abort` are a writer's
transaction; `Upgrade` and `Downgrade` run migration 0149 and its reverse between
transactions; `Record` is an operator noting an anchor. `Tamper` is a statement
by the table's owner: delete a row, edit one, relink one, rehash one. Before 0149
the number is drawn before the lock, and after it inside; only after it are
snapshot transactions refused.

The verifier is operators: `LinkBroken`, `ContentBroken`, `Forked`, `FreshFork`
(by the boundary), `GenesisBroken`, `AnchorStatus`, and `Intact(S)` over a window
`S` of the table.

| Run | Instance | Shows |
|---|---|---|
| `ledger` | 2 writers, 5 numbers, 2 statements of the owner | an untouched ledger verifies in every part; number order is chain order above the boundary; removals show; anchors vouch |

Bounds: two writers are a race for the lock; five numbers let a migration, its
reverse and its repetition each have rows around them; two statements are an
edit and its cover-up. Both writers and both bounds are arbitrary in the proofs.

Proved (`LedgerProofs`): all four properties. The invariant `IInv` is the
conjunction of `TypeOK`, `LockInv` (only the lock's holder has rows to commit,
and it sees every row), and, while nobody has tampered, `NumberInv` (a number
drawn before 0149 is nobody else's), `ChainInv` and `AnchorInv`. `ChainInv` says
`Sound` of the table and of what each writer would make it: rows are as the
trigger makes them, one to a number, one of them first, each of the others linked
to a row, and above the boundary in the order of numbers. `SoundAppend` is the
step that matters: a row appended by who sees every row keeps `Sound`, whichever
side of 0149 it is on. `RemovalShows` rests on `NextNames`, that the row after a
removed one names it and nothing else has its hash. `AnchorVouches` is an
induction of its own (`VouchInduction`), on what was vouched when the anchor was
recorded, and on `DigestInjective`: a row found under a vouched row's hash *is*
that row, so its `prev` is the next one down.

What the model leaves out: a repeatable-read writer before 0149, which nothing
refused; the verifier reads the table and the chain's first row in separate
statements (a first row committed in between is reported as a missing genesis, a
false alarm that the next run withdraws); renumbering rows without touching their
links is invisible, as `audit_verify.py` says; a windowed run with a held anchor
does not read the content of rows outside the window. Bodies are distinct.

## 9. Jira: how it corresponds to the code

`delivery`, `links` and `dest` are the tables; `issues` is Jira, with the ref
label, the TLP label and the posts that carry markers. A pass is one process
(the drain's advisory lock) and `pc` says before which statement or call it is:
`Reconcile` and `ReadDue`, then for each row `Pick -> OpenLink / TakeLink ->
Search -> Claim -> Mark -> Create -> Linked -> Record -> SentOn`, or `Status ->
Label -> Look -> Comment -> Posted`, or `Failed`. Every statement commits alone,
and `Crash` may come between any two. A call to Jira is done, fails, or is done
with its answer lost (`CallFails`); a configuration fault makes the destination
BROKEN. `Settles` is the back-off, the index and `SETTLE` running out, all of
which take longer than a pass. Between passes people finish issues, pause,
activate, retire, move and mend the destination, veto a case, opt out and requeue.

| Run | Instance | Shows |
|---|---|---|
| `jira` | 2 deliveries of 2 events of one work item, the second at a higher TLP; 2 attempts; 1 crash or change of configuration | one issue per ref, SENT is true, no second post but one, every delivery is settled |

A destination that was never activated is sent nothing, so a run begins with it
ACTIVE or PAUSED.

Bounds: a second post needs two events on one issue, a second issue a create
whose answer was lost and one more attempt, and three links let an issue that was
finished in Jira be followed by a fresh one twice. `MaxTrouble` bounds crashes
and configuration together, because each starts the pass over. `MaxLinks` and
`MaxIssues` must be out of reach, or the last pass stops for want of a name: two
troubles need a fourth link.

Fairness (`FairSpec`): weak fairness of starting a pass and of each of its steps,
since the drain is run on a timer; strong fairness of `Settles` and of
`Reconcile`, since time passes whatever the passes
do, and a search made again and again is answered in the end. `EveryDeliverySettles` is
asked while the destination is up: a paused or broken one holds its rows, as the
code says.

Proved (`JiraProofs`): `OneIssuePerRef`, `SentIsThere` and `NoSecondPost`, for any
deliveries, events, work items, labels, ceiling and bounds, of `Spec`, without
fairness. `IInv` of `JiraProps` is a map of what each statement of a pass may rely
on, where a crash may have cut any earlier pass. `Filed` ties an issue to the
attempt that made it: the link's `creator` is the issue's first event, and once
the attempt is settled the index has the issue. So a search that finds nothing
proves that there is nothing (`AtStep` at `search` and `claim`), and a create is
made only by the event the link names as its creator (`Making`). A comment is made
only where the event's row was claimed before and the issue lacks it (`Lacking`):
that the issue has no comment of an event whose row says none is the last part of
`Filed`. `Told` says that a row that says posted is of a post that is there.
`Rows` is why an attempt is counted once: a row in hand is of a delivery still
PENDING, the only one of it. `tried` and `sweep` are not typed and need not be: a
link found by `_reconcile` is recognised by its issue's ref. TLC checks `IInv` on
the run's instance (303,123 states), with three deliveries of which two tell of one event (7,000,187) and
with two work items and two troubles (1,517,903).

Left out: deletion of issues in Jira, credentials, the list of kinds, the time
budget and row cap of a pass, the window of twenty comments `_look` reads, the
wording. `Ceiling` is never exceeded in the run.

Disagreements, which no run is spent on:

* `NoSecondPost` exempts one second post: the process dies between `_linked`'s
  UPDATE and the INSERT that says the opening event is on the issue, and the next
  pass comments it.
* A comment of unknown outcome on an issue that is then finished in Jira is
  posted again on the fresh issue.
* `LabelFirst`: a create at a higher TLP fails, another delivery opens a second
  link's issue at the lower one, and the first comments there without raising the
  label; the comment in `_comment` says the label goes first.
* `UncertainIsNamed`: `_reconcile` reads the ten oldest uncertain links
  (`jira.py:1309`); ten whose issue was never made keep a younger one from ever
  being looked for, against its docstring.

## 10. Proposals: how it corresponds to the code

One case, all at one label, one selector type. `state` and `applied` are a
proposal's; `life`, `label` an entity's; `indexed`, `owner` the selector rows'. A
call's own writes are in `draft` until it commits; statements read what is
committed and wait for row locks (`locks`). `Rollback` is any refusal, deadlock
or death.

| Code | Actions |
|---|---|
| `capture`: document, selectors read, proposals inserted | `BeginCapture`, `Land`, `ReadHit`, `Propose`, `EndCapture`, `CaptureDies` |
| `accept` of a NODE proposal | `BeginAccept`, `LockProposal`, `Record`, `Commit` |
| `create_node` with `record_for_reader` | `Enter`, `Record`, `Commit` |
| `_disposition` (reject, defer) | `BeginDisposition`, `Dispose` |
| `soft_delete_node` with `release_node` | `BeginEdit`, `LockNode`, `Release`, `Hand`, `Commit` |
| a corrected label with `follow_label` | `BeginEdit`, `LockNode`, `LetGo`, `Record`, `Commit` |

| Run | Instance | Shows |
|---|---|---|
| `proposals` | 2 calls, 2 values, 2 entities, 2 pastes of one text | a proposal brings in one entity; the index tells; owners keep their rows; a paste asks once |
| `proposals_overwritten` | the same | **violated**: an accepted proposal says REJECTED |

Bounds: two calls are a race; two entities of one value are the twins of a
hand-over, the second value what a relabelling goes to; two pastes are the
repetition. With three entities and one paste TLC finds the same properties hold.

Proved (`ProposalsProofs`): all four properties, for any values, texts, entities
and calls, the three kinds of row being distinct (`RowAssumption`). `IInv` of
`ProposalsProps` says what each call is for at each place (`Job`), which rows it has
locked there (`LocksAt`) and that nobody else has (`Alone`). `Born` and `Paired` give
`BornOnce`: an entity that is not committed is one call's, and the acceptance that
holds it holds the proposal's row, which stays PROPOSED until both commit. `Pasting` and
`Fresh` give `AskedOnce`: what a paste is about to ask was asked by none but a paste
that overlaps it. For the index, `Drafts` says what the holder of a row may write
in it, and `Handing` that a retirement holds every row its entity owns, and that
whom it hands one to stands still until it commits, or the row is in `raced`: some
other call had that entity's row locked, or locked it before the commit. TLC checks `IInv` on the run's instance (2,885,342 states).

Three ghosts mark what the code does not keep, and the properties exempt exactly
these: `raced`, a retirement may hand a row to a twin that is itself being retired or
relabelled, and leave the row pointing at an entity that is gone; `left`, relabelling an owner leaves a row
nobody owns though a twin carries the value (`record_for_reader` does not take
over from a retired owner either); `met`, two overlapping pastes of one text
store two documents and ask twice. A DISPUTED proposal can be rejected
and never accepted.

Left out: merges and sightings (`POST /selectors`), EDGE and ATTRIBUTE proposals
(the same steps with no row; the accept of an attribute does not ask whether its
entity is still there), labels, and producers of proposals other than pastes.

## 11. What is proved, and what is not

TLAPS checks the seven modules `<Module>Proofs` with no unproved leaf. The
assumptions are the named ASSUMEs of the modules they are about (disjoint process
sets and rows, positive life times, null values outside their sets, every key has
a persona, at least one writer, finitely many cases and exhibits); TLC evaluates
them in each run. Every theorem has the shape `Spec => []P`, `Spec => [][A]_vars`
or `Spec => Abstract!Spec` and follows from one inductive invariant by a step lemma per action, named
after the action (`ClaimInv` is the lemma of `Claim`). Those of `PersonaActs` and
`CaseSwitch` are checked by runs too; those of `Merges`, `Exhibits`, `Jira` and
`Proposals` by the same instances outside the runs, with the sizes given above.

Every safety property of a passing run is a theorem. Six theorems, `SeasonedSigner`
and those about merges but `MergesDesk` and `MergesTypes`, add the hypothesis
`Calls = {c}`: calls come one at a time, which nothing in the code enforces.
With two calls `SignedBySeasoned` and the promises about merges are false, as
sections 5 and 6 say, so the hypothesis is part of the result: the code keeps
these promises only while nobody races.

Only model-checked: `EveryActFinishes` and `EveryDeliverySettles` (liveness is
outside the prover's reach). `ReusedIsLive`, `ElementKeepsItsRecord` and
`NobodyVanishes` with two calls are what violation runs refute.

Reading a violation: `tlc -config MergesVanish.cfg MCMerges.tla` prints the
shortest interleaving. Each violation run checks one property that a comment or a
docstring of the repository states; `PROJECT.json` quotes it beside the run.

## 12. Not modelled, and why

* **In the plan, not yet there**: the deployment's dual control policy,
  break-glass grants, lookups with their quotas, the ownership of lab runs and
  sandbox submissions, collection runs, the egress STOP, the lifecycle of cases
  and compartments, the last user manager. All are rows moved by statements, as
  the modules above are.
* **Nothing to interleave**: analytics (floating point), parsing of forum pages,
  archives and executables, PGP and the envelopes, rendering of reports,
  readiness verdicts, projections, the ontology. Their difficulty is in data.
* **One atomic step**: rate limiting is a Lua script over one number.
* **Assumed**: row security; a model's action sees what its connection's purpose
  lets it see.
* **Input and output**: the HTTP shell, the installers, the console.
* Inside modelled parts, each section above says what it leaves out, and
  `PROJECT.json` says for each component why it is `partly` modelled.
