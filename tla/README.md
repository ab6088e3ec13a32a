# TLA+ models of rucio load injection

This directory holds TLA+ models of the load-injection subsystem of rucio
(`src/lib/rucio/core/load_injection.py`, the gateway
`src/lib/rucio/gateway/loadinjection.py`, the REST view
`src/lib/rucio/web/rest/flaskapi/v1/loadinjection.py` and the client
`src/lib/rucio/client/loadinjectionclient.py`), with TLC configurations that
check them. `PROJECT.json` lists the components, the runs, the mutants, the
map from every definition to the source lines it models, the findings and the
hazards.

## 1. Inventory

### Components and their state

| Component | Code | State it keeps | Operations |
|---|---|---|---|
| Dataset candidate selector | `core/load_injection.py` `scan_unique_rse_pair_datasets`, `validate_unique_rse_pair_dataset` | none; reads the `dataset_locks` ledger | scan(src, dest), validate(scope, name, src, dest) |
| Candidate cache | `core/load_injection.py` `get/add/delete_unique_rse_pair_dataset(s)` | table `load_injection_datasets`, keyed (per the spec) by (src, dest, scope, name) | get, put (single and bulk), delete (single and bulk) |
| Plan registry | `core/load_injection.py` `get_injection_plans`, `add_injection_plan(s)`, `delete_injection_plan(s)`, `update_injection_plan_state`, `get_injection_plan_state` | table `load_injection_plans`: plan_id, src and dest RSE ids, state, rate/time/flag columns | list, bulk insert, delete by pair, unconditional state update by pair, point lookup by pair |
| History archiver | `core/load_injection.py` `add_injection_plan(s)_history` | table `load_injection_plans_history` | append (single and bulk) |
| Submission gateway | `gateway/loadinjection.py` `add_load_injection_plans` | none of its own; resolves names, assigns ids, checks permission and duplicates | bulk submit |
| REST view | `web/rest/flaskapi/v1/loadinjection.py` `BulkPlans.post` | none | maps gateway exceptions to 401 / 409 / 406, success to 201 |
| Client | `client/loadinjectionclient.py` `LoadInjectionClient` | none | add one plan, add a list of plans |
| Lifecycle executor | not in the repository (spec sections 4.3 and 9) | its own progress | drives transitions and archival through the core functions |
| Placement ledger | rest of rucio (`dataset_locks`) | locks per dataset, RSE and rule | changes at any time |

### How they interact

A client POSTs a list of plans. The REST view calls the gateway. The gateway
works in this order:

1. It resolves the RSE names in the issuer's VO and stamps each plan with
   state WAITING and a fresh uuid.
2. It asks the permission module.
3. It reads the live plans with `get_injection_plans()`.
4. It rejects the batch if a new plan's pair, resolved again **without** the
   VO, equals a live plan's pair.
5. It inserts the batch with `add_injection_plans()`.

The read (step 3) and the insert (step 5) are each in their own session and
transaction, because neither call is passed `session=`. The gateway's own
`@transactional_session` does not contain them. All coordination between
processes goes through these shared tables; no in-process memory is shared.

The executor is the only writer of state transitions and of history. It is
external: the spec describes it, but no such process exists in this
repository. It uses `get_injection_plan_state`/`get_injection_plans` to read,
`update_injection_plan_state` to move a plan, and `add_injection_plan_history`
followed by `delete_injection_plan` to archive a plan.

Candidate selection has two external callers, both modelled from the spec:
- a populator, which scans the ledger for a pair and puts the result into the
  cache;
- a consumer, which takes a cached candidate, re-validates it against the
  ledger, injects it, and deletes it from the cache.

### What is hard

- **Interleavings of independent processes.** Several REST workers and
  executors act on the shared tables. Reads and writes sit in separate
  transactions, so there are check-then-act windows:
  - between the gateway's read (line 71) and its insert (line 87);
  - between an executor's state read and its update.
- **Crash or timeout between two transactions.** The spec makes archival
  "history then delete", and this is two transactions. A retry after a
  timeout archives the plan again.
- **Staleness.** Scan results and cache entries are point-in-time snapshots
  of a ledger that keeps changing. Only `validate` re-reads the ledger.
- **SQL semantics.**
  - The NOT EXISTS subquery of `scan` is not correlated. It tests whether the
    destination holds any lock at all.
  - The scan returns one row per lock, not one per dataset.
  - The average-size filter divides by `length`, and the database may
    evaluate that before the `length BETWEEN 1 AND 1000` filter.
- **Key and VO mismatches across layers.**
  - The client sends `dst_rse`, but the gateway reads `dest_rse`.
  - The duplicate check resolves names in the default VO, but the plans are
    stored with the issuer's VO.

### What makes each component correct

- **Registry:** at most one live plan per ordered pair. The check and the
  insert must be atomic, and a bulk submission is all or nothing.
- **Lifecycle:** transitions follow the table of spec section 4.3 only.
  A terminal plan never becomes live again.
- **Archiver:** every plan that leaves the live table is in history (no
  silent loss), and each plan is copied there exactly once.
- **Selector:** everything scan returns is a candidate at scan time, and scan
  returns every candidate. Validate accepts only datasets that are still
  complete at src and absent at dest.
- **Cache:** put is all or nothing, and it rejects duplicates.
- **Gateway/REST/client:** a well-formed client request is not rejected as
  malformed. Exceptions map to the documented status codes.

## 2. Modules

| Module | Models | State | Actions |
|---|---|---|---|
| `LoadInjectionCore` | the plan and history tables and their core functions | `plans` (set of rows: plan_id, src/dest RSE id, state), `history` (bag of rows without plan_id) | operators `get_injection_plans`, `get_injection_plan_state`, `add_injection_plans`, `add_injection_plan_history`, `delete_injection_plan`, `update_injection_plan_state`, each one transaction |
| `LoadInjectionGateway` (extends Core) | client request shapes, gateway, REST status mapping | `gw[s]` per REST worker (pc, origin of the last request, rows held between check and insert, the pairs a 409 refused, last response), `nextId` (uuid generator) | `Submit(s)` = gateway lines 47-85 + REST exception mapping; `Insert(s)` = line 87 + 201 |
| `InjectionExecutor` (extends Core; from the spec) | the external lifecycle executor | `ex[e]`, `crashes`, ghost `archivedFrom` | `ReadState`, `Transition`, `PickTerminal`, `Archive`, `Remove`, `Crash` |
| `LoadInjectionSystem` | composition of the gateway and the executor over the shared tables; the refinement mapping to `PlanRegistry` | all of the above | `Next` = gateway step or executor step; `FairSpec` adds fairness |
| `PlanRegistry` | what the registry and archiver promise (spec 3, 4.3, 4.4): atomic bulk submit of waiting plans with fresh ids on free, distinct pairs; moves along the lifecycle table; archive-and-remove as one step | `live`, `history`, `retired` | `SubmitBatch`, `Transition`, `Archive` |
| `MC_LoadInjection` | instance: RSE names A and B in both VOs with different ids per VO, C in the second VO only | | |
| `DatasetSelector` | scan, validate, cache put/get/delete for one pair; ledger as environment; populator and consumer from the spec | `locks[d, rse, rule]`, `cache`, `pop[p]`, `con[c]` | `Scan` (answer, or fail with division by zero), `Retry`, `Put`, `Take`, `Validate`, `Inject`, `Forget`, `LedgerChange` |
| `MC_DatasetSelector` | instance: d1 passes the size filters, d2 is an empty dataset | | |

**Correspondence.**
- Each core function is one TLA+ operator named after the function. It has
  the whole effect of the function: for example, `delete_injection_plan`
  removes every row of the pair, and `update_injection_plan_state` rewrites
  every row of the pair whatever its current state.
- The `plan_id` column is what distinguishes rows. The remaining columns
  (rate, interval, times, fudge, flags) are copied unchanged by every
  function and are left out.
- History rows have no `plan_id`, because `add_injection_plans_history` does
  not pass it to `LoadInjectionPlansHistory`.
- `get_rse_id` is the constant operator `RseIdOf(vo, name)`; it yields
  `NoRSE` for a name the VO does not know, which is where `get_rse_id`
  raises RSENotFound.
- The gateway's outcome is taken in code order: `PlansBuilt` (lines 47-49:
  KeyError or RSENotFound in the issuer's VO, 406), then the permission
  check (401), then `LoopVerdict` (lines 71-85), which stops at the first
  plan whose names the default VO does not know (406) or that matches a live
  plan (409). A refused request keeps the pairs of the plans it built in
  `gw[s].refused`, so properties can compare the verdict with the table.
- `has_permission` is a nondeterministic input.
- Bytes are in units of 10^8. The scan's `bytes / length > 100000000` becomes
  `bytes > 1 * length`, which is the true division that SQLAlchemy 2 renders
  for `/` on integers.

**Refinement.** `LoadInjectionSystem` maps its state to `PlanRegistry`:
- abstract `live` is the set of rows of `plans` whose id is not yet in the
  ghost `archivedFrom` (the ids `Archive` has copied into history);
- abstract `history` is `history`;
- abstract `retired` is the set of ids in `archivedFrom`.

The executor's `Archive` is the abstract archive step. Its `Remove` is a
stuttering step, because the removed row has already left the abstract
`live`. The gateway's `Insert` is the abstract `SubmitBatch`. `Submit`,
`ReadState` and `PickTerminal` only read, so they are stuttering steps.
`ImplementsPlanRegistry == Registry!Spec` is checked as a PROPERTY.

## 3. Runs

Every run uses TLC with two workers. Every run but `serial` (about 1.5 minutes) finishes in under a minute.

| Run | Cfg | Expect | Shows |
|---|---|---|---|
| `serial` | `MC_serial.cfg` | pass | Conditions: one REST worker, one executor that may crash once, one VO, bulk lists naming each pair once, 2 plan ids, `FairSpec`. Under them, uniqueness, no silent loss and transition legality hold, and every accepted plan is eventually archived (`EveryPlanArchived`). 138k states, 1.5 min. |
| `refinement` | `MC_refinement.cfg` | pass | Same conditions without crashes: the system implements `PlanRegistry`. 16k states. With one crash allowed the property fails on the archive retry, the finding of `archive_retry`. |
| `duplicate_loss` | `MC_duplicate_loss.cfg` | violation | Two REST workers both read "no plan" for a pair and both insert (the race between lines 71 and 87). The executor read the state while only the first plan was there, and its update moves both to expired. Archiving the first then deletes the second by pair, so it is never copied into history (`NoSilentLoss`). |
| `duplicate_stuck` | `MC_duplicate_stuck.cfg` | violation | A bulk list naming a pair twice inserts two plans, because its items are checked only against the live table. `get_injection_plan_state` then raises MultipleResultsFound for that pair, and a fair executor can never advance or archive them (`EveryPlanArchived`). |
| `multi_vo` | `MC_multi_vo.cfg` | violation | `SubmitVerdictExact`: the loop of lines 71-85 should refuse (409) only requests one of whose pairs, in the issuer's VO, has a plan, accept only requests none of whose pairs has, and a request whose plans were all built should never get 406. It resolves names in the default VO instead. TLC's counterexample (three steps): a v2 request for (A,C), i.e. (a2,c2), is answered 406 because C is unknown in the default VO. The other symptoms are reachable too: a default-VO plan (a,b) makes a v2 request for (A,B) fail with 409, and a second v2 plan for a pair v2 already has is accepted. |
| `client_single` | `MC_client_single.cfg` | violation | `LoadInjectionClient.add_load_injection_plan` sends `dst_rse`. The gateway raises KeyError on `dest_rse`, and the view answers 406. |
| `archive_retry` | `MC_archive_retry.cfg` | violation | An executor crash between the history insert and the delete, then a retry, copies the plan into history twice. Nothing stops this, because history rows carry no plan_id. |
| `transition_race` | `MC_transition_race.cfg` | violation | Two executors read then update without compare-and-set, and an expired plan goes back to running. |
| `selector` | `MC_selector.cfg` | pass | Everything scan returns is a candidate at scan time (`ScanReturnsCandidates`), over a ledger that changed arbitrarily before. 164k states. |
| `scan_complete` | `MC_scan_complete.cfg` | violation | `ScanReturnsEachCandidateOnce`: scan's result should be the candidates, each once, since the cache's put rejects a repeat. TLC's counterexample: a candidate is missed because another dataset is locked at dest (uncorrelated NOT EXISTS). With `Datasets = {"d1"}` the same property fails the other way: d1, locked at src by two rules, is returned twice (no DISTINCT). |
| `scan_retry` | `MC_scan_retry.cfg` | violation | The ledger holds a lock of the empty dataset d2 (length 0). Scan divides by zero, and a populator that retries, as section 5 allows, fails every time: `ScanEventuallyAnswers` is violated by a Scan-fail/Retry cycle. |
| `validate_complete` | `MC_validate_complete.cfg` | violation | Validate accepts a dataset whose src lock is REPLICATING, not complete. |

Two more facts came out of the model and have no property:
- validate answers from one read of the ledger, so its answer is fresh when
  given; but the ledger may change between validate and the consumer's
  injection, and nothing holds the dataset in between. The consumer is not
  in this repository and the spec accepts that staleness (StaleCandidate),
  so there is nothing of this code to state about it;
- two consumers that take the same cached candidate can both pass validate
  before either injects it, because validate reserves nothing.

**Bounds.**
- Two RSE names are enough: they give pairs (A,B), (B,A), (A,A) and (B,B),
  which share a source or a destination. `multi_vo` adds C, a name of the
  second VO only, for the RSENotFound path.
- Two plan ids let two plans be live at once, either for the same pair (the
  duplicates) or for two pairs with the same source (what the mutants of the
  delete and update filters need).
- Bulk lists of up to two plans allow a repeated pair. `duplicate_loss` uses
  lists of one plan, since the race alone makes the duplicate.
- One crash is enough to split archival.
- In the selector, two datasets and two rules give the cases that matter:
  - a lock of another dataset at dest;
  - two locks of one dataset at src;
  - an empty dataset that fails every size filter and makes scan divide by
    zero.

**Symmetry.** REST workers and executors are interchangeable processes, but
no cfg declares a symmetry: the multi-process runs are small, and the runs
that check liveness or refinement must not use one.

**Fairness.**
- `LoadInjectionSystem!Fairness` is weak fairness of each executor's step
  and of each REST worker's `Insert`.
  - The spec (section 5) describes the executor as a scheduler that
    "advances plan state over time".
  - A worker that has passed its checks goes on to commit within the same
    request handler.
  - Submissions themselves are users' actions and are not fair.
  - Plans end because every plan expires: the table lets every live state go
    to `expired`, and nothing leads from a terminal state back to a live one.
- `DatasetSelector!SelFairness` is weak fairness of each populator's scan,
  retry and put. Section 5 makes a failed call retryable by the caller. The
  ledger and the consumers owe nothing.

In `LoadInjectionSystem` the fairness conjuncts carry the `UNCHANGED` of the
other component, exactly as `Next` does, so that `ENABLED` is evaluated over
system steps.

## 4. Not modelled

- Rate, interval, time window, fudge, max_injection, rule lifetime, big_first
  and dry_run. They are carried but never interpreted.
- The transfer execution itself, and the permission policy.
- Authentication, the HTTP layer beyond the status mapping, and JSON parsing.
- Two populators at once. `Populators` is a set and the model admits
  them, but their overlapping puts fail by the same all-or-nothing rejection
  of a repeated tuple that `scan_complete` already reaches with one
  populator, and with two the selector state space grows past what a run
  explores in minutes.
- The STUCK lock state. It behaves like REPLICATING in every filter.
- Lock rows of other RSEs during scan: the `rse_id` filter removes them.
- How consumers coordinate among themselves. They are not in this
  repository, and the core offers them no reservation.

## 5. Status and what is left

Done:
- the abstract registry and its refinement;
- duplicates through the lifecycle;
- liveness of the registry and of the scan;
- the division-by-zero hazard;
- RSENotFound for names unknown in the default VO (`multi_vo`);
- repeated datasets in the scan's result (`scan_complete`).

Left:
1. **Variants of the code.** A unique (src, dest) constraint on
   `load_injection_plans`, and compare-and-set in
   `update_injection_plan_state`. Neither is in this code: the table
   definitions (`rucio.db.sqla.models`) are not in this repository, and the
   update is unconditional.
