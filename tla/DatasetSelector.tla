--------------------------- MODULE DatasetSelector ---------------------------
(***************************************************************************)
(* Candidate selection and the candidate cache of rucio.core.load_injection*)
(* for one (src, dest) RSE pair.                                           *)
(*                                                                         *)
(* The dataset_locks ledger is owned by the rest of rucio and changes at   *)
(* any time (rules are added and removed, locks go OK <-> REPLICATING);    *)
(* it is the environment here.  scan, get, put, delete and validate are    *)
(* the code's functions, each one atomic read or transaction.  Their       *)
(* callers are not in this repository: a populator that scans and caches,  *)
(* and a consumer that takes a cached candidate, validates it, injects it  *)
(* and deletes it, as sections 4.1, 4.2 and 5 of the spec describe them.   *)
(***************************************************************************)
EXTENDS Naturals, FiniteSets, Bags, BagsExt

CONSTANTS
    Datasets,      \* (scope, name) of the datasets in the ledger
    Rules,         \* replication rules that can lock a dataset at an RSE
    SrcRSE, DestRSE,
    DsBytes,       \* DsBytes[d]: bytes column of d's locks, in units of 10^8
    DsLength,      \* DsLength[d]: length column of d's locks
    Populators, Consumers,
    NoDataset      \* model value: no dataset held

RSEs == {SrcRSE, DestRSE}

\* Lock states of dataset_locks: OK ("O") and REPLICATING ("R"); STUCK
\* behaves as REPLICATING for every filter here.  "none": no lock row.
LockStates == {"O", "R"}

\* The constants of the scan's WHERE clause (line 50-51), 10^8 bytes being
\* one unit of DsBytes.
MaxLength == 1000
MinAvgBytes == 1

ASSUME /\ SrcRSE # DestRSE
       /\ DsBytes \in [Datasets -> Nat] /\ DsLength \in [Datasets -> Nat]

VARIABLES
    locks,   \* locks[d, rse, r]: the dataset_locks row of d at rse for rule r
    cache,   \* the load_injection_datasets rows of (SrcRSE, DestRSE): datasets
    pop,     \* pop[p]: populator p's step and the scan result it holds
    con      \* con[c]: consumer c's step and the candidate it holds

selVars == <<locks, cache, pop, con>>

PopState == [pc: {"idle", "put", "failed"}, result: UNION {[S -> 1..Cardinality(Rules)] : S \in SUBSET Datasets}]
ConState == [pc: {"idle", "validate", "inject", "delete"}, ds: Datasets \cup {NoDataset}]

TypeOK ==
    /\ locks \in [Datasets \X RSEs \X Rules -> LockStates \cup {"none"}]
    /\ cache \subseteq Datasets
    /\ pop \in [Populators -> PopState]
    /\ con \in [Consumers -> ConState]

Init ==
    /\ locks \in [Datasets \X RSEs \X Rules -> LockStates \cup {"none"}]
    /\ cache = {}
    /\ pop = [p \in Populators |-> [pc |-> "idle", result |-> EmptyBag]]
    /\ con = [c \in Consumers |-> [pc |-> "idle", ds |-> NoDataset]]

(***************************************************************************)
(* The code's functions.                                                   *)
(***************************************************************************)

\* The size filters of scan_unique_rse_pair_datasets (lines 49-51), with
\* the true division SQLAlchemy 2 renders for "/" on integers.
SizeFilter(d) ==
    /\ DsBytes[d] > 0
    /\ DsLength[d] \in 1..MaxLength
    /\ DsBytes[d] > MinAvgBytes * DsLength[d]

\* The NOT EXISTS of lines 53-61.  Its subquery names only dataset_locks,
\* the table of the enclosing SELECT; SQLAlchemy correlates a subquery
\* only when it has more than one FROM, so the subquery stands alone and
\* "scope = scope AND name = name" compares each inner row with itself:
\* the clause holds when no lock at all is at dest_rse_id.
NoLockAtDest == \A d \in Datasets, r \in Rules : locks[d, DestRSE, r] = "none"

\* Mutation: the SELECT without its state == "O" condition.
ScanRowsAnyState ==
    {<<d, r>> \in Datasets \X Rules :
        locks[d, SrcRSE, r] # "none" /\ SizeFilter(d) /\ NoLockAtDest}

\* The rows the SELECT of lines 46-64 returns: one per qualifying lock.
ScanRows ==
    {<<d, r>> \in Datasets \X Rules :
        /\ locks[d, SrcRSE, r] = "O"
        /\ SizeFilter(d)
        /\ NoLockAtDest}

\* scan_unique_rse_pair_datasets(src, dest): the list of lines 69-81, as
\* the bag of its datasets (one entry per lock row).
scan_unique_rse_pair_datasets ==
    [d \in {x[1] : x \in ScanRows} |-> Cardinality({r \in Rules : <<d, r>> \in ScanRows})]

\* The WHERE clause may divide by a zero length (line 51): the database
\* does not promise to evaluate "length BETWEEN 1 AND 1000" first, and a
\* division by zero is a DataError, which the except IntegrityError does
\* not catch.  It can happen when a lock row of a zero-length dataset exists.
ScanMayFail == \E d \in Datasets, rse \in RSEs, r \in Rules :
                   locks[d, rse, r] # "none" /\ DsLength[d] = 0

\* validate_unique_rse_pair_dataset(d, src, dest), lines 238-261: some lock
\* of d at src, none at dest (here the subquery is bound to d).
validate_unique_rse_pair_dataset(d) ==
    /\ \E r \in Rules : locks[d, SrcRSE, r] # "none"
    /\ \A r \in Rules : locks[d, DestRSE, r] = "none"

\* add_unique_rse_pair_datasets(rows), lines 157-170: the rows are flushed
\* together; a row repeating a cached (scope, name, src, dest) or another
\* row of the batch raises IntegrityError and the session rolls back.
add_unique_rse_pair_datasets(rows) ==
    IF \A d \in BagToSet(rows) : rows[d] = 1 /\ d \notin cache
    THEN cache' = cache \cup BagToSet(rows)
    ELSE UNCHANGED cache

\* delete_unique_rse_pair_dataset(src, dest, scope, name), lines 209-221.
delete_unique_rse_pair_dataset(d) == cache' = cache \ {d}

\* get_unique_rse_pair_datasets(src, dest), lines 97-107.
get_unique_rse_pair_datasets == cache

(***************************************************************************)
(* The populator: scan, then cache what the scan returned.  A scan that   *)
(* raises leaves the populator with the error; section 5 leaves the retry  *)
(* to the caller, which calls scan again.                                  *)
(***************************************************************************)

Scan(p) ==
    /\ pop[p].pc = "idle"
    /\ \/ pop' = [pop EXCEPT ![p] = [pc |-> "put", result |-> scan_unique_rse_pair_datasets]]
       \/ ScanMayFail /\ pop' = [pop EXCEPT ![p].pc = "failed"]
    /\ UNCHANGED <<locks, cache, con>>

Retry(p) ==
    /\ pop[p].pc = "failed"
    /\ pop' = [pop EXCEPT ![p].pc = "idle"]
    /\ UNCHANGED <<locks, cache, con>>

Put(p) ==
    /\ pop[p].pc = "put"
    /\ add_unique_rse_pair_datasets(pop[p].result)
    /\ pop' = [pop EXCEPT ![p] = [pc |-> "idle", result |-> EmptyBag]]
    /\ UNCHANGED <<locks, con>>

(***************************************************************************)
(* The consumer: take a cached candidate, re-validate it, inject it (a     *)
(* rule at dest creates a replicating lock there), then delete the entry; *)
(* a stale candidate is deleted without injection.                        *)
(***************************************************************************)

Take(c) ==
    /\ con[c].pc = "idle"
    /\ \E d \in get_unique_rse_pair_datasets :
          con' = [con EXCEPT ![c] = [pc |-> "validate", ds |-> d]]
    /\ UNCHANGED <<locks, cache, pop>>

Validate(c) ==
    /\ con[c].pc = "validate"
    /\ con' = [con EXCEPT ![c].pc =
                 IF validate_unique_rse_pair_dataset(con[c].ds) THEN "inject" ELSE "delete"]
    /\ UNCHANGED <<locks, cache, pop>>

Inject(c) ==
    /\ con[c].pc = "inject"
    /\ \E r \in Rules :
          /\ locks[con[c].ds, DestRSE, r] = "none"
          /\ locks' = [locks EXCEPT ![con[c].ds, DestRSE, r] = "R"]
    /\ con' = [con EXCEPT ![c].pc = "delete"]
    /\ UNCHANGED <<cache, pop>>

Forget(c) ==
    /\ con[c].pc = "delete"
    /\ delete_unique_rse_pair_dataset(con[c].ds)
    /\ con' = [con EXCEPT ![c] = [pc |-> "idle", ds |-> NoDataset]]
    /\ UNCHANGED <<locks, pop>>

(***************************************************************************)
(* The ledger: rucio adds, removes and re-states locks at any time.       *)
(***************************************************************************)

LedgerChange ==
    /\ \E k \in Datasets \X RSEs \X Rules, s \in LockStates \cup {"none"} :
          /\ s # locks[k]
          /\ locks' = [locks EXCEPT ![k] = s]
    /\ UNCHANGED <<cache, pop, con>>

Next ==
    \/ \E p \in Populators : Scan(p) \/ Retry(p) \/ Put(p)
    \/ \E c \in Consumers : Take(c) \/ Validate(c) \/ Inject(c) \/ Forget(c)
    \/ LedgerChange

Spec == Init /\ [][Next]_selVars

\* A populator that has started a scan is a running process: it is not
\* starved of the database.  The ledger and the consumers need no fairness.
SelFairness ==
    \A p \in Populators : WF_selVars(Scan(p) \/ Retry(p) \/ Put(p))

FairSpec == Spec /\ SelFairness

(***************************************************************************)
(* Properties.                                                             *)
(***************************************************************************)

\* A candidate in the sense of section 3: complete at src, within the size
\* filters, and with no lock of the same dataset at dest.
IsCandidate(d) ==
    /\ \E r \in Rules : locks[d, SrcRSE, r] = "O"
    /\ SizeFilter(d)
    /\ \A r \in Rules : locks[d, DestRSE, r] = "none"

\* A step in which populator p's scan answers.
ScanAnswers(p) == pop[p].pc = "idle" /\ pop'[p].pc = "put"

\* Candidate correctness (section 8): every dataset
\* scan_unique_rse_pair_datasets returns is a candidate when it is scanned.
ScanReturnsCandidates ==
    [][\A p \in Populators :
         ScanAnswers(p) => \A d \in BagToSet(pop'[p].result) : IsCandidate(d)]_selVars

\* Sections 4.1 and 4.2: scan returns the candidates of the pair, every one
\* of them and each once, so that its result is a population put() of the
\* cache accepts (put rejects a repeated tuple).
ScanReturnsEachCandidateOnce ==
    [][\A p \in Populators :
         ScanAnswers(p) => pop'[p].result = SetToBag({d \in Datasets : IsCandidate(d)})]_selVars

\* A step in which validate_unique_rse_pair_dataset accepts c's candidate.
ValidateAccepts(c) == con[c].pc = "validate" /\ con'[c].pc = "inject"

\* Section 4.1: validate re-checks that the dataset is still complete
\* ("O") at src before the consumer injects it.
ValidateRequiresComplete ==
    [][\A c \in Consumers :
         ValidateAccepts(c) => \E r \in Rules : locks[con[c].ds, SrcRSE, r] = "O"]_selVars

\* Section 4.1 allows scan to fail only when the ledger cannot be read, and
\* section 5 makes a failure transient and retryable: a populator that keeps
\* calling scan_unique_rse_pair_datasets eventually gets an answer.  The
\* bytes / length of line 51 can divide by zero on a lock row of length 0,
\* and the same query fails again on every retry while that row exists.
ScanEventuallyAnswers ==
    \A p \in Populators : pop[p].pc = "idle" ~> pop[p].pc = "put"

=============================================================================
