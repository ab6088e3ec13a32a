-------------------------- MODULE LoadInjectionCore --------------------------
(***************************************************************************)
(* The plan tables of rucio.core.load_injection: the live table            *)
(* load_injection_plans and the history table load_injection_plans_history,*)
(* and the core functions that read and write them.  Every core function   *)
(* runs in its own database transaction (it is called without session=),   *)
(* so each is one atomic step here; callers (the gateway, the executor)    *)
(* decide how these steps interleave.                                      *)
(*                                                                         *)
(* A plan row keeps the columns the control depends on: plan_id, the RSE   *)
(* pair and the state.  Rate, interval, times, fudge and the flags are     *)
(* copied unchanged by every function and are left out.                    *)
(***************************************************************************)
EXTENDS Naturals, Sequences, FiniteSets, Bags, BagsExt

CONSTANTS
    RSEIds,      \* internal RSE ids (result of get_rse_id)
    MaxPlans     \* bound on generate_uuid: plan ids are 1..MaxPlans

ASSUME MaxPlans \in Nat \ {0}

VARIABLES
    plans,       \* rows of load_injection_plans
    history      \* rows of load_injection_plans_history, a bag: equal rows can repeat

coreVars == <<plans, history>>

PlanIds == 1..MaxPlans

(* rucio.db.sqla.constants.LoadInjectionState is not under src/; its values *)
(* are the states the spec names.                                          *)
LoadInjectionState ==
    {"waiting", "running", "completed", "expired", "error", "cancelled"}

LiveStates == {"waiting", "running"}

TerminalStates == LoadInjectionState \ LiveStates

(* get_injection_plan_state returns None when no row matches and raises   *)
(* MultipleResultsFound (from scalar_one_or_none, not an IntegrityError,  *)
(* so it is not converted) when more than one row matches.                *)
NoPlan == "None"
MultipleResultsFound == "MultipleResultsFound"

PlanRow ==
    [plan_id: PlanIds, src_rse_id: RSEIds, dest_rse_id: RSEIds,
     state: LoadInjectionState]

(* models.LoadInjectionPlansHistory as add_injection_plans_history builds *)
(* it: every column of the plan except plan_id.                            *)
HistoryRow ==
    [src_rse_id: RSEIds, dest_rse_id: RSEIds, state: LoadInjectionState]

CoreTypeOK ==
    /\ plans \subseteq PlanRow
    /\ IsABag(history) /\ BagToSet(history) \subseteq HistoryRow

CoreInit ==
    /\ plans = {}
    /\ history = EmptyBag

(***************************************************************************)
(* Reads.                                                                  *)
(***************************************************************************)

\* The rows whose (src_rse_id, dest_rse_id) equal the arguments.
RowsOfPair(src, dest) ==
    {p \in plans : p.src_rse_id = src /\ p.dest_rse_id = dest}

\* get_injection_plans(state): every row, or, when a state is given, the
\* rows in that state.
get_injection_plans(state) ==
    IF state = NoPlan THEN plans ELSE {p \in plans : p.state = state}

\* get_injection_plan_state(src, dest): scalar_one_or_none over the pair.
get_injection_plan_state(src, dest) ==
    LET rows == RowsOfPair(src, dest) IN
    CASE rows = {}               -> NoPlan
      [] Cardinality(rows) = 1   -> (CHOOSE p \in rows : TRUE).state
      [] OTHER                   -> MultipleResultsFound

(***************************************************************************)
(* Writes.  Each is the whole function, flush and commit included.         *)
(***************************************************************************)

\* add_injection_plans(rows): one LoadInjectionPlans per row, saved and
\* flushed in one transaction.  The table is keyed by plan_id, a fresh
\* uuid, so no IntegrityError arises and nothing constrains the pair.
add_injection_plans(rows) ==
    /\ plans' = plans \cup rows
    /\ UNCHANGED history

\* Mutation: the history row with source and destination exchanged.
ToHistoryRowSwapped(p) ==
    [src_rse_id |-> p.dest_rse_id, dest_rse_id |-> p.src_rse_id,
     state |-> p.state]

\* The history row add_injection_plans_history builds from a plan: the
\* LoadInjectionPlansHistory constructor is given no plan_id.
ToHistoryRow(p) ==
    [src_rse_id |-> p.src_rse_id, dest_rse_id |-> p.dest_rse_id,
     state |-> p.state]

\* add_injection_plan_history(...): one history row, appended and flushed.
add_injection_plan_history(p) ==
    /\ history' = BagAdd(history, ToHistoryRow(p))
    /\ UNCHANGED plans

\* Mutation: the DELETE filtered on src_rse_id alone.
delete_injection_plan_by_src(src, dest) ==
    /\ plans' = {p \in plans : p.src_rse_id # src}
    /\ UNCHANGED history

\* delete_injection_plan(src, dest): DELETE ... WHERE dest_rse_id = dest
\* AND src_rse_id = src, which removes every row of the pair.
delete_injection_plan(src, dest) ==
    /\ plans' = {p \in plans : ~(p.src_rse_id = src /\ p.dest_rse_id = dest)}
    /\ UNCHANGED history

\* Mutation: the UPDATE filtered on src_rse_id alone.
update_injection_plan_state_by_src(src, dest, new_state) ==
    /\ plans' = {IF p.src_rse_id = src THEN [p EXCEPT !.state = new_state] ELSE p
                 : p \in plans}
    /\ UNCHANGED history

\* Mutation: the UPDATE with source and destination exchanged.
update_injection_plan_state_swapped(src, dest, new_state) ==
    /\ plans' = {IF p.src_rse_id = dest /\ p.dest_rse_id = src
                   THEN [p EXCEPT !.state = new_state]
                   ELSE p : p \in plans}
    /\ UNCHANGED history

\* update_injection_plan_state(src, dest, new_state): UPDATE ... SET
\* state = new_state over every row of the pair, whatever its current
\* state; no row matching is not an error.
update_injection_plan_state(src, dest, new_state) ==
    /\ plans' = {IF p.src_rse_id = src /\ p.dest_rse_id = dest
                   THEN [p EXCEPT !.state = new_state]
                   ELSE p : p \in plans}
    /\ UNCHANGED history

=============================================================================
