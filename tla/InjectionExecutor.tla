------------------------- MODULE InjectionExecutor -------------------------
(***************************************************************************)
(* The process that advances plans through their lifecycle and archives   *)
(* them.  No such process is in this repository: the spec (sections 4.3,  *)
(* 4.4 and 5) describes it as an external caller of the core functions.   *)
(* It is modelled from the spec, using only the core functions the code   *)
(* offers, each in its own transaction:                                    *)
(*   - a transition reads get_injection_plan_state, chooses a successor    *)
(*     from the spec's transition table, and writes it with                *)
(*     update_injection_plan_state;                                        *)
(*   - archival reads a plan in a terminal state with get_injection_plans, *)
(*     copies it with add_injection_plan_history, then removes it with     *)
(*     delete_injection_plan (archive first, as section 4.3 requires).     *)
(* An executor may crash between any two of its steps and start over;     *)
(* section 5 makes a timed-out call retryable by the caller.              *)
(***************************************************************************)
EXTENDS LoadInjectionCore, Bags, BagsExt

CONSTANTS
    Executors,    \* executor processes
    MaxCrashes,   \* bound on executor crashes in a behaviour
    NoRow         \* model value: no plan held

ASSUME MaxCrashes \in Nat

VARIABLES
    ex,           \* ex[e]: the step executor e is at and what it read
    crashes,      \* executor crashes so far
    archivedFrom  \* ghost: bag of the plan_ids history rows were copied from

exVars == <<ex, crashes, archivedFrom>>

\* The spec's transition table (section 4.3): waiting -> running,
\* running -> {completed, error}, any live state -> {expired, cancelled}.
Successors(st) ==
    CASE st = "waiting" -> {"running", "expired", "cancelled"}
      [] st = "running" -> {"completed", "error", "expired", "cancelled"}
      [] OTHER          -> {}

ExState ==
    [pc: {"idle", "decide", "archive", "delete"},
     src: RSEIds \cup {NoPlan}, dest: RSEIds \cup {NoPlan},
     seen: LiveStates \cup {NoPlan}, plan: PlanRow \cup {NoRow}]

ExIdle == [pc |-> "idle", src |-> NoPlan, dest |-> NoPlan, seen |-> NoPlan,
           plan |-> NoRow]

ExTypeOK ==
    /\ ex \in [Executors -> ExState]
    /\ crashes \in 0..MaxCrashes
    /\ IsABag(archivedFrom) /\ BagToSet(archivedFrom) \subseteq PlanIds

ExInit ==
    /\ ex = [e \in Executors |-> ExIdle]
    /\ crashes = 0
    /\ archivedFrom = EmptyBag

\* get_injection_plan_state(src, dest) finds a live plan to advance.
ReadState(e) ==
    /\ ex[e].pc = "idle"
    /\ \E src, dest \in RSEIds :
        LET st == get_injection_plan_state(src, dest) IN
        /\ st \in LiveStates
        /\ ex' = [ex EXCEPT ![e] = [ExIdle EXCEPT !.pc = "decide", !.src = src,
                                                  !.dest = dest, !.seen = st]]
    /\ UNCHANGED <<coreVars, crashes, archivedFrom>>

\* update_injection_plan_state with a successor of the state read.
Transition(e) ==
    /\ ex[e].pc = "decide"
    /\ \E new \in Successors(ex[e].seen) :
          update_injection_plan_state(ex[e].src, ex[e].dest, new)
    /\ ex' = [ex EXCEPT ![e] = ExIdle]
    /\ UNCHANGED <<crashes, archivedFrom>>

\* get_injection_plans(state) for a terminal state picks a plan to archive.
PickTerminal(e) ==
    /\ ex[e].pc = "idle"
    /\ \E t \in TerminalStates : \E p \in get_injection_plans(t) :
          ex' = [ex EXCEPT ![e] = [ExIdle EXCEPT !.pc = "archive", !.plan = p]]
    /\ UNCHANGED <<coreVars, crashes, archivedFrom>>

\* add_injection_plan_history with the columns of the plan read.
Archive(e) ==
    /\ ex[e].pc = "archive"
    /\ add_injection_plan_history(ex[e].plan)
    /\ archivedFrom' = BagAdd(archivedFrom, ex[e].plan.plan_id)
    /\ ex' = [ex EXCEPT ![e].pc = "delete"]
    /\ UNCHANGED crashes

\* delete_injection_plan(src, dest) of the archived plan.
Remove(e) ==
    /\ ex[e].pc = "delete"
    /\ delete_injection_plan(ex[e].plan.src_rse_id, ex[e].plan.dest_rse_id)
    /\ ex' = [ex EXCEPT ![e] = ExIdle]
    /\ UNCHANGED <<crashes, archivedFrom>>

\* The executor dies between two of its calls and restarts with nothing.
Crash(e) ==
    /\ ex[e].pc # "idle"
    /\ crashes < MaxCrashes
    /\ ex' = [ex EXCEPT ![e] = ExIdle]
    /\ crashes' = crashes + 1
    /\ UNCHANGED <<coreVars, archivedFrom>>

ExStep(e) ==
    \/ ReadState(e) \/ Transition(e)
    \/ PickTerminal(e) \/ Archive(e) \/ Remove(e)
    \/ Crash(e)

ExNext == \E e \in Executors : ExStep(e)

=============================================================================
