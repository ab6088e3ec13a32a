---------------------------- MODULE PlanRegistry ----------------------------
(***************************************************************************)
(* What the plan registry and the history archiver promise (spec sections *)
(* 3, 4.3 and 4.4), with no transactions, processes or retries:            *)
(*   - a batch of new plans enters in one step, all waiting, each with a   *)
(*     fresh identifier, for pairs that are distinct and have no live      *)
(*     plan (at most one live plan per ordered pair);                      *)
(*   - a live plan moves only along the lifecycle table;                   *)
(*   - a terminal plan leaves the registry in the same step its copy       *)
(*     enters history, so history holds each plan once.                    *)
(* Steps are stated as relations between the two states, the way a         *)
(* refinement property is checked against the detailed specification.     *)
(***************************************************************************)
EXTENDS FiniteSets, Bags, BagsExt

CONSTANTS RSEIds, PlanIds

VARIABLES
    live,      \* the live plans: records with plan_id, pair and state
    history,   \* bag of archived copies: pair and final state
    retired    \* identifiers of the plans archived so far

States == {"waiting", "running", "completed", "expired", "error", "cancelled"}

Live == {"waiting", "running"}

\* The lifecycle table of section 4.3.
Allowed(st) ==
    CASE st = "waiting" -> {"running", "expired", "cancelled"}
      [] st = "running" -> {"completed", "error", "expired", "cancelled"}
      [] OTHER          -> {}

Plan == [plan_id: PlanIds, src_rse_id: RSEIds, dest_rse_id: RSEIds, state: States]

Pair(p) == <<p.src_rse_id, p.dest_rse_id>>

Init ==
    /\ live = {}
    /\ history = EmptyBag
    /\ retired = {}

\* bulkSubmit: the plans added in this step are waiting, have identifiers
\* never used before and pairs that no other plan, live or new, has.
SubmitBatch ==
    /\ live \subseteq live'
    /\ LET new == live' \ live IN
         /\ new # {}
         /\ \A p \in new :
              /\ p \in Plan /\ p.state = "waiting"
              /\ p.plan_id \notin {q.plan_id : q \in live} \cup retired
              /\ \A q \in live' \ {p} : q.plan_id # p.plan_id /\ Pair(q) # Pair(p)
    /\ UNCHANGED <<history, retired>>

\* transition(src, dest, newState) along the table.
Transition(p, new) ==
    /\ p \in live
    /\ new \in Allowed(p.state)
    /\ live' = (live \ {p}) \cup {[p EXCEPT !.state = new]}
    /\ UNCHANGED <<history, retired>>

\* archive then remove, as one step: the plan's copy enters history.
Archive(p) ==
    /\ p \in live
    /\ p.state \notin Live
    /\ live' = live \ {p}
    /\ history' = BagAdd(history, [src_rse_id |-> p.src_rse_id,
                                   dest_rse_id |-> p.dest_rse_id, state |-> p.state])
    /\ retired' = retired \cup {p.plan_id}

Next ==
    \/ SubmitBatch
    \/ \E p \in live : \E new \in Allowed(p.state) : Transition(p, new)
    \/ \E p \in live : Archive(p)

Spec == Init /\ [][Next]_<<live, history, retired>>

=============================================================================
