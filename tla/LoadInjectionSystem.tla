------------------------- MODULE LoadInjectionSystem -------------------------
(***************************************************************************)
(* The plan registry as deployed: REST workers submitting plans through    *)
(* the gateway and executors advancing and archiving them, all sharing the *)
(* two plan tables of LoadInjectionCore.                                   *)
(***************************************************************************)
EXTENDS LoadInjectionGateway, InjectionExecutor

vars == <<plans, history, gw, nextId, ex, crashes, archivedFrom>>

Init == CoreInit /\ GwInit /\ ExInit

Next ==
    \/ GwNext /\ UNCHANGED exVars
    \/ ExNext /\ UNCHANGED gwVars

Spec == Init /\ [][Next]_vars

\* An executor is a scheduler that keeps running (section 5: "advances plan
\* state over time"), and a REST worker that has passed its checks goes on
\* to commit.  Submitters, the users, owe nothing.
Fairness ==
    /\ \A e \in Executors : WF_vars(ExStep(e) /\ UNCHANGED gwVars)
    /\ \A s \in Submitters : WF_vars(Insert(s) /\ UNCHANGED exVars)

FairSpec == Spec /\ Fairness

TypeOK == CoreTypeOK /\ GwTypeOK /\ ExTypeOK

LiveIds == {p.plan_id : p \in plans}

(***************************************************************************)
(* Properties.                                                             *)
(***************************************************************************)

\* Uniqueness (spec sections 3 and 8): at most one live plan per ordered
\* (src, dest) pair, whatever the submissions of add_load_injection_plans
\* and the removals of the executor.
AtMostOnePlanPerPair ==
    \A src, dest \in RSEIds : Cardinality(RowsOfPair(src, dest)) <= 1

\* History completeness (section 8): a plan that has left the live table
\* was copied into history first; delete_injection_plan removes no plan
\* that add_injection_plan_history has not copied.
NoSilentLoss ==
    \A id \in 1..(nextId - 1) :
        id \in LiveIds \cup PendingIds \cup BagToSet(archivedFrom)

\* Write-once history (section 4.4): no plan is copied into
\* load_injection_plans_history twice.
HistoryWriteOnce ==
    \A id \in BagToSet(archivedFrom) : CopiesIn(id, archivedFrom) = 1

\* Transition legality (sections 4.3 and 8): a step of
\* update_injection_plan_state moves a live plan only along an edge of the
\* transition table; no plan leaves a terminal state.
TransitionLegality ==
    [][\A p \in plans, q \in plans' :
         p.plan_id = q.plan_id => q.state \in {p.state} \cup Successors(p.state)
      ]_plans

\* A step in which REST worker s runs lines 47-85 and answers or holds rows.
SubmitStep(s) == gw[s].pc = "idle" /\ gw'[s] # gw[s]

\* A plan in the table has the pair <<src, dest>>.
PairTaken(pair) == RowsOfPair(pair[1], pair[2]) # {}

\* Section 4.3, submit: the verdict on a request depends on the plans it
\* builds with the RSE ids of the issuer's vo.  The loop of lines 72-85
\* refuses it (409) only when one of them has the pair of a plan in the
\* table, lets it through only when none has, and a request whose plans
\* were all built (every name known in the issuer's vo, lines 47-55) is
\* never answered 406.
SubmitVerdictExact ==
    [][\A s \in Submitters :
         SubmitStep(s) =>
            /\ gw'[s].resp = "409" => \E pr \in gw'[s].refused : PairTaken(pr)
            /\ gw'[s].resp = "406" => gw'[s].refused = {}
            /\ gw'[s].pc = "insert" =>
                  \A r \in gw'[s].rows : ~PairTaken(<<r.src_rse_id, r.dest_rse_id>>)]_vars

\* The plan LoadInjectionClient.add_load_injection_plan sends is one the
\* REST view accepts as well formed: it is never answered 406.
ClientRequestWellFormed ==
    \A s \in Submitters : gw[s].origin = "single" => gw[s].resp # "406"

\* Every plan a REST worker has accepted is eventually archived and gone
\* from the live table: it is inserted, the executor drives it through
\* get_injection_plan_state / update_injection_plan_state to a terminal
\* state (expiry makes every plan end), and copies and deletes it.
EveryPlanArchived ==
    \A id \in PlanIds :
        id \in PendingIds \cup LiveIds
            ~> id \notin LiveIds /\ id \in BagToSet(archivedFrom)

(***************************************************************************)
(* Refinement: the registry as the code and one executor run it is the     *)
(* abstract PlanRegistry.  A plan is live for the abstraction until its    *)
(* copy is in history (the executor's later delete_injection_plan is a     *)
(* stuttering step), and the identifiers retired are those copied.        *)
(***************************************************************************)
Registry == INSTANCE PlanRegistry
    WITH live    <- {p \in plans : p.plan_id \notin BagToSet(archivedFrom)},
         history <- history,
         retired <- BagToSet(archivedFrom),
         PlanIds <- PlanIds

\* The gateway, the core functions and the executor together keep every
\* promise of sections 3, 4.3 and 4.4.
ImplementsPlanRegistry == Registry!Spec

=============================================================================
