------------------------ MODULE LoadInjectionGateway ------------------------
(***************************************************************************)
(* Submission of load injection plans: LoadInjectionClient builds the      *)
(* request, the REST view BulkPlans.post passes it to the gateway          *)
(* add_load_injection_plans and maps its exception to a status code.       *)
(*                                                                         *)
(* Each submitter is one REST worker serving one request at a time.  The   *)
(* gateway touches the shared tables twice: get_injection_plans() reads    *)
(* the live plans (line 71) and add_injection_plans() inserts the new ones *)
(* (line 87), each in a transaction of its own.  Everything between them   *)
(* is local, so a request is two steps: Submit (lines 47-85, ending in a   *)
(* reply or in the rows to insert) and Insert (line 87).                   *)
(***************************************************************************)
EXTENDS LoadInjectionCore

CONSTANTS
    Submitters,        \* concurrent REST workers
    RSENames,          \* RSE names a request may carry
    VOs,               \* virtual organisations of the issuers
    DefaultVO,         \* the vo get_rse_id uses when none is passed
    RseIdOf(_, _),     \* get_rse_id(name, vo): the RSE id of a name in a vo
    MaxBatch,          \* longest plan list in one bulk request
    DistinctPairBatches \* TRUE: bulk requests name each RSE pair at most once

\* What get_rse_id stands for when it raises RSENotFound: the name is not
\* an RSE of that vo.
NoRSE == "unknown"

ASSUME /\ DefaultVO \in VOs
       /\ \A v \in VOs, n \in RSENames : RseIdOf(v, n) \in RSEIds \cup {NoRSE}
       /\ MaxBatch \in Nat \ {0}
       /\ DistinctPairBatches \in BOOLEAN

VARIABLES
    gw,        \* gw[s]: the request worker s is serving
    nextId     \* the next plan id generate_uuid hands out

gwVars == <<gw, nextId>>

(***************************************************************************)
(* Requests.                                                               *)
(***************************************************************************)

\* LoadInjectionClient.add_load_injection_plan builds its one plan with the
\* key "dst_rse" for the destination.
SingleItems == {[src_rse |-> a, dst_rse |-> b] : a, b \in RSENames}

\* A plan of a bulk list, with the keys of the REST schema.
BulkItems == {[src_rse |-> a, dest_rse |-> b] : a, b \in RSENames}

PairOfItem(it) == <<it.src_rse, it.dest_rse>>

BulkBatches ==
    {b \in UNION {[1..n -> BulkItems] : n \in 1..MaxBatch} :
        DistinctPairBatches =>
            \A i, j \in DOMAIN b : i # j => PairOfItem(b[i]) # PairOfItem(b[j])}

Requests ==
    {[origin |-> "single", vo |-> v, items |-> <<it>>] : v \in VOs, it \in SingleItems}
    \cup {[origin |-> "bulk", vo |-> v, items |-> b] : v \in VOs, b \in BulkBatches}

Responses == {"none", "201", "401", "406", "409"}

GwState ==
    [pc: {"idle", "insert"}, origin: {"none", "single", "bulk"},
     rows: SUBSET PlanRow, refused: SUBSET (RSEIds \X RSEIds), resp: Responses]

GwTypeOK ==
    /\ gw \in [Submitters -> GwState]
    /\ nextId \in 1..(MaxPlans + 1)

GwInit ==
    /\ gw = [s \in Submitters |->
                [pc |-> "idle", origin |-> "none", rows |-> {}, refused |-> {},
                 resp |-> "none"]]
    /\ nextId = 1

(***************************************************************************)
(* add_load_injection_plans, lines 47-85.                                  *)
(***************************************************************************)

\* Names resolved by get_rse_id in vo v: it raises RSENotFound otherwise.
Resolves(v, it) ==
    {RseIdOf(v, it.src_rse), RseIdOf(v, it.dest_rse)} \subseteq RSEIds

\* Lines 47-49: every plan is built unless plan["dest_rse"] raises KeyError
\* or get_rse_id(name, vo=vo) raises RSENotFound.
PlansBuilt(req) ==
    \A i \in DOMAIN req.items :
        /\ "dest_rse" \in DOMAIN req.items[i]
        /\ Resolves(req.vo, req.items[i])

\* Mutation: plan ids numbered from nextId + 1 (off by one).
NewRowsIdOffByOne(req) ==
    {[plan_id |-> nextId + i, src_rse_id |-> RseIdOf(req.vo, req.items[i].src_rse),
      dest_rse_id |-> RseIdOf(req.vo, req.items[i].dest_rse), state |-> "waiting"]
     : i \in DOMAIN req.items}

\* Lines 47-55: names resolved in the issuer's vo, state WAITING, a fresh id.
NewRows(req) ==
    {[plan_id     |-> nextId + i - 1,
      src_rse_id  |-> RseIdOf(req.vo, req.items[i].src_rse),
      dest_rse_id |-> RseIdOf(req.vo, req.items[i].dest_rse),
      state       |-> "waiting"] : i \in DOMAIN req.items}

\* Mutation: the duplicate check compares the pair in the wrong order.
ConflictsSwapped(it, present) ==
    \E p \in present :
        /\ p.src_rse_id  = RseIdOf(DefaultVO, it.dest_rse)
        /\ p.dest_rse_id = RseIdOf(DefaultVO, it.src_rse)

\* Lines 76-80: a new plan matches a live plan read by get_injection_plans(),
\* its names resolved by get_rse_id without vo, i.e. in the default vo.
Conflicts(it, present) ==
    \E p \in present :
        /\ p.src_rse_id  = RseIdOf(DefaultVO, it.src_rse)
        /\ p.dest_rse_id = RseIdOf(DefaultVO, it.dest_rse)

\* Lines 72-85: the loop stops at the first plan whose names the default vo
\* does not know (RSENotFound, lines 74-75) or that matches a live plan
\* (DuplicateLoadInjectionPlan, lines 81-85); "none" when it runs through.
LoopVerdict(req, present) ==
    LET stops == {i \in DOMAIN req.items :
                    ~Resolves(DefaultVO, req.items[i]) \/ Conflicts(req.items[i], present)}
        first == CHOOSE i \in stops : \A j \in stops : i <= j
    IN  CASE stops = {}                              -> "none"
          [] ~Resolves(DefaultVO, req.items[first]) -> "406"
          [] OTHER                                  -> "409"

\* The worker answers: BulkPlans.post maps the exception to a status code.
\* held: the pairs of the rows lines 47-55 built, kept with a reply of the
\* loop of lines 72-85.
Reply(s, req, code, held) ==
    /\ gw' = [gw EXCEPT ![s] =
                [pc |-> "idle", origin |-> req.origin, rows |-> {}, refused |-> held,
                 resp |-> code]]
    /\ UNCHANGED nextId

\* Lines 47-85 of the gateway inside BulkPlans.post: KeyError or RSENotFound
\* (406) comes first, then the permission check (401), then the loop.
\* has_permission's answer is an input.  An accepted request holds its rows.
Submit(s) ==
    /\ gw[s].pc = "idle"
    /\ \E req \in Requests, allowed \in BOOLEAN :
        CASE ~PlansBuilt(req) -> Reply(s, req, "406", {})
          [] ~allowed         -> Reply(s, req, "401", {})
          [] LoopVerdict(req, get_injection_plans(NoPlan)) # "none" ->
               Reply(s, req, LoopVerdict(req, get_injection_plans(NoPlan)),
                     {<<r.src_rse_id, r.dest_rse_id>> : r \in NewRows(req)})
          [] OTHER ->
               /\ nextId + Len(req.items) - 1 <= MaxPlans
               /\ gw' = [gw EXCEPT ![s] =
                           [pc |-> "insert", origin |-> req.origin,
                            rows |-> NewRows(req), refused |-> {}, resp |-> "none"]]
               /\ nextId' = nextId + Len(req.items)
    /\ UNCHANGED coreVars

\* Line 87: add_injection_plans commits the rows; the view answers 201.
Insert(s) ==
    /\ gw[s].pc = "insert"
    /\ add_injection_plans(gw[s].rows)
    /\ gw' = [gw EXCEPT ![s] = [@ EXCEPT !.pc = "idle", !.rows = {}, !.resp = "201"]]
    /\ UNCHANGED nextId

GwNext == \E s \in Submitters : Submit(s) \/ Insert(s)

\* Ids handed out to accepted requests whose rows are not yet inserted.
PendingIds ==
    {r.plan_id : r \in UNION {gw[s].rows : s \in {x \in Submitters : gw[x].pc = "insert"}}}

=============================================================================
