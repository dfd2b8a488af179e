---------------------------- MODULE OrderLifecycle ----------------------------
(***************************************************************************)
(* The life of an order from an ALLOW decision to its last row.            *)
(*                                                                         *)
(* Two asyncio tasks of one process share the append-only tables `orders`  *)
(* and `fills` and talk to the exchange:                                   *)
(*   - the poll task runs ExecutionEngine.on_decision_allow: place_orders, *)
(*     then one row of `orders` (services/execution_engine.py);            *)
(*   - the reconcile task runs Reconciler.reconcile_open_orders: read the  *)
(*     open orders, list them at the exchange, write for each what changed *)
(*     (services/reconciler.py).                                           *)
(* Every await is a step boundary, so the exchange, the other task, a stop *)
(* or a failure may come in between.  Each insert commits on its own.      *)
(***************************************************************************)
EXTENDS Integers, Sequences, FiniteSetsExt

CONSTANTS
    Decision,        \* ALLOW decisions; the id's hex is the customer_order_ref
    MaxStake,        \* bound on a stake, in stake units
    Modes,           \* execution modes the process is started in
    ExchangeClosing, \* statuses in which an exchange order can end
    ImmediateMatch,  \* an order may be matched in part when it is accepted
    ForgetsSettled,  \* list_current_orders drops an order that ended
    Faults,          \* kinds of failure that may happen
    MaxFaults,       \* bound on the number of failures
    MaxRetries       \* bound on manual repeats of on_decision_allow

ParsedClosing == {"EXECUTION_COMPLETE", "CANCELLED", "LAPSED", "EXPIRED"}
OrderStatus == {"PENDING", "EXECUTABLE", "ERROR"} \cup ParsedClosing
ExecutionMode == {"dry_run", "paper"}
FaultKind == {"restart", "unreachable", "lost_reply", "placement_db_error",
              "listing_error", "reconcile_db_error"}

ASSUME ConstantsAssumption ==
    /\ MaxStake \in Nat /\ MaxFaults \in Nat /\ MaxRetries \in Nat
    /\ Modes # {} /\ Modes \subseteq ExecutionMode
    /\ "EXECUTION_COMPLETE" \in ExchangeClosing
    /\ ExchangeClosing \cap {"NONE", "PENDING", "EXECUTABLE", "ERROR"} = {}
    /\ ImmediateMatch \in BOOLEAN /\ ForgetsSettled \in BOOLEAN
    /\ Faults \subseteq FaultKind

VARIABLES
    mode,      \* execution mode of the running process
    call,      \* the on_decision_allow call in flight
    handed,    \* decisions already given to on_decision_allow
    exchange,  \* the exchange's orders, by customer_order_ref
    orders,    \* table `orders`: the rows of each decision in event_ts order
    fills,     \* table `fills`: the rows of each decision in fill_ts order
    rec,       \* the reconcile_open_orders round in flight
    faults,    \* failures so far
    retries    \* manual repeats so far

vars == <<mode, call, handed, exchange, orders, fills, rec, faults, retries>>
callVars == <<call, handed, retries>>

-------------------------------------------------------------------------------
(* Rows, orders and the two tasks' local state *)

Row == [type : {"PLACED", "LIFECYCLE", "ERROR"}, status : OrderStatus,
        matched : 0 .. MaxStake, mode : ExecutionMode]
NoRow == [type |-> "NONE", status |-> "NONE", matched |-> 0, mode |-> "paper"]

Fill == [delta : 1 .. MaxStake, cumulative : 1 .. MaxStake]

ExchangeOrder == [status : {"NONE", "EXECUTABLE"} \cup ExchangeClosing,
                  matched : 0 .. MaxStake, size : 0 .. MaxStake, listed : BOOLEAN]
NotPlaced == [status |-> "NONE", matched |-> 0, size |-> 0, listed |-> FALSE]

\* What an answer of the exchange shows of an order.
View == [status : {"NONE", "EXECUTABLE"} \cup ExchangeClosing, matched : 0 .. MaxStake]
NotListed == [status |-> "NONE", matched |-> 0]
ViewOf(x) == [status |-> x.status, matched |-> x.matched]

Idle == [pc |-> "idle"]
Call == {Idle} \cup [pc : {"placing"}, ref : Decision, size : 1 .. MaxStake]
               \cup [pc : {"replying"}, ref : Decision, success : BOOLEAN, view : View]
               \cup [pc : {"recording"}, ref : Decision, row : Row]

NoRound == [pc |-> "idle", todo |-> {}, half |-> {},
            prev |-> [d \in Decision |-> NoRow],
            cur |-> [d \in Decision |-> NotListed]]
Round == [pc : {"idle", "listing", "applying"}, todo : SUBSET Decision,
          half : SUBSET Decision,   \* orders with a new fill but not yet its row
          prev : [Decision -> Row \cup {NoRow}],
          cur : [Decision -> View]]

TypeOK ==
    /\ mode \in Modes
    /\ call \in Call
    /\ handed \subseteq Decision
    /\ exchange \in [Decision -> ExchangeOrder]
    /\ orders \in [Decision -> Seq(Row)]
    /\ fills \in [Decision -> Seq(Fill)]
    /\ rec \in Round
    /\ faults \in 0 .. MaxFaults
    /\ retries \in 0 .. MaxRetries

\* Failure `kind` happens now.
Fails(kind) == kind \in Faults /\ faults < MaxFaults /\ faults' = faults + 1

\* The last row written for d in mode m: DISTINCT ON ... ORDER BY event_ts DESC
\* over the rows of that mode only.
InMode(rows, m) == {i \in DOMAIN rows : rows[i].mode = m}
LastIn(rows, m) ==
    IF InMode(rows, m) = {} THEN NoRow
    ELSE rows[CHOOSE i \in InMode(rows, m) : \A j \in InMode(rows, m) : j <= i]
Latest(d, m) == LastIn(orders[d], m)

IsOpenOrErrored(row) == row.status \in {"PENDING", "EXECUTABLE", "ERROR"}  \* mutant
IsOpen(row) == row.status \in {"PENDING", "EXECUTABLE"}
OpenOrders(m) == {d \in Decision : IsOpen(Latest(d, m))}

Init ==
    /\ mode \in Modes
    /\ call = Idle
    /\ handed = {}
    /\ exchange = [d \in Decision |-> NotPlaced]
    /\ orders = [d \in Decision |-> <<>>]
    /\ fills = [d \in Decision |-> <<>>]
    /\ rec = NoRound
    /\ faults = 0
    /\ retries = 0

-------------------------------------------------------------------------------
(* ExecutionEngine.on_decision_allow *)

DryRunRow == [type |-> "PLACED", status |-> "PENDING", matched |-> 0, mode |-> "dry_run"]
ErrorRow == [type |-> "ERROR", status |-> "ERROR", matched |-> 0, mode |-> "paper"]

\* The row built from the exchange's report.
ReportedStatusUnchecked(success, view) ==                             \* mutant
    IF view.status = "NONE" THEN "EXECUTABLE" ELSE view.status
ReportedStatus(success, view) == IF success THEN view.status ELSE "ERROR"
PlacedRow(success, view) ==
    [type |-> "PLACED", status |-> ReportedStatus(success, view),
     matched |-> view.matched, mode |-> "paper"]

\* No quote, or a stake below the minimum: return without an order.  Else a dry
\* run builds its row at once and paper mode sends place_orders.
StartCall(d) ==
    /\ call = Idle
    /\ \/ call' = Idle
       \/ mode = "dry_run" /\ call' = [pc |-> "recording", ref |-> d, row |-> DryRunRow]
       \/ mode = "paper" /\ \E s \in 1 .. MaxStake :
             call' = [pc |-> "placing", ref |-> d, size |-> s]

OnDecisionAllow(d) ==
    /\ d \notin handed
    /\ StartCall(d)
    /\ handed' = handed \cup {d}
    /\ UNCHANGED <<mode, exchange, orders, fills, rec, faults, retries>>

\* An operator repeats the call for a decision already handled.
RetryDecision(d) ==
    /\ d \in handed
    /\ retries < MaxRetries
    /\ StartCall(d)
    /\ retries' = retries + 1
    /\ UNCHANGED <<mode, handed, exchange, orders, fills, rec, faults>>

\* The exchange takes the order: a new customer_order_ref only.
AcceptOrder ==
    /\ call.pc = "placing"
    /\ exchange[call.ref] = NotPlaced
    /\ \E m \in IF ImmediateMatch THEN 0 .. call.size ELSE {0} :
          LET x == [status |-> IF m = call.size THEN "EXECUTION_COMPLETE" ELSE "EXECUTABLE",
                    matched |-> m, size |-> call.size, listed |-> TRUE]
          IN  /\ exchange' = [exchange EXCEPT ![call.ref] = x]
              /\ call' = [pc |-> "replying", ref |-> call.ref, success |-> TRUE,
                          view |-> ViewOf(x)]
    /\ UNCHANGED <<mode, handed, orders, fills, rec, faults, retries>>

\* The exchange refuses: always for a known customer_order_ref, at will otherwise.
RefuseOrder ==
    /\ call.pc = "placing"
    /\ call' = [pc |-> "replying", ref |-> call.ref, success |-> FALSE, view |-> NotListed]
    /\ UNCHANGED <<mode, handed, exchange, orders, fills, rec, faults, retries>>

ReceiveReport ==
    /\ call.pc = "replying"
    /\ call' = [pc |-> "recording", ref |-> call.ref,
                row |-> PlacedRow(call.success, call.view)]
    /\ UNCHANGED <<mode, handed, exchange, orders, fills, rec, faults, retries>>

\* place_orders raises and the handler builds an ERROR row: the request never
\* arrived, or the exchange took or refused the order and its reply got lost, or
\* the reply has a status that OrderStatus does not know.
PlaceOrdersRaises ==
    /\ \/ call.pc = "placing" /\ Fails("unreachable")
       \/ call.pc = "replying" /\ Fails("lost_reply")
    /\ call' = [pc |-> "recording", ref |-> call.ref, row |-> ErrorRow]
    /\ UNCHANGED <<mode, handed, exchange, orders, fills, rec, retries>>

RecordPlacement ==
    /\ call.pc = "recording"
    /\ orders' = [orders EXCEPT ![call.ref] = Append(@, call.row)]
    /\ call' = Idle
    /\ UNCHANGED <<mode, handed, exchange, fills, rec, faults, retries>>

\* insert_order_event raises: the call ends without a row.
RecordPlacementFails ==
    /\ call.pc = "recording"
    /\ Fails("placement_db_error")
    /\ call' = Idle
    /\ UNCHANGED <<mode, handed, exchange, orders, fills, rec, retries>>

-------------------------------------------------------------------------------
(* Reconciler.reconcile_open_orders *)

\* A dry run counts the open orders and stops, as does a round without any.
FetchOpenOrders ==
    /\ rec.pc = "idle"
    /\ mode = "paper"
    /\ OpenOrders(mode) # {}
    /\ rec' = [NoRound EXCEPT
                 !.pc = "listing", !.todo = OpenOrders(mode),
                 !.prev = [d \in Decision |->
                             IF d \in OpenOrders(mode) THEN Latest(d, mode) ELSE NoRow]]
    /\ UNCHANGED <<mode, call, handed, exchange, orders, fills, faults, retries>>

ListCurrentOrders ==
    /\ rec.pc = "listing"
    /\ rec' = [rec EXCEPT
                 !.pc = "applying",
                 !.cur = [d \in Decision |->
                            IF d \in rec.todo /\ exchange[d].listed
                            THEN ViewOf(exchange[d]) ELSE NotListed]]
    /\ UNCHANGED <<mode, call, handed, exchange, orders, fills, faults, retries>>

MatchedDeltaFromZero(r) == rec.cur[r].matched                          \* mutant
MatchedDelta(r) == rec.cur[r].matched - rec.prev[r].matched
Listed(r) == rec.cur[r].status # "NONE"
ParsedUnchecked(r) == TRUE                                             \* mutant
Parsed(r) == rec.cur[r].status \in OrderStatus
StatusChangedIgnored(r) == FALSE                                       \* mutant
StatusChanged(r) == rec.cur[r].status # rec.prev[r].status
Current(r) == rec.pc = "applying" /\ r \in rec.todo /\ rec.half \subseteq {r}

\* The order is not in the listing, or nothing changed: on to the next one.
PassOver(r) ==
    /\ Current(r)
    /\ Listed(r) => Parsed(r) /\ MatchedDelta(r) <= 0 /\ ~StatusChanged(r)
    /\ rec' = [rec EXCEPT !.todo = @ \ {r}]
    /\ UNCHANGED <<mode, call, handed, exchange, orders, fills, faults, retries>>

\* The fill of this round is in the table, so its row may follow.
FillDoneUnchecked(r) == TRUE                                           \* mutant
FillDone(r) == r \in rec.half

InsertFill(r) ==
    /\ Current(r)
    /\ Listed(r) /\ Parsed(r)
    /\ MatchedDelta(r) > 0
    /\ r \notin rec.half
    /\ fills' = [fills EXCEPT ![r] =
                   Append(@, [delta |-> MatchedDelta(r), cumulative |-> rec.cur[r].matched])]
    /\ rec' = [rec EXCEPT !.half = {r}]
    /\ UNCHANGED <<mode, call, handed, exchange, orders, faults, retries>>

LifecycleRowOfDelta(r) ==                                              \* mutant
    [type |-> "LIFECYCLE", status |-> rec.cur[r].status,
     matched |-> MatchedDelta(r), mode |-> rec.prev[r].mode]
LifecycleRow(r) ==
    [type |-> "LIFECYCLE", status |-> rec.cur[r].status,
     matched |-> rec.cur[r].matched, mode |-> rec.prev[r].mode]

InsertLifecycleRow(r) ==
    /\ Current(r)
    /\ Listed(r) /\ Parsed(r)
    /\ IF MatchedDelta(r) > 0 THEN FillDone(r) ELSE StatusChanged(r)
    /\ orders' = [orders EXCEPT ![r] = Append(@, LifecycleRow(r))]
    /\ rec' = [rec EXCEPT !.todo = @ \ {r}, !.half = {}]
    /\ UNCHANGED <<mode, call, handed, exchange, fills, faults, retries>>

FinishRound ==
    /\ rec.pc = "applying"
    /\ rec.todo = {}
    /\ rec' = NoRound
    /\ UNCHANGED <<mode, call, handed, exchange, orders, fills, faults, retries>>

\* The scheduler's loop outlives an exception of a round and tries again later.
AfterRaiseStopped == [NoRound EXCEPT !.pc = "stopped"]                 \* mutant
AfterRaise == NoRound

\* An exception ends the round: a failing list_current_orders, a status that
\* OrderStatus does not know, a failing insert.  Rows already inserted stay.
RoundRaises ==
    /\ \/ rec.pc = "listing" /\ Fails("listing_error")
       \/ /\ \E r \in rec.todo : Current(r) /\ Listed(r) /\ ~Parsed(r)
          /\ UNCHANGED faults
       \/ /\ \E r \in rec.todo : Current(r) /\ Listed(r) /\ Parsed(r)
                                 /\ (MatchedDelta(r) > 0 \/ StatusChanged(r))
          /\ Fails("reconcile_db_error")
    /\ rec' = AfterRaise
    /\ UNCHANGED <<mode, call, handed, exchange, orders, fills, retries>>

-------------------------------------------------------------------------------
(* The exchange on its own, and the process stopping *)

MatchOrder(d) ==
    /\ exchange[d].status = "EXECUTABLE"
    /\ \E m \in exchange[d].matched + 1 .. exchange[d].size :
          exchange' = [exchange EXCEPT ![d] =
                         [exchange[d] EXCEPT !.matched = m,
                                   !.status = IF m = exchange[d].size
                                              THEN "EXECUTION_COMPLETE" ELSE "EXECUTABLE"]]
    /\ UNCHANGED <<mode, call, handed, orders, fills, rec, faults, retries>>

CloseOrder(d) ==
    /\ exchange[d].status = "EXECUTABLE"
    /\ \E s \in ExchangeClosing \ {"EXECUTION_COMPLETE"} :
          exchange' = [exchange EXCEPT ![d] = [@ EXCEPT !.status = s]]
    /\ UNCHANGED <<mode, call, handed, orders, fills, rec, faults, retries>>

ForgetOrder(d) ==
    /\ ForgetsSettled
    /\ exchange[d].status \in ExchangeClosing
    /\ exchange[d].listed
    /\ exchange' = [exchange EXCEPT ![d] = [@ EXCEPT !.listed = FALSE]]
    /\ UNCHANGED <<mode, call, handed, orders, fills, rec, faults, retries>>

\* A crash, or a shutdown: scheduler_task.cancel() raises CancelledError at the
\* await each task is at, which no handler of the two tasks catches.  The next
\* process may be configured for another mode and keeps nothing but the tables.
Restart ==
    /\ Fails("restart")
    /\ mode' \in Modes
    /\ call' = Idle
    /\ rec' = NoRound
    /\ UNCHANGED <<handed, exchange, orders, fills, retries>>

-------------------------------------------------------------------------------
CallStep == AcceptOrder \/ RefuseOrder \/ ReceiveReport \/ PlaceOrdersRaises
            \/ RecordPlacement
ReconcileStep ==
    \/ FetchOpenOrders \/ ListCurrentOrders \/ FinishRound \/ RoundRaises
    \/ \E r \in Decision : PassOver(r) \/ InsertFill(r) \/ InsertLifecycleRow(r)
ExchangeStep ==
    \E d \in Decision : MatchOrder(d) \/ CloseOrder(d) \/ ForgetOrder(d)

Next ==
    \/ \E d \in Decision : OnDecisionAllow(d) \/ RetryDecision(d)
    \/ CallStep \/ RecordPlacementFails
    \/ ReconcileStep
    \/ ExchangeStep
    \/ Restart

Spec == Init /\ [][Next]_vars

\* The event loop keeps running both tasks: a call in flight ends, and the
\* reconcile loop, which survives every exception, starts rounds for ever.
\* Nothing makes the exchange match or close an order, or an operator act.
FairSpec == Spec /\ WF_vars(CallStep) /\ WF_vars(ReconcileStep)

-------------------------------------------------------------------------------
(* Properties *)

\* What the last row of `orders` says of d, whatever its mode.
Book(d) == IF orders[d] = <<>> THEN NotListed ELSE ViewOf(orders[d][Len(orders[d])])

\* The rows of `orders` never say more than the exchange knows: a row's matched
\* size was reached at the exchange, an EXECUTABLE row has an order there, and a
\* row that closes the order has the exchange's final status and matched size.
RowTruthful(row, x) ==
    /\ row.matched <= x.matched
    /\ row.status = "EXECUTABLE" => x.status # "NONE"
    /\ row.status \in ParsedClosing =>
          row.status = x.status /\ row.matched = x.matched
RowsTruthful ==
    \A d \in Decision : \A i \in DOMAIN orders[d] : RowTruthful(orders[d][i], exchange[d])

\* A row of `fills` covers an interval of the matched size that starts at a size
\* some row of `orders` recorded and ends at a size the exchange reached.
Before(fill) == fill.cumulative - fill.delta
FillsTruthful ==
    \A d \in Decision : \A k \in DOMAIN fills[d] :
        /\ fills[d][k].cumulative <= exchange[d].matched
        /\ \E i \in DOMAIN orders[d] : orders[d][i].matched = Before(fills[d][k])

\* Whenever a reconciled row raises the matched size above every earlier row
\* there is a fill for exactly that rise, also when rounds were cut short or an
\* operator's repeat wrote a row in between: the fill is inserted first, so a
\* cut can repeat it but never lose it.
RisesHaveFills ==
    \A d \in Decision : \A i \in 2 .. Len(orders[d]) :
        LET row == orders[d][i]
            top == Max({orders[d][j].matched : j \in 1 .. i - 1})
        IN  row.type = "LIFECYCLE" /\ row.matched > top =>
                \E k \in DOMAIN fills[d] :
                    fills[d][k] = [delta |-> row.matched - top, cumulative |-> row.matched]

\* After a cut round a fill is repeated from the same start and reaches at least
\* as far; fills never overlap in another way, so the fills with the largest
\* cumulative size for each start add up to what was matched after placement.
FillsRepeatFromTheSameStart ==
    \A d \in Decision : \A j \in DOMAIN fills[d] : \A k \in 1 .. j - 1 :
        \/ Before(fills[d][j]) >= fills[d][k].cumulative
        \/ /\ Before(fills[d][j]) = Before(fills[d][k])
           /\ fills[d][j].cumulative >= fills[d][k].cumulative

\* However often a placement is repeated, the exchange takes one order for a
\* decision and at most one row says so: every repeat is refused.
PlacementIsIdempotent ==
    \A d \in Decision : \A i, j \in DOMAIN orders[d] :
        orders[d][i].type = "PLACED" /\ orders[d][i].status # "ERROR"
        /\ orders[d][j].type = "PLACED" /\ orders[d][j].status # "ERROR"
        /\ orders[d][i].mode = "paper" /\ orders[d][j].mode = "paper" => i = j

\* As long as nothing failed or was repeated, the fills of an order lead, without a
\* gap or an overlap, from the matched size of its first row to that of its last,
\* whenever no fill is waiting for its row: they add up to the difference.
FillsAddUp ==
    \A d \in Decision : faults = 0 /\ retries = 0 /\ orders[d] # <<>> =>
        LET reached(k) == IF k = 0 THEN orders[d][1].matched ELSE fills[d][k].cumulative
        IN  /\ \A k \in DOMAIN fills[d] : Before(fills[d][k]) = reached(k - 1)
            /\ d \notin rec.half => Book(d).matched = reached(Len(fills[d]))

\* The tables implement the abstract book: it follows the exchange from behind
\* and is never reopened or rewritten once closed.
Audit == INSTANCE OrderAudit WITH
            market <- [d \in Decision |-> ViewOf(exchange[d])],
            book <- [d \in Decision |-> Book(d)]
BookFollowsMarket == Audit!Spec

\* A status that OrderStatus does not know, of whatever order, ends every round
\* for as long as it is listed.
UnknownIsListed ==
    \E d \in OpenOrders("paper") : exchange[d].listed /\ exchange[d].status \notin OrderStatus

\* Every order that ends at the exchange ends in the table too, with the same
\* status and matched size, unless something fails, the order leaves the listing
\* before a round sees it, or an unknown status keeps the rounds from it.
EveryOrderCloses ==
    \A d \in Decision :
        exchange[d].status \in ExchangeClosing
            ~> \/ Book(d) = ViewOf(exchange[d])
               \/ faults > 0 \/ ~exchange[d].listed \/ UnknownIsListed

\* An order whose last row is open in paper mode is taken up by the rounds of a
\* process in that mode until the row agrees with the exchange: after a restart,
\* after a time in the other mode, after rounds cut short, and once an unknown
\* status is listed no more.  An order that left the listing is not found again.
OpenOrdersCatchUp ==
    \A d \in Decision :
        d \in OpenOrders("paper") /\ mode = "paper"
            ~> \/ ViewOf(Latest(d, "paper")) = ViewOf(exchange[d])
               \/ mode = "dry_run" \/ ~exchange[d].listed \/ UnknownIsListed

-------------------------------------------------------------------------------
(* What the documents claim and some step of the code refutes *)

\* Overview: all orders use a stable reference and reconciliation lifecycle.
\* Execution engine design: the reconciler takes up every open order after a
\* restart, and the customer_order_ref makes a manual retry safe.  So an order
\* that can still match is one the reconciler fetches, once its call has ended.
LiveOrderIsOpen ==
    \A d \in Decision :
        exchange[d].status = "EXECUTABLE" /\ (call = Idle \/ call.ref # d)
            => IsOpen(Latest(d, "paper"))
===============================================================================
