---------------------------- MODULE PaperLedger -----------------------------
(***************************************************************************)
(* The orders of one paper account and the cash behind them, while the     *)
(* account's runtimes step through candles: manual runtimes, which an      *)
(* operator steps (services/paper_service.py), and replays, which a worker *)
(* steps (engine/orchestration/worker.py, _fenced_finalize_step; the       *)
(* claims and the order of the intervals are in OrchestrationWorker).      *)
(*                                                                         *)
(* A step is one transaction: fills of the runtime's open orders, expiry,  *)
(* the orders its mappings place, completion.  One that would violate a    *)
(* constraint of the account, or sell what the account does not have, is   *)
(* rolled back and leaves nothing behind, so it is no step here.  Stopping *)
(* a manual runtime and engaging the kill switch commit with every order   *)
(* they cancel: the sweep is a process of its own.                         *)
(***************************************************************************)
EXTENDS PaperAccounting, Sequences, SequencesExt

CONSTANTS
    Runtimes,      \* runtimes of the account
    Kinds,         \* Kinds: a set of [Runtimes -> {"manual", "replay"}]
    Funds,         \* initial balance
    Candles,       \* records open, high, low, close, volume, closing
    Mappings,      \* sequence of records id, effect, side, limit, quantity
    CooldownBars,  \* cooldown_bars of every mapping of a replay
    Scaling,       \* runtimes whose position_exists_behavior is SCALE
    MaxEntries,    \* max_entries_per_day
    MaxOpenOrders, \* max_open_orders of the risk policy
    MaxNotional,   \* max_notional_per_order_units
    NoSweep,       \* no request of that kind is being handled
    LastStep,      \* bound: candles a runtime steps through; a replay's end
    MaxOrders      \* bound: orders ever placed

ASSUME LedgerAssumption ==
    /\ Funds \in Nat
    /\ \A c \in Candles :
         /\ {c.open, c.high, c.low, c.close} \subseteq Nat \ {0}
         /\ c.volume \in Nat /\ c.closing \in BOOLEAN
    /\ {CooldownBars, MaxEntries, MaxOpenOrders, MaxNotional, LastStep, MaxOrders} \subseteq Nat
    /\ Kinds \subseteq [Runtimes -> {"manual", "replay"}]
    /\ Scaling \subseteq Runtimes
    /\ Mappings # << >>
    /\ Mappings \in Seq([id : {Mappings[i].id : i \in DOMAIN Mappings},
                         effect : {"ENTRY", "EXIT"}, side : {"BUY", "SELL"},
                         limit : Nat, quantity : Nat \ {0}])

VARIABLES
    kind,     \* kind[r]: "manual" or "replay"
    account,  \* PaperAccount and the position
    orders,   \* the account's orders, in the order of their acceptance
    status,   \* StrategyRuntime.status
    step,     \* candles the runtime has processed
    halted,   \* a kill switch is active
    sweep     \* what a request still cancels: sweep[q] for q in Requests

vars == <<kind, account, orders, status, step, halted, sweep>>

Live == {"ACCEPTED", "PARTIALLY_FILLED"}
IsLive(o) == o.status \in Live
LiveOrders(r) == {k \in DOMAIN orders : orders[k].runtime = r /\ IsLive(orders[k])}
AllLive == {k \in DOMAIN orders : IsLive(orders[k])}

(* Requests that cancel one order after the other: the stop of a runtime,  *)
(* and the kill switch.                                                    *)
Requests == Runtimes \cup {"kill switch"}

Init ==
    /\ kind \in Kinds
    /\ account = [total |-> Funds, reserved |-> 0, net |-> 0, avg |-> 0, pnl |-> 0]
    /\ orders = << >>
    /\ status = [r \in Runtimes |-> "READY"]
    /\ step = [r \in Runtimes |-> 0]
    /\ halted = FALSE
    /\ sweep = [q \in Requests |-> NoSweep]

-----------------------------------------------------------------------------
(* Parts of a step, over a book: the account, its orders, the volume left  *)
(* and whether every statement so far went through.                        *)

Book == [account |-> account, orders |-> orders, room |-> 0, sound |-> TRUE]

(* calculate_order_fills and _apply_fill, for one order. *)
FillOrder(b, k, candle) ==
    LET o == b.orders[k]
        p == FillPrice(o, candle)
        q == FillQuantity(o, b.room)
        a == FilledAccount(b.account, o, q, p)
    IN  IF p = 0 \/ q <= 0 THEN b
        ELSE [account |-> a,
              orders |-> [b.orders EXCEPT ![k] = FilledOrder(b.account, o, q, p)],
              room |-> b.room - q,
              sound |-> b.sound /\ Sound(a)]

(* The open orders of the runtime, by order_sequence_number. *)
FillAll(r, candle) ==
    LET F(b, k) == IF k \in LiveOrders(r) THEN FillOrder(b, k, candle) ELSE b
    IN  FoldLeft(F, [Book EXCEPT !.room = MaxAllocatable(candle)],
                 [k \in 1..Len(orders) |-> k])

(* An order of the book ends: it is cancelled or expires. *)
EndOrder(b, k, how) ==
    LET o == b.orders[k]
        a == EndedAccount(b.account, o, how)
    IN  [b EXCEPT !.account = a,
                  !.orders = [b.orders EXCEPT ![k] = EndedOrder(b.account, o, how)],
                  !.sound = b.sound /\ Sound(a)]

LiveIn(b, r) == {k \in DOMAIN b.orders : b.orders[k].runtime = r /\ IsLive(b.orders[k])}

ExpireAll(b, r) ==
    LET E(c, k) == IF k \in LiveIn(b, r) THEN EndOrder(c, k, "EXPIRED") ELSE c
    IN  FoldLeft(E, b, [k \in 1..Len(b.orders) |-> k])

(* The session closes for a manual runtime: every order is a DAY order.    *)
(* The releases of one step are written without a flush in between, so     *)
(* two of them get the same sequence number in the ledger and the step     *)
(* fails.                                                                  *)
CheckOrderExpirations(b, r, candle) ==
    IF ~candle.closing THEN b
    ELSE [ExpireAll(b, r) EXCEPT
            !.sound = /\ ExpireAll(b, r).sound
                      /\ \A j, k \in LiveIn(b, r) :
                           b.orders[j].side = "BUY" /\ b.orders[k].side = "BUY" => j = k]

(* PureRiskEngine: the checks that depend on the account.  "open" are the  *)
(* orders it is shown and "held" the position it is shown.                 *)
RiskOk(b, m, q, price, open, held) ==
    /\ q % LotSize = 0
    /\ q * price <= MaxNotional
    /\ open + 1 <= MaxOpenOrders
    /\ m.side = "BUY" => PolicyCost(q, price) <= b.account.total - b.account.reserved
    /\ m.side = "SELL" => held > 0 /\ q <= held

NewOrder(r, m, q, state, held) ==
    [runtime |-> r, kind |-> kind[r], mapping |-> m.id, effect |-> m.effect,
     side |-> m.side, limit |-> m.limit, quantity |-> q, filled |-> 0,
     status |-> state, held |-> held, placed |-> step[r] + 1]

(* An accepted order and the reservation of a BUY. *)
Accept(b, r, m, q, price) ==
    LET amount == IF m.side = "BUY" THEN Reserve(kind[r], q, price) ELSE 0
        a == [b.account EXCEPT !.reserved = b.account.reserved + amount]
    IN  [b EXCEPT !.account = a,
                  !.orders = Append(b.orders, NewOrder(r, m, q, "ACCEPTED", amount)),
                  !.sound = b.sound /\ Sound(a)]

OrderPrice(m, candle) == IF m.limit = 0 THEN candle.close ELSE m.limit
OpenIn(b) == {k \in DOMAIN b.orders : IsLive(b.orders[k])}
SumRemaining(b, S) == SumFunctionOnSet([k \in DOMAIN b.orders |-> Remaining(b.orders[k])], S)

(* Mutant of PendingSells: the sells that are open are not counted. *)
NoPendingSells(b) == 0

PendingSells(b) == SumRemaining(b, {k \in OpenIn(b) : b.orders[k].side = "SELL"})

(* plan_actions, for one mapping whose rule has the trigger's status.  A   *)
(* mapping that is refused leaves no order.  Only a policy that scales     *)
(* enters beside a position or an open BUY.                                *)
Plan(b, r, m, candle) ==
    LET mine == {k \in DOMAIN b.orders : b.orders[k].runtime = r}
        free == b.account.net - PendingSells(b)
        q == IF m.effect = "EXIT" THEN Smaller(m.quantity, free) ELSE m.quantity
        price == OrderPrice(m, candle)
        cooling == \E k \in mine : /\ b.orders[k].mapping = m.id
                                   /\ step[r] + 1 <= b.orders[k].placed + CooldownBars
        refused == IF m.effect = "EXIT" THEN free <= 0
                   ELSE \/ /\ r \notin Scaling
                           /\ \/ b.account.net # 0
                              \/ \E k \in OpenIn(b) : b.orders[k].side = "BUY"
                        \/ Cardinality({k \in mine : b.orders[k].effect = "ENTRY"}) >= MaxEntries
    IN  IF cooling \/ refused \/ ~RiskOk(b, m, q, price, Cardinality(OpenIn(b)), free)
        THEN b
        ELSE Accept(b, r, m, q, price)

(* The mappings in the order of their ids, the approved ones counting for  *)
(* the next.                                                               *)
PlanActions(b, r, triggered, candle) ==
    LET P(c, m) == IF m.id \in triggered THEN Plan(c, r, m, candle) ELSE c
    IN  FoldLeft(P, b, Mappings)

(* _process_action_trigger of a manual runtime, for its entry mapping.     *)
(* The risk engine is shown the position without the open sells; an order  *)
(* it refuses is kept as RISK_REJECTED.                                    *)
ProcessActionTrigger(b, r, m, candle) ==
    LET q == IF m.effect = "EXIT" THEN Smaller(m.quantity, b.account.net) ELSE m.quantity
        price == OrderPrice(m, candle)
    IN  CASE m.effect = "EXIT" /\ b.account.net = 0 -> [b EXCEPT !.sound = FALSE]
          [] ~(m.effect = "EXIT" /\ b.account.net = 0)
               /\ ~RiskOk(b, m, q, price, Cardinality(OpenIn(b)), b.account.net) ->
               [b EXCEPT !.orders = Append(b.orders, NewOrder(r, m, q, "RISK_REJECTED", 0))]
          [] OTHER -> Accept(b, r, m, q, price)

Commit(b) ==
    /\ b.sound
    /\ Len(b.orders) <= MaxOrders
    /\ account' = b.account
    /\ orders' = b.orders

-----------------------------------------------------------------------------
(* Steps. *)

(* step_runtime of a manual runtime with step_count 1.  Beyond the dataset *)
(* it completes.                                                           *)
StepManual(r) ==
    /\ kind[r] = "manual" /\ status[r] = "RUNNING" /\ step[r] < LastStep
    /\ \E c \in Candles, triggered \in BOOLEAN :
         LET b == CheckOrderExpirations(FillAll(r, c), r, c)
         IN  Commit(IF triggered THEN ProcessActionTrigger(b, r, Mappings[1], c) ELSE b)
    /\ step' = [step EXCEPT ![r] = step[r] + 1]
    /\ UNCHANGED <<kind, status, halted, sweep>>

CompleteManual(r) ==
    /\ kind[r] = "manual" /\ status[r] = "RUNNING" /\ step[r] = LastStep
    /\ status' = [status EXCEPT ![r] = "COMPLETED"]
    /\ UNCHANGED <<kind, account, orders, step, halted, sweep>>

(* One interval of a replay; the last one expires what is still open.      *)
StepReplay(r) ==
    /\ kind[r] = "replay" /\ status[r] = "RUNNING" /\ step[r] < LastStep
    /\ \E c \in Candles, triggered \in SUBSET {Mappings[i].id : i \in DOMAIN Mappings} :
         LET b == PlanActions(FillAll(r, c), r, triggered, c)
         IN  Commit(IF step[r] + 1 = LastStep THEN ExpireAll(b, r) ELSE b)
    /\ step' = [step EXCEPT ![r] = step[r] + 1]
    /\ status' = IF step[r] + 1 = LastStep THEN [status EXCEPT ![r] = "COMPLETED"] ELSE status
    /\ UNCHANGED <<kind, halted, sweep>>

-----------------------------------------------------------------------------
(* Requests. *)

(* Mutant of Start: the kill switch is not looked at. *)
StartRegardless(r) ==
    /\ status[r] \in {"READY", "PAUSED"}
    /\ status' = [status EXCEPT ![r] = "RUNNING"]
    /\ UNCHANGED <<kind, account, orders, step, halted, sweep>>

(* activate, start, resume. *)
Start(r) ==
    /\ status[r] \in {"READY", "PAUSED"}
    /\ ~halted
    /\ status' = [status EXCEPT ![r] = "RUNNING"]
    /\ UNCHANGED <<kind, account, orders, step, halted, sweep>>

Pause(r) ==
    /\ status[r] = "RUNNING"
    /\ status' = [status EXCEPT ![r] = "PAUSED"]
    /\ UNCHANGED <<kind, account, orders, step, halted, sweep>>

(* validate_runtime takes a halted manual runtime back to READY. *)
Validate(r) ==
    /\ kind[r] = "manual" /\ status[r] = "HALTED" /\ account.total > 0
    /\ status' = [status EXCEPT ![r] = "READY"]
    /\ UNCHANGED <<kind, account, orders, step, halted, sweep>>

(* stop_orchestration leaves the orders alone. *)
StopReplay(r) ==
    /\ kind[r] = "replay" /\ status[r] \in {"RUNNING", "PAUSED", "HALTED"}
    /\ status' = [status EXCEPT ![r] = "STOPPED"]
    /\ UNCHANGED <<kind, account, orders, step, halted, sweep>>

CancelIn(k) == Commit(EndOrder(Book, k, "CANCELLED"))

(* cancel_order: not while a replay is RUNNING. *)
CancelOrder(k) ==
    /\ k \in AllLive
    /\ ~(kind[orders[k].runtime] = "replay" /\ status[orders[k].runtime] = "RUNNING")
    /\ CancelIn(k)
    /\ UNCHANGED <<kind, status, step, halted, sweep>>

(* The first order of a sweep over S is cancelled in the transaction that  *)
(* changes the statuses; without an order that transaction is all.         *)
BeginSweep(q, S) ==
    /\ sweep[q] = NoSweep
    /\ IF S = {} THEN UNCHANGED <<account, orders, sweep>>
       ELSE \E k \in S : CancelIn(k) /\ sweep' = [sweep EXCEPT ![q] = S \ {k}]

(* stop_runtime. *)
StopManual(r) ==
    /\ kind[r] = "manual" /\ status[r] \in {"RUNNING", "PAUSED", "HALTED"}
    /\ BeginSweep(r, LiveOrders(r))
    /\ status' = [status EXCEPT ![r] = "STOPPED"]
    /\ UNCHANGED <<kind, step, halted>>

(* engage_kill_switch. *)
EngageKillSwitch ==
    /\ BeginSweep("kill switch", AllLive)
    /\ halted' = TRUE
    /\ status' = [r \in Runtimes |-> IF status[r] \in {"RUNNING", "PAUSED"}
                                     THEN "HALTED" ELSE status[r]]
    /\ UNCHANGED <<kind, step>>

(* The next order of a request's list.  One that is no longer open fails   *)
(* the request, and the rest of its list stays as it is.                   *)
SweepNext(q) ==
    /\ sweep[q] # NoSweep
    /\ \E k \in sweep[q] :
         IF k \in AllLive
         THEN CancelIn(k) /\ sweep' = [sweep EXCEPT ![q] = @ \ {k}]
         ELSE sweep' = [sweep EXCEPT ![q] = NoSweep] /\ UNCHANGED <<account, orders>>
    /\ UNCHANGED <<kind, status, step, halted>>

(* The list is done.  The kill switch asks again until nothing is open.    *)
SweepDone(q) ==
    /\ sweep[q] = {}
    /\ sweep' = [sweep EXCEPT ![q] = IF q = "kill switch" /\ AllLive # {}
                                     THEN AllLive ELSE NoSweep]
    /\ UNCHANGED <<kind, account, orders, status, step, halted>>

(* The process that handles a request dies. *)
Crash(q) ==
    /\ sweep[q] # NoSweep
    /\ sweep' = [sweep EXCEPT ![q] = NoSweep]
    /\ UNCHANGED <<kind, account, orders, status, step, halted>>

(* reset_kill_switch: it asks for CANCEL_PENDING orders, and a paper order *)
(* is that only inside a transaction.                                      *)
ResetKillSwitch ==
    /\ halted
    /\ halted' = FALSE
    /\ UNCHANGED <<kind, account, orders, status, step, sweep>>

Next ==
    \/ \E r \in Runtimes :
         \/ StepManual(r) \/ CompleteManual(r) \/ StepReplay(r)
         \/ Start(r) \/ Pause(r) \/ Validate(r) \/ StopReplay(r) \/ StopManual(r)
    \/ \E k \in DOMAIN orders : CancelOrder(k)
    \/ EngageKillSwitch \/ ResetKillSwitch
    \/ \E q \in Requests : SweepNext(q) \/ SweepDone(q) \/ Crash(q)

Spec == Init /\ [][Next]_vars

-----------------------------------------------------------------------------
(* Properties. *)

(* Every variable has its type. *)
TypeOK ==
    /\ kind \in [Runtimes -> {"manual", "replay"}]
    /\ account \in [total : Nat, reserved : Nat, net : Nat, avg : Nat, pnl : Int]
    /\ \A k \in DOMAIN orders :
         /\ orders[k].runtime \in Runtimes /\ orders[k].kind = kind[orders[k].runtime]
         /\ orders[k].side \in {"BUY", "SELL"}
         /\ orders[k].filled \in 0..orders[k].quantity
         /\ orders[k].status \in {"ACCEPTED", "PARTIALLY_FILLED", "FILLED", "CANCELLED",
                                  "EXPIRED", "RISK_REJECTED"}
    /\ status \in [Runtimes -> {"READY", "RUNNING", "PAUSED", "HALTED", "STOPPED", "COMPLETED"}]
    /\ step \in [Runtimes -> 0..LastStep]
    /\ halted \in BOOLEAN
    /\ sweep \in [Requests -> {NoSweep} \cup SUBSET (1..MaxOrders)]

OnlyReplays == \A r \in Runtimes : kind[r] = "replay"
SumHeld(S) == SumFunctionOnSet([k \in DOMAIN orders |-> orders[k].held], S)
Buys == {k \in DOMAIN orders : orders[k].side = "BUY"}

(* Partial fills give back a rounded share of an order's reservation       *)
(* (_apply_fill), and its cancellation, its expiry or its last fill the    *)
(* rest.  When the account's orders are replays', the reserved cash is at  *)
(* any time what its live BUY orders hold, each of them at least what is   *)
(* left to buy at its limit, and an order that has ended holds nothing.    *)
ReservedBacksLiveOrders ==
    OnlyReplays =>
        /\ account.reserved = SumHeld(DOMAIN orders)
        /\ \A k \in DOMAIN orders :
             IF k \in Buys \cap AllLive THEN orders[k].held >= Remaining(orders[k]) * orders[k].limit
                                       ELSE orders[k].held = 0

(* The exits of all replays of the account together never sell more than   *)
(* the position: plan_actions subtracts the open sells of every runtime.   *)
SellsAreCovered ==
    OnlyReplays =>
        SumRemaining(Book, {k \in AllLive : orders[k].side = "SELL"}) <= account.net

(* What the account gained is its realized profit.  Cash and position at   *)
(* cost differ from the initial balance and the profit by no more than     *)
(* the rounding of the average price (apply_fill_to_position): a BUY loses *)
(* less than one unit for every unit of the position.                      *)
DriftIsRounding ==
    LET drift == Funds + account.pnl - account.total - account.net * account.avg
        bought == SumFunctionOnSet([k \in DOMAIN orders |-> orders[k].filled], Buys)
    IN  0 <= drift /\ drift <= bought * bought

(* While a kill switch is active nothing is placed and nothing is filled,  *)
(* on manual runtimes (whose risk check is told that it is off) as on      *)
(* replays.                                                                *)
KillSwitchFreezesAccount ==
    [][halted /\ halted' =>
         /\ Len(orders') = Len(orders)
         /\ \A k \in DOMAIN orders : orders'[k].filled = orders[k].filled]_vars

=============================================================================
