------------------------------ MODULE Billing -------------------------------
(***************************************************************************)
(* The cost tracker (billing/tracker.go): records of what runs cost, a     *)
(* monthly budget with alerts, each of which fires once.                   *)
(***************************************************************************)
EXTENDS Naturals

CONSTANTS
  Payers,      \* Payers: the tenants that costs are attributed to
  Month,       \* Month: the units of time in a month
  MaxMonth     \* MaxMonth: the last month that is looked at

ASSUME MonthAssumption == Month \in Nat \ {0} /\ MaxMonth \in Nat

VARIABLES
  spent,       \* spent: the records, summed by payer and month
  fired,       \* fired: the months whose costs made a payer's alert fire
  armed        \* armed: the payers whose alert may still fire

billingVars == <<spent, fired, armed>>

NoCosts == [p \in Payers |-> [m \in 0..MaxMonth |-> 0]]
NoAlerts == [p \in Payers |-> {}]

BillingInit == spent = NoCosts /\ fired = NoAlerts /\ armed = Payers

(* The price of a run: nothing without a pricing table, a model or a price *)
(* for the model.                                                          *)
Cost(prices, model, prompt, completion) ==
  IF model \in DOMAIN prices
  THEN prompt * prices[model].prompt + completion * prices[model].completion
  ELSE 0

Record(p, now, cost) ==
  /\ spent' = [spent EXCEPT ![p][now \div Month] = @ + cost]
  /\ UNCHANGED <<fired, armed>>

(* The summary over the budget's period, under a read lock of its own.     *)
Summary(p, now) == spent[p][now \div Month]

AtPercent(pct, total, budget) == budget > 0 /\ total * 100 >= pct * budget
AtAmount(amount, total) == total >= amount

Reached(alert, total, budget) ==
  IF alert.percent THEN AtPercent(alert.at, total, budget) ELSE AtAmount(alert.at, total)

(* Only the firing is under the write lock, not the summary it is based on. *)
CheckAlert(p, total, month, alert, budget) ==
  /\ IF p \in armed /\ Reached(alert, total, budget)
     THEN /\ armed' = armed \ {p}
          /\ fired' = [fired EXCEPT ![p] = @ \union {month}]
     ELSE UNCHANGED <<fired, armed>>
  /\ UNCHANGED spent

BillingTypeOK ==
  /\ spent \in [Payers -> [0..MaxMonth -> Nat]]
  /\ fired \in [Payers -> SUBSET (0..MaxMonth)]
  /\ armed \subseteq Payers
=============================================================================
