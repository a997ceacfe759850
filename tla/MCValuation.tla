---------------------------- MODULE MCValuation -----------------------------
(***************************************************************************)
(* Instances of Valuation for TLC: two holdings of one scheme that has a   *)
(* NAV, one of another scheme and advisor that has none yet, and a uuid    *)
(* between them that a new holding may get.                                *)
(***************************************************************************)
EXTENDS Valuation, TLC

CONSTANTS a1, a2, s1, s2

Money(units, cost, value, nav, date) ==
    ("units" :> units) @@ ("invested_amount" :> cost)
    @@ ("current_value" :> value) @@ ("average_nav" :> nav)
    @@ ("current_nav" :> nav) @@ ("valuation_date" :> date)
Holding(scheme, advisor_id, cols) ==
    [scheme |-> scheme, advisor_id |-> advisor_id, cols |-> cols,
     is_active |-> TRUE]
Nav(value, date) == [value |-> value, date |-> date]

MCHoldings ==
    (1 :> Holding(s1, a1, Money(1, 1, 1, 1, 1)))
    @@ (2 :> Holding(s1, a1, Money(2, 1, 2, None, None)))
    @@ (3 :> None)
    @@ (4 :> Holding(s2, a2, Money(1, 2, 2, 2, 2)))

MCNavs == (s1 :> {Nav(1, 1)}) @@ (s2 :> {})
MCQuote == {Nav(1, 1), Nav(2, 1), Nav(3, 2)}

Symmetry == Permutations(Req)

Valuations ==
    {[op |-> "recalculate", scope |-> {a1}],
     [op |-> "recalculate", scope |-> {a1, a2}]}

Completion(op, x, units, amount, nav, date) ==
    [op |-> op, id |-> x, units |-> units, amount |-> amount, nav |-> nav,
     date |-> date]
Edited(x, cols, is_active) ==
    [op |-> "edit", id |-> x, cols |-> cols @@ NoColumns, is_active |-> is_active]

HoldingCalls ==
    {Completion("inflow", 1, 1, 2, 2, 1),
     Completion("outflow", 1, 1, 1, 1, 2),
     Completion("outflow", 2, 1, 1, 2, 1),
     Edited(1, "units" :> 0, TRUE),
     Edited(2, ("current_value" :> 3) @@ ("current_nav" :> 1), TRUE),
     Edited(4, "current_nav" :> None, TRUE),
     Edited(2, NoColumns, FALSE),
     [op |-> "create", row |-> Holding(s2, a1, Money(1, 1, 1, None, None))]}

FullWorkload == Valuations \cup HoldingCalls

=============================================================================
