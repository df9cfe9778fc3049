----------------------------- MODULE MCScreening ------------------------------
(***************************************************************************)
(* Workbooks for Screening: a three-statement model of four years, two of  *)
(* fact and two of plan, computed from its drivers so that its accounts    *)
(* agree; and a sheet of formulas with what the detectors look for.        *)
(***************************************************************************)
EXTENDS Screening, TLC

Years == 1..4
Dates == [t \in Years |-> [key |-> YearKey(2022 + t), col |-> t,
                           role |-> IF t <= 2 THEN "historical" ELSE "forecast"]]

(* A stock from its first number and what each later year adds. *)
Stock(first, add) ==
  LET at[t \in Years] == IF t = 1 THEN first ELSE at[t - 1] + add[t] IN at
Growth(s) == [t \in Years |-> IF t = 1 THEN 0 ELSE s[t] - s[t - 1]]

Accounts(d) ==
  LET price   == [t \in Years |-> 2]
      revenue == [t \in Years |-> d.volume[t] * 2]
      gross   == [t \in Years |-> revenue[t] - d.cogs[t]]
      ebitda  == [t \in Years |-> gross[t] - 8]
      ebit    == [t \in Years |-> ebitda[t] - 4]
      interest == [t \in Years |-> IF t = 1 THEN d.debt[1] \div 10 ELSE (d.debt[t] + d.debt[t - 1]) \div 20]
      taxed   == [t \in Years |-> ebit[t] - interest[t]]
      tax     == [t \in Years |-> taxed[t] \div 5]
      income  == [t \in Years |-> taxed[t] - tax[t]]
      ppe     == [t \in Years |-> 100 + 3 * t]
      capex   == [t \in Years |-> -(Growth(ppe)[t] + 4)]
      ap      == [t \in Years |-> 6 + t]
      stored  == [t \in Years |-> 5]
      cfo     == [t \in Years |-> income[t] + 4 - Growth(d.ar)[t] - Growth(stored)[t] + Growth(ap)[t]]
      drawn   == [t \in Years |-> Larger(0, Growth(d.debt)[t])]
      repaid  == [t \in Years |-> Larger(0, -Growth(d.debt)[t])]
      flow    == [t \in Years |-> cfo[t] + capex[t] + drawn[t] - repaid[t] - d.dividends[t]]
      cash    == Stock(d.cash, flow)
      kept    == [t \in Years |-> income[t] - d.dividends[t]]
      assets1 == d.cash + d.ar[1] + 5 + ppe[1]
      equity  == Stock(assets1 - ap[1] - d.debt[1], kept)
      owed    == [t \in Years |-> ap[t] + d.debt[t]]
      assets  == [t \in Years |-> equity[t] + owed[t]]
      OneLine(c, s, block, out) == <<[concept |-> c, nums |-> s, block |-> block, out |-> out]>>
      OnlyIf(yes, lines) == IF yes THEN lines ELSE <<>>
  IN  OneLine("pnl.volume", d.volume, 1, FALSE) \o OneLine("pnl.price", price, 1, FALSE)
        \o OneLine("pnl.revenue", revenue, 1, FALSE) \o OneLine("pnl.cogs", d.cogs, 1, FALSE)
        \o OneLine("pnl.gross_profit", gross, 1, FALSE) \o OneLine("pnl.opex", [t \in Years |-> 8], 1, FALSE)
        \o OneLine("pnl.ebitda", ebitda, 1, TRUE) \o OneLine("pnl.da", [t \in Years |-> 4], 1, FALSE)
        \o OneLine("pnl.ebit", ebit, 1, FALSE) \o OneLine("pnl.interest", interest, 1, FALSE)
        \o OnlyIf(d.rated, OneLine("pnl.interest_rate", [t \in Years |-> 10], 1, FALSE))
        \o OneLine("pnl.tax", tax, 1, FALSE) \o OneLine("pnl.tax_rate", [t \in Years |-> 20], 1, FALSE)
        \o OneLine("pnl.net_income", income, 1, TRUE)
        \o OneLine("bs.cash", cash, 2, TRUE) \o OneLine("bs.ar", d.ar, 2, FALSE)
        \o OneLine("bs.inventory", stored, 2, FALSE) \o OneLine("bs.ppe", ppe, 2, FALSE)
        \o OneLine("bs.assets_total", assets, 2, FALSE) \o OneLine("bs.ap", ap, 2, FALSE)
        \o OneLine("bs.debt", d.debt, 2, FALSE) \o OneLine("bs.liabilities", owed, 2, FALSE)
        \o OneLine("bs.equity", equity, 2, FALSE) \o OneLine("bs.retained_earnings", Stock(30, kept), 2, FALSE)
        \o OneLine("cf.cfo", cfo, 3, FALSE) \o OneLine("cf.da", [t \in Years |-> 4], 3, FALSE)
        \o OneLine("cf.capex", capex, 3, FALSE)
        \o OnlyIf(~d.derived, OneLine("cf.drawdown", drawn, 3, FALSE) \o OneLine("cf.repayment", repaid, 3, FALSE)
             \o OneLine("cf.dividends", d.dividends, 3, FALSE) \o OneLine("cf.fcf", flow, 3, TRUE))
        \o OneLine("bs.cash", cash, 3, FALSE)
        \o OnlyIf(d.covered # <<>>, OneLine("cov.dscr", d.covered, 3, FALSE))

(* A workbook of three sheets of numbers. *)
Finance(d) ==
  LET lines == Accounts(d)
      val == [p \in (DOMAIN lines) \X Years |-> lines[p[1]].nums[p[2]]]
      none == [p \in {} |-> 0]
  IN  [axis |-> <<Dates, Dates, Dates>>, sheet |-> <<"pnl", "bs", "cf">>,
       rows |-> [r \in DOMAIN lines |-> [block |-> lines[r].block, concept |-> lines[r].concept,
                                         out |-> lines[r].out, check |-> FALSE, intent |-> FALSE]],
       val |-> val, text |-> {}, cells |-> DOMAIN val, formula |-> none, uses |-> {},
       errors |-> {}, hidden |-> {}, dynamic |-> {}, external |-> {}, links |-> FALSE, macros |-> FALSE,
       scenario |-> [s \in {"pnl", "bs", "cf"} |-> ""]]

Calm == [volume |-> <<20, 21, 22, 23>>, cogs |-> <<14, 15, 15, 16>>, debt |-> <<20, 20, 20, 20>>,
         ar |-> <<5, 5, 6, 6>>, dividends |-> <<0, 0, 0, 0>>, cash |-> 10, rated |-> TRUE,
         derived |-> FALSE, covered |-> <<>>]
Decline == [Calm EXCEPT !.volume = <<30, 30, 26, 14>>, !.cogs = <<20, 20, 22, 30>>,
                        !.debt = <<20, 20, 40, 60>>, !.dividends = <<0, 2, 4, 4>>, !.rated = FALSE]
Derived == [Decline EXCEPT !.derived = TRUE, !.debt = <<20, 20, 20, 20>>, !.dividends = <<0, 0, 0, 0>>,
                           !.volume = <<20, 20, 26, 40>>, !.ar = <<5, 5, 30, 60>>]

(* The declining year with numbers that no longer agree. *)
Slipped ==
  LET b == Finance(Decline)
      wrong == {"pnl.opex", "cf.cfo", "bs.equity", "bs.retained_earnings", "cf.drawdown"}
  IN  [b EXCEPT !.val = [p \in DOMAIN @ |-> IF b.rows[p[1]].concept \in wrong /\ p[2] = 3 THEN @[p] + 9 ELSE @[p]]]

-----------------------------------------------------------------------------
(* A sheet of formulas: volume and price make revenue, costs are summed,   *)
(* EBITDA is what is left, and a line is read by nobody.                   *)

Row(block, c, out) == [block |-> block, concept |-> c, out |-> out, check |-> FALSE, intent |-> FALSE]
Like(template, sums) == [template |-> template, sheets |-> {}, consts |-> {}, sums |-> sums, masks |-> FALSE]
Across(rs) == rs \X Years

Model ==
  LET nums == <<<<20, 20, 18, 14>>, <<2, 2, 2, 2>>, <<40, 40, 36, 28>>, <<10, 10, 10, 10>>, <<8, 8, 8, 8>>,
                <<18, 18, 18, 18>>, <<22, 22, 18, 10>>, <<1, 2, 3, 4>>>>
      reads == {<<3, 1>>, <<3, 2>>, <<6, 4>>, <<6, 5>>, <<7, 3>>, <<7, 6>>}
      val == [p \in Across(1..8) |-> nums[p[1]][p[2]]]
  IN  [axis |-> <<Dates>>, sheet |-> <<"model">>,
       rows |-> <<Row(1, "pnl.volume", FALSE), Row(1, "pnl.price", FALSE), Row(1, "pnl.revenue", FALSE),
                  Row(1, "pnl.cogs", FALSE), Row(1, "pnl.opex", FALSE), Row(1, NoConcept, FALSE),
                  Row(1, "pnl.ebitda", TRUE), Row(1, NoConcept, FALSE)>>,
       val |-> val, text |-> {}, cells |-> DOMAIN val,
       formula |-> [p \in Across({3, 6, 7}) |->
                      CASE p[1] = 3 -> Like("product", {}) [] p[1] = 7 -> Like("difference", {})
                        [] p[1] = 6 -> Like("sum", {<<4, p[2]>>, <<5, p[2]>>})],
       uses |-> {<<<<e[1], t>>, <<e[2], t>>>> : e \in reads, t \in Years},
       errors |-> {}, hidden |-> {}, dynamic |-> {}, external |-> {}, links |-> FALSE, macros |-> FALSE,
       scenario |-> ("model" :> "")]

(* The same with what the detectors look for: revenue from another file,   *)
(* a cost that reads itself by way of EBITDA, hidden prices, an error, a   *)
(* second sum of the costs, two scenarios and two rates.                   *)
Tangled ==
  LET b == Model
      plan == <<[key |-> 999901, role |-> "scenario", col |-> 1], [key |-> 999902, role |-> "scenario", col |-> 2]>>
      more == [p \in {9, 10, 11, 12, 13} \X {1, 2} |->
                 CASE p = <<9, 1>> -> 18 [] p = <<9, 2>> -> 18 [] p[1] = 10 -> 12 [] p = <<11, 1>> -> 40
                   [] p = <<11, 2>> -> 30 [] p[1] = 12 -> 10 [] p[1] = 13 -> 3]
  IN  [b EXCEPT
         !.axis = @ \o <<plan, plan>>, !.sheet = @ \o <<"base", "stress">>,
         !.rows = @ \o <<Row(1, NoConcept, FALSE), Row(2, "pnl.interest_rate", FALSE), Row(2, "pnl.revenue", TRUE),
                         Row(3, "pnl.interest_rate", FALSE), Row(3, NoConcept, FALSE)>>,
         !.val = more @@ @, !.text = {<<9, 4>>}, !.cells = @ \cup DOMAIN more \cup {<<9, 4>>},
         !.formula = (<<9, 1>> :> Like("sum", {<<4, 1>>, <<5, 1>>})) @@ @,
         !.uses = @ \cup {<<<<9, 1>>, <<4, 1>>>>, <<<<9, 1>>, <<5, 1>>>>, <<<<6, 4>>, <<7, 4>>>>,
                          <<<<3, 1>>, <<10, 1>>>>, <<<<7, 1>>, <<13, 1>>>>},
         !.external = {<<3, 1>>}, !.hidden = {<<2, 1>>}, !.errors = {<<8, 3>>}, !.dynamic = {<<3, 2>>},
         !.macros = TRUE, !.scenario = ("model" :> "" @@ "base" :> "base" @@ "stress" :> "stress")]

MCAgreeing == {Finance(d) : d \in {Calm, Decline, Derived}}
MCBooks == MCAgreeing \cup {Slipped, [Model EXCEPT !.links = TRUE], Tangled}

(* With a cover ratio, in hundredths. *)
MCCoveredBooks == {Finance([d EXCEPT !.covered = <<120, 110, 95, 90>>]) : d \in {Calm, Decline}}

MCDeltas == {3, 25, -45}

MCBaseKeys == {999901}
MCStressKeys == {999902}
=============================================================================
