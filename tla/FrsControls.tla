------------------------------ MODULE FrsControls -----------------------------
(***************************************************************************)
(* run_frs: the fourteen controls F01..F14 over the mapped totals.  A      *)
(* control is not applicable, lacks data, is clear, or is flagged with the *)
(* cells it is about.                                                      *)
(*                                                                         *)
(* Ratios are exact fractions where the code has floats.  Metrics keep     *)
(* what the report decides on; names and wording are left out.             *)
(***************************************************************************)
EXTENDS Workbook

(* Fractions <<numerator, denominator>>, the denominator positive. *)
Frac(n, d)    == IF d < 0 THEN <<-n, -d>> ELSE <<n, d>>
AtMost(p, q)  == p[1] * q[2] <= q[1] * p[2]

(* mutant: the comparison the other way *)
BelowFlipped(p, q) == q[1] * p[2] < p[1] * q[2]

Below(p, q) == p[1] * q[2] < q[1] * p[2]

Minus(p, q)   == <<p[1] * q[2] - q[1] * p[2], p[2] * q[2]>>
Change(before, after) == Frac(after - before, before)

YoyDrop        == <<-1, 10>>
MarginDrop     == <<-1, 20>>
AggressiveLift == <<3, 20>>
CliffPp        == <<3, 20>>
LeverageJump   == <<1, 1>>
LeverageCeiling == <<4, 1>>
IcrFloor       == <<3, 2>>
IcrHigh        == <<1, 1>>
DaysLift       == <<15, 1>>
RepayShare     == <<3, 10>>
RevLift        == <<1, 5>>
FcfDrop        == <<-1, 5>>

-----------------------------------------------------------------------------
(* Periods of a control *)

YearsOf(keys, Is(_)) == {Year(k) : k \in {j \in Members(keys) : Is(j)}}
Complete(keys, y) == \A q \in 21..24 : YearKey(y) + q \in Members(keys)

-----------------------------------------------------------------------------
(* The amount of a row in a period *)

Amount(known, val, refs) == [known |-> known, val |-> val, refs |-> refs]
NoAmount == Amount(FALSE, 0, <<>>)

(* mutant: the parts of a year are added for a stock too *)
MergeAdded(r, stock, cols) ==
  LET refs == Among([i \in DOMAIN cols |-> <<r, cols[i]>>], DOMAIN book.val)
  IN  IF refs = <<>> THEN NoAmount ELSE Amount(TRUE, Total(refs, Val), refs)

(* A stock's last number, a flow's sum, of the columns in order. *)
Merge(r, stock, cols) ==
  LET refs == Among([i \in DOMAIN cols |-> <<r, cols[i]>>], DOMAIN book.val)
      last == refs[Len(refs)]
  IN  IF refs = <<>> THEN NoAmount
      ELSE IF stock THEN Amount(TRUE, Val(last), <<last>>)
      ELSE Amount(TRUE, Total(refs, Val), refs)

StockConcepts == {"bs.assets_total", "bs.equity", "bs.liabilities", "bs.cash", "bs.debt",
                  "bs.ppe", "bs.retained_earnings", "bs.ar", "bs.ap", "bs.inventory"}

(* The headers of the roles with a key in the set, by key, then as they    *)
(* stand in the axis.                                                      *)
HeadersBy(ax, ks) ==
  LET hits == {i \in DOMAIN ax : ax[i].role \in PeriodRoles /\ ax[i].key \in ks}
      Before(i, j) == ax[i].key < ax[j].key \/ (ax[i].key = ax[j].key /\ i < j)
      Rank(i) == Cardinality({j \in hits : Before(j, i)})
  IN  [n \in 1..Cardinality(hits) |-> ax[CHOOSE i \in hits : Rank(i) = n - 1]]

ColsOf(hs) == [i \in DOMAIN hs |-> hs[i].col]

(* The cells of months or quarters, with the last header of each quarter.  *)
OfMonths(r, stock, months) == Merge(r, stock, ColsOf(months))
OfQuarters(r, stock, y, quarters) ==
  LET Last(k) == quarters[Greatest({i \in DOMAIN quarters : quarters[i].key = k})].col
  IN  IF Complete([i \in DOMAIN quarters |-> quarters[i].key], y)
      THEN Merge(r, stock, [q \in 1..4 |-> Last(YearKey(y) + 20 + q)]) ELSE NoAmount

(* The first header with the key, else the year's months, else quarters.   *)
YearAmount(r, k) ==
  LET ax     == AxisOf(r)
      named  == {i \in DOMAIN ax : ax[i].key = k}
      cell   == <<r, ax[Least(named)].col>>
      stock  == book.rows[r].concept \in StockConcepts
      OfYear(Is(_)) == HeadersBy(ax, {j \in {h.key : h \in Members(ax)} : Is(j) /\ Year(j) = Year(k)})
  IN  IF named # {}
      THEN Amount(Known(cell), IF Known(cell) THEN Val(cell) ELSE 0, <<cell>>)
      ELSE IF ~IsYear(k) THEN NoAmount
      ELSE IF \E i \in DOMAIN ax : ax[i].role \in PeriodRoles /\ IsMonth(ax[i].key) /\ Year(ax[i].key) = Year(k)
      THEN OfMonths(r, stock, OfYear(IsMonth))
      ELSE OfQuarters(r, stock, Year(k), OfYear(IsQuarter))

(* The role of a period: its header's, else its last month's, else its     *)
(* last quarter's.                                                         *)
PeriodRole(ax, k) ==
  LET Last(hits) == ax[Greatest({i \in hits : \A j \in hits : ax[j].key <= ax[i].key})].role
      OfYear(Is(_)) == {i \in DOMAIN ax : Is(ax[i].key) /\ Year(ax[i].key) = Year(k)}
      named == {i \in DOMAIN ax : ax[i].key = k}
  IN  IF named # {} THEN ax[Least(named)].role
      ELSE IF OfYear(IsMonth) # {} THEN Last(OfYear(IsMonth))
      ELSE IF OfYear(IsQuarter) # {} THEN Last(OfYear(IsQuarter)) ELSE ""

-----------------------------------------------------------------------------
(* What the controls read: the line of each concept, the columns of its    *)
(* periods, its amounts and roles in them and in their years               *)

Line(r) ==
  LET periods == IF r = NoRow THEN {} ELSE UNION {{h.key, YearKey(Year(h.key))} : h \in Members(AxisOf(r))}
  IN  [row  |-> r,
       cols |-> IF r = NoRow THEN [k \in {} |-> 0] ELSE AxisCols(r, PeriodRoles),
       at   |-> [k \in periods |-> YearAmount(r, k)],
       role |-> [k \in periods |-> PeriodRole(AxisOf(r), k)]]

FrsConcepts ==
  {"pnl.revenue", "pnl.cogs", "pnl.ebitda", "pnl.interest", "pnl.net_income", "pnl.volume", "pnl.price",
   "bs.cash", "bs.debt", "bs.ar", "bs.ap", "bs.inventory", "cf.cfo", "cf.capex", "cf.fcf", "cf.dividends",
   "cf.drawdown", "cf.repayment", "cov.dscr", "cov.llcr", "cov.plcr", "covenant.headroom", "fx.rate"}

Lines == [c \in FrsConcepts |-> Line(BookTotal(c))]

Absent(l) == l.row = NoRow
At(l, k)  == IF k \in DOMAIN l.at THEN l.at[k] ELSE NoAmount
RoleIn(l, k) == IF k \in DOMAIN l.role THEN l.role[k] ELSE ""
IsForecast(l, k) == RoleIn(l, k) = "forecast"

Cells(a) == Members(a.refs)
FirstCell(a) == IF a.refs = <<>> THEN {} ELSE {a.refs[1]}

Shared(ls) == Ordered({k \in DOMAIN ls[1].cols : \A i \in DOMAIN ls : k \in DOMAIN ls[i].cols})

(* The years among the keys, each with the key whose column stands for it: *)
(* the keys that are no month and no quarter, then the years whose four    *)
(* quarters are all there (the first quarter's column); without any, the   *)
(* years of the months (the last month's column).                          *)
FullYears(keys, direct) ==
  LET whole == Ordered({y \in YearsOf(keys, IsQuarter) : Complete(keys, y) /\ YearKey(y) \notin Members(direct)})
  IN  [i \in DOMAIN direct |-> [key |-> direct[i], from |-> direct[i]]]
        \o [i \in DOMAIN whole |-> [key |-> YearKey(whole[i]), from |-> YearKey(whole[i]) + 21]]
MonthYears(keys, months) ==
  [i \in DOMAIN months |->
     [key |-> YearKey(months[i]), from |-> Greatest({k \in Members(keys) : IsMonth(k) /\ Year(k) = months[i]})]]

OrElse(s, t) == IF s # <<>> THEN s ELSE t

YearsAmong(keys) ==
  OrElse(FullYears(keys, Among(keys, {k \in Members(keys) : ~IsMonth(k) /\ ~IsQuarter(k)})),
         MonthYears(keys, Ordered(YearsOf(keys, IsMonth))))

KeysOf(years) == [i \in DOMAIN years |-> years[i].key]
YearKeys(ls)  == KeysOf(YearsAmong(Shared(ls)))

(* Periods with their cell in the line. *)
SlotsOf(l, ps) == [i \in DOMAIN ps |-> [key |-> ps[i].key, cell |-> <<l.row, l.cols[ps[i].from]>>]]
MonthsAmong(keys) ==
  LET months == Among(keys, {k \in Members(keys) : IsMonth(k)})
  IN  [i \in DOMAIN months |-> [key |-> months[i], from |-> months[i]]]

YearSlots(l)  == SlotsOf(l, YearsAmong(Shared(<<l>>)))
MonthSlots(l) == SlotsOf(l, MonthsAmong(Shared(<<l>>)))
FinestSlots(l) == OrElse(MonthSlots(l), YearSlots(l))

(* The slots whose cell is known. *)
KnownSlots(slots) == Among(slots, {s \in Members(slots) : Known(s.cell)})

(* All the periods the rows share are months. *)
FromMonths(ls) ==
  LET keys == Members(Shared(ls))
  IN  keys # {} /\ \A k \in keys : IsMonth(k)

-----------------------------------------------------------------------------
(* Results *)

Result(status, refs, class, priority, confidence, cause) ==
  [status |-> status, refs |-> refs, class |-> class, priority |-> priority,
   confidence |-> confidence, cause |-> cause]

NotApplicable == Result("not_applicable", {}, "", "", "", "")
Insufficient  == Result("insufficient", {}, "", "", "", "")

(* Flagged with the cells it is about; without any, clear. *)
Finish(refs, class, priority, confidence, cause) ==
  Result(IF refs = {} THEN "clear" ELSE "flagged", refs, class, priority, confidence, cause)

Flag(refs, class, priority) == Finish(refs, class, priority, "high", "")

(* The refs of the first member of a sequence that has any. *)
FirstHit(s, Refs(_)) ==
  LET hits == {i \in DOMAIN s : Refs(s[i]) # {}}
  IN  IF hits = {} THEN {} ELSE Refs(s[Least(hits)])

Pairs(keys) == [i \in 1..(Len(keys) - 1) |-> <<keys[i], keys[i + 1]>>]

-----------------------------------------------------------------------------
(* F01 revenue from fact to plan, F11 its growth *)

(* The plan of a period against its fact, where a key has both columns. *)
PlanFact(l, k) ==
  LET ax == AxisOf(l.row)
      Of(role) == {i \in DOMAIN ax : ax[i].key = k /\ ax[i].role = role}
      Cell(role) == <<l.row, ax[Greatest(Of(role))].col>>
      fact == Cell("historical")
      plan == Cell("forecast")
      apart == Change(Val(fact), Val(plan))
  IN  IF /\ Of("historical") # {} /\ Of("forecast") # {}
         /\ Known(fact) /\ Known(plan) /\ Val(fact) # 0
         /\ (AtMost(apart, YoyDrop) \/ AtMost(<<1, 10>>, apart))
      THEN {fact, plan} ELSE {}

(* Volume, price and rate, cited with a drop when both years have them. *)
Drivers(m, p) ==
  LET Both(c) == <<At(m[c], p[1]), At(m[c], p[2])>>
      Usable(c) == Both(c)[1].known /\ Both(c)[2].known /\ Both(c)[1].val # 0
      Refs(c) == Cells(Both(c)[1]) \cup Cells(Both(c)[2])
  IN  (IF Usable("pnl.volume") /\ Usable("pnl.price") THEN Refs("pnl.volume") \cup Refs("pnl.price") ELSE {})
        \cup (IF Usable("fx.rate") THEN Refs("fx.rate") ELSE {})

(* Year-on-year pairs with both amounts known and the first not zero. *)
UsablePairs(r, keys) ==
  Among(Pairs(keys), {p \in Members(Pairs(keys)) : /\ At(r, p[1]).known /\ At(r, p[2]).known
                                                    /\ At(r, p[1]).val # 0})
ChangeOf(r, p) == Change(At(r, p[1]).val, At(r, p[2]).val)

DropOrCliff(m, ps, i) ==
  LET r == m["pnl.revenue"]
      p == ps[i]
      drop  == IsForecast(r, p[2]) /\ AtMost(ChangeOf(r, p), YoyDrop)
      cliff == /\ i > 1
               /\ RoleIn(r, p[1]) = "historical" /\ IsForecast(r, p[2])
               /\ LET d == Minus(ChangeOf(r, p), ChangeOf(r, ps[i - 1]))
                  IN  AtMost(CliffPp, <<Abs(d[1]), d[2]>>)
  IN  (IF drop \/ cliff THEN Cells(At(r, p[1])) \cup Cells(At(r, p[2])) ELSE {})
        \cup (IF drop THEN Drivers(m, p) ELSE {})

FirstMove(m, ps) == FirstHit([i \in DOMAIN ps |-> i], LAMBDA i : DropOrCliff(m, ps, i))

F01(m) ==
  LET r == m["pnl.revenue"]
      compared == FirstHit(AxisOf(r.row), LAMBDA h : PlanFact(r, h.key))
  IN  Flag(IF compared # {} THEN compared ELSE FirstMove(m, UsablePairs(r, YearKeys(<<r>>))),
           "assumptions", "low")

(* The sum of a row's yearly changes, and how many they are. *)
Mean(r, ps) ==
  LET upTo[n \in 0..Len(ps)] ==
        IF n = 0 THEN <<0, 1>>
        ELSE LET c == ChangeOf(r, ps[n])
             IN  <<upTo[n - 1][1] * c[2] + c[1] * upTo[n - 1][2], upTo[n - 1][2] * c[2]>>
  IN  [known |-> ps # <<>>,
       mean |-> <<upTo[Len(ps)][1], upTo[Len(ps)][2] * Larger(1, Len(ps))>>]
MeanChange(r, keys) == Mean(r, UsablePairs(r, keys))

Aggressive(fact, plan) == fact.known /\ plan.known /\ AtMost(AggressiveLift, Minus(plan.mean, fact.mean))

F11(m) ==
  LET r == m["pnl.revenue"]
      keys == YearKeys(<<r>>)
      Band(role) == Among(keys, {k \in Members(keys) : RoleIn(r, k) = role})
      refs == UNION {Cells(At(r, k)) : k \in Members(Band("historical") \o Band("forecast"))}
  IN  Flag(IF Aggressive(MeanChange(r, Band("historical")), MeanChange(r, Band("forecast"))) THEN refs ELSE {},
           "assumptions", "low")

-----------------------------------------------------------------------------
(* F02 EBITDA and margin, F03 losses *)

Fell(e0, e1, r0, r1) ==
  \/ /\ e0.known /\ e1.known /\ e0.val # 0
     /\ AtMost(Change(e0.val, e1.val), YoyDrop)
  \/ /\ \A a \in {e0, e1, r0, r1} : a.known
     /\ r0.val # 0 /\ r1.val # 0
     /\ AtMost(Minus(Frac(e1.val, r1.val), Frac(e0.val, r0.val)), MarginDrop)

F02(m) ==
  LET e == m["pnl.ebitda"]
      r == m["pnl.revenue"]
      Refs(p) == IF /\ IsForecast(e, p[2])
                    /\ Fell(At(e, p[1]), At(e, p[2]), At(r, p[1]), At(r, p[2]))
                 THEN Cells(At(e, p[1])) \cup Cells(At(e, p[2])) \cup Cells(At(r, p[2])) ELSE {}
  IN  Flag(FirstHit(Pairs(YearKeys(<<e, r>>)), Refs), "assumptions", "low")

(* Two forecast years in a row below zero. *)
F03(m) ==
  LET e == m["pnl.ebitda"]
      Loss(k) == IsForecast(e, k) /\ At(e, k).known /\ At(e, k).val < 0
      Refs(p) == IF Loss(p[1]) /\ Loss(p[2])
                 THEN Cells(At(e, p[1])) \cup Cells(At(e, p[2])) ELSE {}
  IN  Flag(FirstHit(Pairs(YearKeys(<<e>>)), Refs), "assumptions", "medium")

-----------------------------------------------------------------------------
(* F04 profit and cash, F12 drivers that disagree, F13 dividends *)

FcfSource == IF Mapped("cf.fcf") THEN "mapped"
             ELSE IF Mapped("cf.cfo") /\ Mapped("cf.capex") THEN "derived" ELSE "missing"

CfoLessCapex(cfo, capex) ==
  IF cfo.known /\ capex.known THEN Amount(TRUE, cfo.val + capex.val, cfo.refs \o capex.refs) ELSE NoAmount

FcfAt(m, k) == IF FcfSource = "mapped" THEN At(m["cf.fcf"], k)
               ELSE CfoLessCapex(At(m["cf.cfo"], k), At(m["cf.capex"], k))

Causes == <<"ops", "wc_ar", "wc_ap", "capex", "dividends">>

(* What weighs most between profit and cash in the given periods. *)
CashCause(m, keys, flagged) ==
  LET ni == m["pnl.net_income"]
      Rise(a, before) == IF a.known /\ before.known THEN Larger(0, a.val - before.val) ELSE 0
      If(a, n) == IF a.known THEN Larger(0, n) ELSE 0
      Grown(c, i) == IF i = 1 THEN 0 ELSE Rise(At(m[c], keys[i]), At(m[c], keys[i - 1]))
      Score(cause, i) ==
        CASE cause = "ops" -> IF At(m["cf.cfo"], keys[i]).known
                              THEN If(At(ni, keys[i]), At(ni, keys[i]).val - At(m["cf.cfo"], keys[i]).val)
                              ELSE 0
          [] cause = "capex" -> If(At(m["cf.capex"], keys[i]), -At(m["cf.capex"], keys[i]).val)
          [] cause = "dividends" -> If(At(m["cf.dividends"], keys[i]), At(m["cf.dividends"], keys[i]).val)
          [] cause = "wc_ar" -> Grown("bs.ar", i)
          [] cause = "wc_ap" -> Grown("bs.ap", i)
      Sum(n) == Total([i \in DOMAIN keys |-> i],
                      LAMBDA i : IF keys[i] \in flagged THEN Score(Causes[n], i) ELSE 0)
  IN  Causes[Least({n \in 1..5 : \A o \in 1..5 : Sum(o) <= Sum(n)})]

F04(m) ==
  LET ni   == m["pnl.net_income"]
      keys == YearKeys(<<ni>>)
      Cfo(k) == At(m["cf.cfo"], k)
      Refs(k) == Cells(At(ni, k)) \cup Cells(FcfAt(m, k)) \cup FirstCell(Cfo(k))
      Red(k) == /\ IsForecast(ni, k)
                /\ At(ni, k).known /\ At(ni, k).val >= 0
                /\ FcfAt(m, k).known /\ FcfAt(m, k).val < 0
      red  == {k \in Members(keys) : Red(k)}
      Diverged(p) == IF /\ \A k \in Members(p) : Cfo(k).known /\ FcfAt(m, k).known
                        /\ Cfo(p[2]).val > Cfo(p[1]).val /\ FcfAt(m, p[2]).val < FcfAt(m, p[1]).val
                     THEN Refs(p[2]) ELSE {}
      apart == FirstHit(Pairs(keys), Diverged)
  IN  IF FcfSource = "missing" \/ keys = <<>> THEN Insufficient
      ELSE Finish(IF Cardinality(red) < 2 /\ apart = {} THEN {} ELSE UNION {Refs(k) : k \in red} \cup apart,
                  "cash_conversion", "medium", IF FcfSource = "derived" THEN "medium" ELSE "high",
                  CashCause(m, keys, IF red = {} THEN Members(keys) ELSE red))

(* Over the forecast revenue is up a fifth, FCF down a fifth or gone below zero. *)
Decoupled(m, plan) ==
  LET r == m["pnl.revenue"]
      n == Len(plan)
      R(i) == At(r, plan[i])
      F(i) == FcfAt(m, plan[i])
      gone == F(1).val >= 0 /\ \A i \in {n - 1, n} : F(i).known /\ F(i).val < 0
      worse == F(1).val # 0 /\ AtMost(Change(F(1).val, F(n).val), FcfDrop)
      up   == AtMost(RevLift, Change(R(1).val, R(n).val))
  IN  IF FcfSource = "missing" \/ n < 2 THEN Insufficient
      ELSE IF ~(R(1).known /\ R(n).known /\ R(1).val # 0 /\ F(1).known /\ F(n).known) THEN Insufficient
      ELSE Flag(IF up /\ (worse \/ gone)
                THEN UNION {Cells(At(r, k)) \cup Cells(FcfAt(m, k)) \cup FirstCell(At(m["cf.capex"], k)) :
                              k \in {plan[1], plan[n]}}
                ELSE {}, "economic_logic", "medium")

F12(m) ==
  LET r == m["pnl.revenue"]
      keys == YearKeys(<<r>>)
  IN  Decoupled(m, Among(keys, {k \in Members(keys) : IsForecast(r, k)}))

(* The first year that pays dividends out of a negative FCF; high when it  *)
(* borrows more than it repays.                                            *)
PaidOut(m, paying) ==
  LET k == paying[1]
      Draw == At(m["cf.drawdown"], k)
      Repay == At(m["cf.repayment"], k)
  IN  IF paying = <<>> THEN Flag({}, "dividend_policy", "high")
      ELSE Flag(Cells(At(m["cf.dividends"], k)) \cup Cells(FcfAt(m, k)) \cup FirstCell(Draw) \cup FirstCell(Repay),
                "dividend_policy", IF Draw.val > Repay.val THEN "high" ELSE "medium")

F13(m) ==
  LET d == m["cf.dividends"]
      keys == YearKeys(<<d>>)
      Paid(k) == At(d, k).known /\ At(d, k).val > 0 /\ FcfAt(m, k).known /\ FcfAt(m, k).val < 0
  IN  IF FcfSource = "missing" \/ keys = <<>> THEN Insufficient
      ELSE PaidOut(m, Among(keys, {k \in Members(keys) : Paid(k)}))

-----------------------------------------------------------------------------
(* F05 working capital *)

WorkingCapital == {"bs.ar", "bs.inventory", "bs.ap"}

(* Days of a stock in a flow, at the years with both: of the last fact,    *)
(* and the first plan that is fifteen days above it.                       *)
DaysLifted(s, f) ==
  LET Days(k) == Frac(365 * At(s, k).val, At(f, k).val)
      Usable(k) == At(s, k).known /\ At(f, k).known /\ At(f, k).val # 0
      keys == YearKeys(<<s, f>>)
      Band(role) == Among(keys, {k \in Members(keys) : Usable(k) /\ RoleIn(s, k) = role})
      Lifted(fact, k) == AtMost(DaysLift, Minus(Days(k), Days(fact[Len(fact)])))
      First(fact, plan) == FirstHit(plan, LAMBDA k : IF Lifted(fact, k) THEN Cells(At(s, k)) \cup Cells(At(f, k)) ELSE {})
  IN  IF Absent(s) \/ Absent(f) THEN {}
      ELSE IF Band("historical") = <<>> THEN {} ELSE First(Band("historical"), Band("forecast"))

(* Years whose receivables grow by over 0.3 of the growth of revenue, each *)
(* against the last earlier amount known.                                  *)
ReceivablesOutrun(a, r, keys) ==
  LET Known1(l, i) == At(l, keys[i]).known
      Earlier(l, i) == {j \in 1..(i - 1) : Known1(l, j)}
      Rise(l, i) == At(l, keys[i]).val - At(l, keys[Greatest(Earlier(l, i))]).val
      Outrun(i) == /\ \A l \in {a, r} : Known1(l, i) /\ Earlier(l, i) # {}
                   /\ Rise(r, i) > 0 /\ 10 * Rise(a, i) > 3 * Rise(r, i)
  IN  UNION {Cells(At(a, keys[i])) \cup Cells(At(r, keys[i])) : i \in {j \in DOMAIN keys : Outrun(j)}}

F05(m) ==
  IF Cardinality({c \in WorkingCapital : Mapped(c)}) < 2 THEN NotApplicable
  ELSE Flag(DaysLifted(m["bs.ar"], m["pnl.revenue"]) \cup DaysLifted(m["bs.inventory"], m["pnl.cogs"])
              \cup DaysLifted(m["bs.ap"], m["pnl.cogs"]) \cup ReceivablesOutrun(m["bs.ar"], m["pnl.revenue"], YearKeys(<<m["bs.ar"], m["pnl.revenue"]>>)),
            "cash_conversion", "medium")

-----------------------------------------------------------------------------
(* F06 leverage, F07 coverage, F14 headroom *)

(* Net debt over EBITDA, at the years with a positive EBITDA. *)
LeverageKeys(d, e) ==
  LET keys == YearKeys(<<d, e>>)
  IN  Among(keys, {k \in Members(keys) : At(d, k).known /\ At(e, k).known /\ At(e, k).val > 0})
Leverage(d, e, c, k) ==
  LET cash == At(c, k)
      net  == At(d, k).val - (IF cash.known THEN cash.val ELSE 0)
  IN  Frac(net, At(e, k).val)

Leveraged(m, keys) ==
  LET d == m["bs.debt"]
      e == m["pnl.ebitda"]
      Ratio(i) == Leverage(d, e, m["bs.cash"], keys[i])
      High(i) == \/ AtMost(LeverageCeiling, Ratio(i))
                 \/ i > 1 /\ AtMost(LeverageJump, Minus(Ratio(i), Ratio(i - 1)))
      Refs(i) == IF High(i) THEN Cells(At(d, keys[i])) \cup Cells(At(e, keys[i]))
                                   \cup FirstCell(At(m["bs.cash"], keys[i]))
                 ELSE {}
  IN  IF keys = <<>> THEN Insufficient
      ELSE Finish(FirstHit([i \in DOMAIN keys |-> i], Refs), "leverage", "medium", "medium", "")

F06(m) == Leveraged(m, LeverageKeys(m["bs.debt"], m["pnl.ebitda"]))

(* The first index of the lowest fraction. *)
Lowest(s) == Least({i \in DOMAIN s : \A j \in DOMAIN s : AtMost(s[i], s[j])})

(* The lowest of a coverage row, when below one: its cells.  The row's     *)
(* numbers are in hundredths.                                              *)
LowestCover(r, keys) ==
  LET low == keys[Lowest([i \in DOMAIN keys |-> <<At(r, keys[i]).val, 100>>])]
  IN  IF keys = <<>> THEN {}
      ELSE IF Below(<<At(r, low).val, 100>>, IcrHigh) THEN Cells(At(r, low)) ELSE {}

CoverageGap(r) ==
  LET keys == YearKeys(<<r>>)
  IN  IF Absent(r) THEN {} ELSE LowestCover(r, Among(keys, {k \in Members(keys) : At(r, k).known}))

CoverageGaps(m) == UNION {CoverageGap(m[c]) : c \in {"cov.dscr", "cov.llcr", "cov.plcr"}}

IcrKeys(e, i) ==
  LET keys == YearKeys(<<e, i>>)
  IN  Among(keys, {k \in Members(keys) : At(e, k).known /\ At(i, k).known /\ At(i, k).val # 0})

(* The year with the lowest EBITDA over interest, when below one and a half. *)
ThinCover(e, i, keys) ==
  LET Icr(k) == Frac(At(e, k).val, Abs(At(i, k).val))
      low == keys[Lowest([n \in DOMAIN keys |-> Icr(keys[n])])]
      thin == IF keys = <<>> THEN FALSE ELSE Below(Icr(low), IcrFloor)
  IN  [refs |-> IF thin THEN Cells(At(e, low)) \cup Cells(At(i, low)) ELSE {},
       short |-> thin /\ Below(Icr(low), IcrHigh)]

Covered(gaps, thin) ==
  Flag(gaps \cup thin.refs, "leverage", IF gaps # {} \/ thin.short THEN "high" ELSE "medium")

F07(m) == Covered(CoverageGaps(m), ThinCover(m["pnl.ebitda"], m["pnl.interest"],
                                             IcrKeys(m["pnl.ebitda"], m["pnl.interest"])))

F14(m) ==
  LET h == m["covenant.headroom"]
      slots == KnownSlots(FinestSlots(h))
      gone == {ref \in {s.cell : s \in Members(slots)} : Val(ref) <= 0}
  IN  IF Absent(h) \/ slots = <<>> THEN Insufficient
      ELSE Flag(gone, "leverage", "high")

-----------------------------------------------------------------------------
(* F08 liquidity, F09 repayments, F10 rates: on the finest axis *)

F08(m) ==
  LET c == m["bs.cash"]
      slots == KnownSlots(MonthSlots(c))
      cells == {s.cell : s \in Members(slots)}
      vals == {Val(ref) : ref \in cells}
      sum == Total(slots, LAMBDA s : Val(s.cell))
      flat == 100 * Len(slots) * (Greatest(vals) - Least(vals)) <= Larger(100 * Len(slots), Abs(sum))
      Draw(s) == At(m["cf.drawdown"], s.key)
      drawn == {s \in Members(slots) : Draw(s).known /\ Draw(s).val > 0}
      overdrawn == {ref \in cells : Val(ref) < 0}
  IN  IF slots = <<>> THEN Insufficient
      ELSE IF overdrawn # {} THEN Flag(overdrawn, "liquidity", "high")
      ELSE IF flat /\ drawn # {}
           THEN Finish(cells \cup UNION {FirstCell(Draw(s)) : s \in drawn}, "liquidity", "medium", "high", "cash_plug")
      ELSE Flag({}, "liquidity", "high")

(* The forecast year that repays most, against all forecast repayments. *)
F09(m) ==
  LET r == m["cf.repayment"]
      known == KnownSlots(MonthSlots(r))
      due == Among(known, {s \in Members(known) : IsForecast(r, s.key) /\ Val(s.cell) > 0})
      In(y) == Among(due, {s \in Members(due) : Year(s.key) = y})
      Repaid(slots) == Total(slots, LAMBDA s : Val(s.cell))
      years == {Year(s.key) : s \in Members(due)}
      top == Least({y \in years : \A z \in years : Repaid(In(z)) <= Repaid(In(y))})
  IN  IF due = <<>> THEN Insufficient
      ELSE Flag(IF AtMost(RepayShare, <<Repaid(In(top)), Repaid(due)>>)
                THEN {s.cell : s \in Members(In(top))} ELSE {},
                "refinancing", "medium")

F10(m) ==
  LET fx == m["fx.rate"]
  IN  IF Absent(fx) \/ KnownSlots(FinestSlots(fx)) = <<>> THEN Insufficient
      ELSE Flag({}, "assumptions", "medium")

-----------------------------------------------------------------------------
(* The router *)

Controls == {"F01", "F02", "F03", "F04", "F05", "F06", "F07", "F08", "F09", "F10",
             "F11", "F12", "F13", "F14"}

Needs ==
  [f \in Controls |->
     CASE f \in {"F01", "F11", "F12"} -> <<"pnl.revenue">>
       [] f = "F02" -> <<"pnl.ebitda", "pnl.revenue">>
       [] f = "F03" -> <<"pnl.ebitda">>
       [] f = "F04" -> <<"pnl.net_income">>
       [] f = "F05" -> <<"bs.ar", "pnl.revenue">>
       [] f = "F06" -> <<"bs.debt", "pnl.ebitda">>
       [] f = "F07" -> <<"pnl.ebitda", "pnl.interest">>
       [] f \in {"F08", "F14"} -> <<"bs.cash">>
       [] f = "F09" -> <<"cf.repayment">>
       [] f = "F10" -> <<"pnl.interest">>
       [] f = "F13" -> <<"cf.dividends">>]

Handle(m, f) ==
  CASE f = "F01" -> F01(m) [] f = "F02" -> F02(m) [] f = "F03" -> F03(m) [] f = "F04" -> F04(m)
    [] f = "F05" -> F05(m) [] f = "F06" -> F06(m) [] f = "F07" -> F07(m) [] f = "F08" -> F08(m)
    [] f = "F09" -> F09(m) [] f = "F10" -> F10(m) [] f = "F11" -> F11(m) [] f = "F12" -> F12(m)
    [] f = "F13" -> F13(m) [] f = "F14" -> F14(m)

Decided == {"clear", "flagged"}

(* A broken identity makes the controls it feeds unsure; years made of     *)
(* months are at best medium evidence.                                     *)
LowControls(broken) ==
  (IF "I1" \in broken THEN {"F06", "F08"} ELSE {}) \cup (IF "I3a" \in broken THEN {"F04", "F08"} ELSE {})
    \cup (IF broken \cap {"I3b", "I13"} # {} THEN {"F13"} ELSE {})

Capped(f, result, broken, coarse) ==
  CASE result.status \notin Decided -> result
    [] f \in LowControls(broken)   -> [result EXCEPT !.confidence = "low"]
    [] coarse                      -> [result EXCEPT !.confidence = "medium"]
    [] OTHER                       -> result

Control(m, f, broken) ==
  IF \A c \in Members(Needs[f]) : Mapped(c)
  THEN Capped(f, Handle(m, f), broken,
              f \notin {"F08", "F09"} /\ FromMonths([i \in DOMAIN Needs[f] |-> m[Needs[f][i]]]))
  ELSE NotApplicable

Controlled(m, broken) == [f \in Controls |-> Control(m, f, broken)]
FrsResults(broken) == Controlled(Lines, broken)
=============================================================================
