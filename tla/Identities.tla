------------------------------- MODULE Identities -----------------------------
(***************************************************************************)
(* detect_identities: the accounting identities I1..I13 over the mapped    *)
(* totals.  A candidate is an identity that does not hold at one period,   *)
(* with every cell the comparison read.                                    *)
(*                                                                         *)
(* Numbers are exact integers of the workbook's unit, where the code has   *)
(* floats; a rate's cell is in hundredths (0.12 is 12, "12 %" is 1200).    *)
(***************************************************************************)
EXTENDS Workbook

(* mutant: an absolute floor only *)
OffFlat(gap, size, unit) == Abs(gap) > 100 * unit

(* |gap| above both one unit and a thousandth of size; the numbers carry a *)
(* common factor `unit'.                                                   *)
Off(gap, size, unit) == 1000 * Abs(gap) > Larger(1000 * unit, size)

(* mutant: the earliest cell, a balance carried forward, is not cited *)
MismatchUncited(detector, refs, key) ==
  [detector |-> detector, key |-> key,
   refs |-> refs \ {CHOOSE p \in refs : \A q \in refs : p[2] <= q[2]}]

Mismatch(detector, refs, key) == [detector |-> detector, refs |-> refs, key |-> key]

(* Where the identity is checked: each block that has all it needs, else   *)
(* the whole book when it has.                                             *)
Groups(needed) ==
  LET found == {b \in Blocks : \A c \in needed : TotalIn(b, c) # NoRow}
  IN  IF found # {} THEN found
      ELSE IF \A c \in needed : Mapped(c) THEN {WholeBook} ELSE {}

(* An optional row: the group's, else the book's. *)
Optional(g, c) == IF TotalIn(g, c) # NoRow THEN TotalIn(g, c) ELSE BookTotal(c)

-----------------------------------------------------------------------------
(* Identities at one date *)

(* The rows' cells at a date, and the numbers of cells. *)
CellsAt(rs, k) == [i \in DOMAIN rs |-> CellAt(rs[i], k, SnapshotRoles)]
Numbers(refs)  == [i \in DOMAIN refs |-> Val(refs[i])]
AllKnown(refs) == \A ref \in refs : Known(ref)

(* The rows' cells at each common date, where all are known; v[i] is the   *)
(* number of rs[i].                                                        *)
Snapshot(detector, rs, Gap(_), Size(_)) ==
  LET Wrong(k) == /\ AllKnown(Members(CellsAt(rs, k)))
                  /\ LET v == Numbers(CellsAt(rs, k)) IN Off(Gap(v), Size(v), 1)
  IN  {Mismatch(detector, Members(CellsAt(rs, k)), k) :
         k \in {j \in Members(Aligned(rs, SnapshotRoles)) : Wrong(j)}}

RowsIn(g, cs) == [i \in DOMAIN cs |-> TotalIn(g, cs[i])]

Tie(detector, cs, Gap(_), Size(_)) ==
  UNION {Snapshot(detector, RowsIn(g, cs), Gap, Size) : g \in Groups(Members(cs))}

FirstTwo(v) == Larger(Abs(v[1]), Abs(v[2]))

BalanceSheet == Tie("I1", <<"bs.assets_total", "bs.equity", "bs.liabilities">>,
                    LAMBDA v : v[1] - (v[2] + v[3]), LAMBDA v : Abs(v[1]))

Difference(v) == v[1] - (v[2] - v[3])
GrossProfit == Tie("I5", <<"pnl.gross_profit", "pnl.revenue", "pnl.cogs">>, Difference, FirstTwo)
OperatingProfit == Tie("I7", <<"pnl.ebit", "pnl.ebitda", "pnl.da">>, Difference, FirstTwo)

Ebitda == Tie("I6", <<"pnl.ebitda", "pnl.revenue", "pnl.cogs", "pnl.opex">>,
              LAMBDA v : v[1] - (v[2] - v[3] - v[4]), FirstTwo)

Sold(v) == Abs(v[2]) * Abs(v[3])
VolumePrice == Tie("I4", <<"pnl.revenue", "pnl.volume", "pnl.price">>,
                   LAMBDA v : Abs(v[1]) - Sold(v), LAMBDA v : Larger(Abs(v[1]), Sold(v)))

AddBack == Tie("I8", <<"pnl.da", "cf.da">>, LAMBDA v : Abs(v[1]) - Abs(v[2]), FirstTwo)

(* One concept's totals on two sheets, at the same date. *)
AcrossSheets(detector, c) ==
  UNION {Snapshot(detector, pair, LAMBDA v : v[1] - v[2], FirstTwo) :
           pair \in {p \in SheetTotals(c) \X SheetTotals(c) : p[1] < p[2]}}

(* A rate above one hundred percent is written in percent. *)
AsRate(raw) == IF Abs(raw) > 100 THEN raw \div 100 ELSE raw

(* Tax and deferred tax are the rate of the profit before them.  The       *)
(* deferred row counts at the dates it has, and must be known there.       *)
Tax ==
  LET At(r, k) == CellAt(r, k, SnapshotRoles)
      Deferred(g) == Optional(g, "pnl.deferred_tax")
      Extra(g, k) == Deferred(g) # NoRow /\ k \in DOMAIN AxisCols(Deferred(g), SnapshotRoles)
      Read(g, rs, k) == Members(CellsAt(rs, k)) \cup (IF Extra(g, k) THEN {At(Deferred(g), k)} ELSE {})
      Wrong(g, rs, k) ==
        /\ AllKnown(Read(g, rs, k))
        /\ LET tax == Val(At(rs[1], k)) + (IF Extra(g, k) THEN Val(At(Deferred(g), k)) ELSE 0)
               due == Abs(AsRate(Val(At(rs[3], k)))) * (Abs(Val(At(rs[2], k))) + Abs(tax))
           IN  Off(100 * Abs(tax) - due, Larger(100 * Abs(tax), due), 100)
      In(g) == LET rs == RowsIn(g, <<"pnl.tax", "pnl.net_income", "pnl.tax_rate">>)
               IN  {Mismatch("I12", Read(g, rs, k), k) :
                      k \in {j \in Members(Aligned(rs, SnapshotRoles)) : Wrong(g, rs, j)}}
  IN  UNION {In(g) : g \in Groups({"pnl.tax", "pnl.net_income", "pnl.tax_rate"})}

-----------------------------------------------------------------------------
(* Identities between consecutive dates *)

(* mutant: what is paid out is added *)
PartUnsigned(way, v) == IF way \in {"in", "out"} THEN v ELSE Abs(v)

(* What a flow adds to the stock. *)
Part(way, v) == CASE way = "in"   -> v       [] way = "out"  -> -v
                  [] way = "grow" -> Abs(v)  [] way = "wear" -> -Abs(v)

Flow(row, way) == [row |-> row, way |-> way]
FlowCell(f, k) == CellAt(f.row, k, PeriodRoles)

(* The flows that have a date: their cells, and what they add to the stock. *)
HasDate(f, k) == f.row # NoRow /\ k \in DOMAIN AxisCols(f.row, PeriodRoles)
FlowCells(flows, k) == {FlowCell(f, k) : f \in {g \in Members(flows) : HasDate(g, k)}}
FlowSum(flows, k) ==
  SumOf([i \in DOMAIN flows |->
           IF HasDate(flows[i], k) THEN Part(flows[i].way, Val(FlowCell(flows[i], k))) ELSE 0])

(* mutant: the balance is not carried over the turn of the year *)
StepsWithinYear(rs) ==
  LET keys == Aligned(rs, PeriodRoles)
  IN  {s \in {<<keys[i], keys[i + 1]>> : i \in 1..(Len(keys) - 1)} : Year(s[1]) = Year(s[2])}

(* Pairs of a date and the next, common to the rows. *)
Steps(rs) == LET keys == Aligned(rs, PeriodRoles)
             IN  {<<keys[i], keys[i + 1]>> : i \in 1..(Len(keys) - 1)}

(* closing = opening + flows.  The dates are those of the stock and of the *)
(* flows in `must'; a flow in `may' counts at the dates it has.  A cell    *)
(* without a number leaves the date unchecked.                             *)
RollForward(detector, stock, must, may) ==
  LET flows == must \o may
      Open(s)  == CellAt(stock, s[1], PeriodRoles)
      Close(s) == CellAt(stock, s[2], PeriodRoles)
      Read(s)  == {Open(s), Close(s)} \cup FlowCells(flows, s[2])
      Expected(s) == Val(Open(s)) + FlowSum(flows, s[2])
      Wrong(s) == /\ AllKnown(Read(s))
                  /\ Off(Val(Close(s)) - Expected(s), Larger(Abs(Val(Open(s))), Abs(Val(Close(s)))), 1)
      rs == <<stock>> \o [i \in DOMAIN must |-> must[i].row]
  IN  {Mismatch(detector, Read(s), s[2]) : s \in {t \in Steps(rs) : Wrong(t)}}

(* Cash flows come from the mapped FCF, else from CFO and capex when the   *)
(* book maps no financing flow.                                            *)
CashGroups ==
  LET mapped == Groups({"bs.cash", "cf.fcf"})
      financing == {"cf.drawdown", "cf.repayment", "cf.dividends", "cf.equity_issue"}
  IN  IF mapped # {} THEN {<<g, <<"cf.fcf">>>> : g \in mapped}
      ELSE IF \E c \in financing : Mapped(c) THEN {}
      ELSE {<<g, <<"cf.cfo", "cf.capex">>>> : g \in Groups({"bs.cash", "cf.cfo", "cf.capex"})}

CashMoves ==
  LET Fx(g) == IF Optional(g, "fx.cash") = NoRow THEN <<>>
               ELSE <<Flow(Optional(g, "fx.cash"), "in")>>
      Flows(g, cs) == [i \in DOMAIN cs |-> Flow(TotalIn(g, cs[i]), "in")] \o Fx(g)
  IN  UNION {RollForward("I3a", TotalIn(p[1], "bs.cash"), Flows(p[1], p[2]), <<>>) : p \in CashGroups}

Cash == CashMoves \cup AcrossSheets("I3a", "bs.cash")

RetainedEarnings ==
  UNION {RollForward("I3b", TotalIn(g, "bs.retained_earnings"),
                     <<Flow(TotalIn(g, "pnl.net_income"), "in")>>,
                     <<Flow(Optional(g, "cf.dividends"), "out"), Flow(Optional(g, "bs.re_adj"), "in")>>) :
           g \in Groups({"bs.retained_earnings", "pnl.net_income"})}

Equity ==
  UNION {RollForward("I13", TotalIn(g, "bs.equity"),
                     <<Flow(TotalIn(g, "pnl.net_income"), "in")>>,
                     <<Flow(TotalIn(g, "cf.dividends"), "out"),
                       Flow(Optional(g, "cf.equity_issue"), "in"), Flow(Optional(g, "fx.equity"), "in")>>) :
           g \in Groups({"bs.equity", "pnl.net_income", "cf.dividends"})}

(* Debt and fixed assets are checked only with one of their flows mapped. *)
StockMoves(detector, stock, flows, fx) ==
  UNION {LET Row(f) == Optional(g, f[1])
         IN  IF \A i \in DOMAIN flows : Row(flows[i]) = NoRow THEN {}
             ELSE RollForward(detector, TotalIn(g, stock), <<>>,
                    [i \in DOMAIN flows |-> Flow(Row(flows[i]), flows[i][2])]
                      \o <<Flow(Optional(g, fx), "in")>>) :
           g \in Groups({stock})}

StockWith(detector, stock, flows, fx) ==
  StockMoves(detector, stock, flows, fx) \cup AcrossSheets(detector, stock)

Debt == StockWith("I10", "bs.debt", <<<<"cf.drawdown", "in">>, <<"cf.repayment", "out">>>>, "fx.debt")
FixedAssets == StockWith("I8b", "bs.ppe", <<<<"cf.capex", "grow">>, <<"pnl.da", "wear">>>>, "fx.ppe")

(* CFO from net income, depreciation and the change of working capital.  A *)
(* stock that lacks one of the two dates leaves the date unchecked.        *)
IndirectCfo ==
  LET Da(g) == <<Flow(Optional(g, "pnl.da"), "in")>>
      Stocks(g) == <<Flow(Optional(g, "bs.ar"), "out"), Flow(Optional(g, "bs.inventory"), "out"),
                     Flow(Optional(g, "bs.ap"), "in")>>
      Adjusted(g) == \E f \in Members(Da(g) \o Stocks(g)) : f.row # NoRow
      Dated(g, s) == \A f \in Members(Stocks(g)) : f.row # NoRow => HasDate(f, s[1]) /\ HasDate(f, s[2])
      Net(g, s) == CellAt(TotalIn(g, "pnl.net_income"), s[2], PeriodRoles)
      Got(g, s) == CellAt(TotalIn(g, "cf.cfo"), s[2], PeriodRoles)
      Read(g, s) == {Net(g, s), Got(g, s)} \cup FlowCells(Da(g), s[2])
                      \cup FlowCells(Stocks(g), s[1]) \cup FlowCells(Stocks(g), s[2])
      Gap(g, s) == Val(Got(g, s)) - Val(Net(g, s)) - FlowSum(Da(g), s[2])
                     - (FlowSum(Stocks(g), s[2]) - FlowSum(Stocks(g), s[1]))
      Size(g, s) == Larger(Abs(Val(Got(g, s))), Abs(Val(Net(g, s))))
      Wrong(g, s) == Dated(g, s) /\ AllKnown(Read(g, s)) /\ Off(Gap(g, s), Size(g, s), 1)
      In(g) == {Mismatch("I9", Read(g, s), s[2]) :
                  s \in {t \in Steps(<<TotalIn(g, "pnl.net_income"), TotalIn(g, "cf.cfo")>>) : Wrong(g, t)}}
  IN  UNION {In(g) : g \in {h \in Groups({"pnl.net_income", "cf.cfo"}) : Adjusted(h)}}

(* A yearly rate: a twelfth of it on a monthly axis. *)
RatePeriods(k) == IF IsMonth(k) THEN 12 ELSE 1

(* Interest is the rate of the average debt; both sides times 200 periods. *)
Interest ==
  LET In(g) ==
        LET rs == RowsIn(g, <<"pnl.interest", "bs.debt", "pnl.interest_rate">>)
            At(i, k) == CellAt(rs[i], k, PeriodRoles)
            Read(s) == {At(1, s[2]), At(2, s[1]), At(2, s[2]), At(3, s[2])}
            Wrong(s) ==
              LET unit == 200 * RatePeriods(s[2])
                  paid == unit * Abs(Val(At(1, s[2])))
                  due  == Abs(AsRate(Val(At(3, s[2])))) * (Abs(Val(At(2, s[1]))) + Abs(Val(At(2, s[2]))))
              IN  AllKnown(Read(s)) /\ Off(paid - due, Larger(paid, due), unit)
        IN  {Mismatch("I11", Read(s), s[2]) : s \in {t \in Steps(rs) : Wrong(t)}}
  IN  UNION {In(g) : g \in Groups({"pnl.interest", "bs.debt", "pnl.interest_rate"})}

IdentityCandidates ==
  UNION {BalanceSheet, Cash, RetainedEarnings, Equity, VolumePrice, GrossProfit, Ebitda,
         OperatingProfit, IndirectCfo, Debt, Interest, Tax, AddBack, FixedAssets}

-----------------------------------------------------------------------------
(* Questions about concepts an identity lacks *)

Lacking(name, needed) ==
  LET missing == {c \in needed : ~Mapped(c)}
  IN  IF missing = {} THEN <<>> ELSE <<[identity |-> name, missing |-> missing]>>

AskIf(condition, name, needed) == IF condition THEN Lacking(name, needed) ELSE <<>>

(* Exactly one of the concepts is missing. *)
OneShort(name, cs) ==
  AskIf(Cardinality({c \in cs : ~Mapped(c)}) = 1, name, cs)

(* In the order they are asked. *)
IdentityQuestions ==
  LET nice  == {"pnl.da", "bs.ar", "bs.inventory", "bs.ap"}
      loans == {"cf.drawdown", "cf.repayment"}
      wear  == {"cf.capex", "pnl.da"}
      None(cs) == \A c \in cs : ~Mapped(c)
  IN  Lacking("I1", {"bs.assets_total", "bs.equity", "bs.liabilities"})
        \o Lacking("I3a", {"bs.cash"})
        \o Lacking("I3b", {"bs.retained_earnings", "pnl.net_income"})
        \o AskIf(Mapped("cf.dividends"), "I13",
                 IF Mapped("bs.equity") THEN {"pnl.net_income"} ELSE {"bs.equity"})
        \o OneShort("I4", {"pnl.revenue", "pnl.volume", "pnl.price"})
        \o Lacking("I5", {"pnl.gross_profit", "pnl.revenue", "pnl.cogs"})
        \o Lacking("I7", {"pnl.ebit", "pnl.ebitda", "pnl.da"})
        \o Lacking("I9", {"pnl.net_income", "cf.cfo"})
        \o AskIf(Mapped("pnl.net_income") /\ Mapped("cf.cfo") /\ None(nice), "I9", nice)
        \o Lacking("I10", {"bs.debt"})
        \o AskIf(Mapped("bs.debt") /\ None(loans), "I10", loans)
        \o Lacking("I11", {"pnl.interest", "bs.debt", "pnl.interest_rate"})
        \o Lacking("I12", {"pnl.tax", "pnl.net_income", "pnl.tax_rate"})
        \o OneShort("I8", {"pnl.da", "cf.da"})
        \o AskIf(Mapped("bs.ppe") /\ None(wear), "I8b", wear)
        \o AskIf(~Mapped("bs.ppe") /\ ~None(wear), "I8b", {"bs.ppe"})
=============================================================================
