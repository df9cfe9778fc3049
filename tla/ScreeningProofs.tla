---------------------------- MODULE ScreeningProofs ---------------------------
(***************************************************************************)
(* The findings of the identities are local: what an identity says of a    *)
(* date depends on the numbers of the cells it cites and on nothing else,  *)
(* so one that cites none of the cells an edit touches stands as it did.   *)
(* EditsExplained follows, for every workbook.                             *)
(*                                                                         *)
(* Which rows and dates an identity compares depends on the layout and the *)
(* mapping alone (AxesStay, TotalsStay); it compares only where every cell *)
(* it cites has a number (NumbersStay, FlowsStay).                         *)
(***************************************************************************)
EXTENDS Screening, FiniteSetTheorems, SequenceTheorems, TLAPS

(* A step that changes no more of the workbook than numbers in P. *)
Edited(P) ==
  /\ book'.axis = book.axis /\ book'.rows = book.rows /\ book'.sheet = book.sheet
  /\ DOMAIN book'.val = DOMAIN book.val
  /\ \A q \in DOMAIN book.val \ P : book'.val[q] = book.val[q]

(* The columns of a row, its cells and the dates rows have in common.      *)
LEMMA AxesStay ==
  ASSUME NEW P, Edited(P)
  PROVE  /\ \A r, roles : AxisCols(r, roles)' = AxisCols(r, roles)
         /\ \A r, k, roles : CellAt(r, k, roles)' = CellAt(r, k, roles)
         /\ \A rs, roles : Aligned(rs, roles)' = Aligned(rs, roles)
         /\ \A rs : Steps(rs)' = Steps(rs)
<1>1. \A r, roles : AxisCols(r, roles)' = AxisCols(r, roles)
  BY DEF Edited, AxisCols, AxisOf
<1>2. \A r, k, roles : CellAt(r, k, roles)' = CellAt(r, k, roles)
  BY <1>1 DEF CellAt
<1>3. ASSUME NEW rs, NEW roles PROVE Aligned(rs, roles)' = Aligned(rs, roles)
  BY <1>1 DEF Aligned
<1>4. ASSUME NEW rs PROVE Steps(rs)' = Steps(rs)
  BY <1>3 DEF Steps
<1> QED
  BY <1>1, <1>2, <1>3, <1>4

(* The rows that stand for the concepts, and where identities are checked. *)
LEMMA TotalsStay ==
  ASSUME NEW P, Edited(P)
  PROVE  /\ \A c : RowsOf(c)' = RowsOf(c)
         /\ \A c : Mapped(c)' = Mapped(c)
         /\ \A g, c : TotalIn(g, c)' = TotalIn(g, c)
         /\ \A c : SheetTotals(c)' = SheetTotals(c)
         /\ \A cs : Groups(cs)' = Groups(cs)
         /\ \A g, c : Optional(g, c)' = Optional(g, c)
         /\ \A g, cs : RowsIn(g, cs)' = RowsIn(g, cs)
<1>1. \A c : RowsOf(c)' = RowsOf(c)
  BY DEF Edited, RowsOf, Rows
<1>2. \A c : Mapped(c)' = Mapped(c)
  BY <1>1 DEF Mapped
<1>3. \A rs : Representative(rs)' = Representative(rs)
  BY DEF Edited, Representative
<1>4. ASSUME NEW g, NEW c PROVE TotalIn(g, c)' = TotalIn(g, c)
  <2>1. {r \in RowsOf(c) : g = WholeBook \/ book.rows[r].block = g}'
          = {r \in RowsOf(c) : g = WholeBook \/ book.rows[r].block = g}
    BY <1>1 DEF Edited
  <2> QED  BY <2>1, <1>3 DEF TotalIn
<1>5. ASSUME NEW c PROVE SheetTotals(c)' = SheetTotals(c)
  <2> DEFINE On(s) == {r \in RowsOf(c) : book.sheet[book.rows[r].block] = s}
             sheets == {book.sheet[book.rows[r].block] : r \in RowsOf(c)}
  <2>1. \A s : On(s)' = On(s)
    BY <1>1 DEF Edited
  <2>2. sheets' = sheets
    BY <1>1 DEF Edited
  <2>3. SheetTotals(c) = {Representative(On(s)) : s \in sheets}
    BY DEF SheetTotals
  <2>4. SheetTotals(c)' = {Representative(On(s)) : s \in sheets}'
    BY DEF SheetTotals
  <2> HIDE DEF On, sheets
  <2> QED  BY <2>1, <2>2, <2>3, <2>4, <1>3
<1>6. ASSUME NEW cs PROVE Groups(cs)' = Groups(cs)
  BY <1>2, <1>4 DEF Groups, Blocks, Edited
<1>7. \A g, c : Optional(g, c)' = Optional(g, c)
  BY <1>4 DEF Optional, BookTotal
<1>8. \A g, cs : RowsIn(g, cs)' = RowsIn(g, cs)
  BY <1>4 DEF RowsIn
<1> QED
  BY <1>1, <1>2, <1>4, <1>5, <1>6, <1>7, <1>8

(* The candidate cites no cell of P. *)
Apart(c, P) == \A p \in P : p \notin c.refs

(* Which cells have numbers stays, and so do the numbers outside P.        *)
LEMMA NumbersStay ==
  ASSUME NEW P, Edited(P)
  PROVE  /\ \A refs : AllKnown(refs)' <=> AllKnown(refs)
         /\ \A ref : Known(ref) /\ ref \notin P => Val(ref)' = Val(ref)
         /\ \A s : AllKnown(Members(s)) /\ (\A p \in P : p \notin Members(s)) => Numbers(s)' = Numbers(s)
         /\ \A rs, k : CellsAt(rs, k)' = CellsAt(rs, k)
<1>1. \A refs : AllKnown(refs)' <=> AllKnown(refs)
  BY DEF AllKnown, Known, Edited
<1>2. \A ref : Known(ref) /\ ref \notin P => Val(ref)' = Val(ref)
  BY DEF Known, Val, Edited
<1>3. ASSUME NEW s, AllKnown(Members(s)), \A p \in P : p \notin Members(s)
      PROVE  Numbers(s)' = Numbers(s)
  BY <1>2, <1>3 DEF Numbers, AllKnown, Members
<1>4. \A rs, k : CellsAt(rs, k)' = CellsAt(rs, k)
  BY AxesStay DEF CellsAt
<1> QED
  BY <1>1, <1>2, <1>3, <1>4

(* The flows that count at a date, and their sum if it reads no cell of P. *)
LEMMA FlowsStay ==
  ASSUME NEW P, Edited(P)
  PROVE  /\ \A f, k : HasDate(f, k)' <=> HasDate(f, k)
         /\ \A fs, k : FlowCells(fs, k)' = FlowCells(fs, k)
         /\ \A fs, k : AllKnown(FlowCells(fs, k)) /\ (\A p \in P : p \notin FlowCells(fs, k))
                        => FlowSum(fs, k)' = FlowSum(fs, k)
<1>1. \A f, k : HasDate(f, k)' <=> HasDate(f, k)
  BY AxesStay DEF HasDate
<1>2. \A f, k : FlowCell(f, k)' = FlowCell(f, k)
  BY AxesStay DEF FlowCell
<1>3. \A fs, k : FlowCells(fs, k)' = FlowCells(fs, k)
  BY <1>1, <1>2 DEF FlowCells
<1>4. ASSUME NEW fs, NEW k, AllKnown(FlowCells(fs, k)), \A p \in P : p \notin FlowCells(fs, k)
      PROVE  FlowSum(fs, k)' = FlowSum(fs, k)
  <2> DEFINE Adds(i) == IF HasDate(fs[i], k) THEN Part(fs[i].way, Val(FlowCell(fs[i], k))) ELSE 0
  <2>1. ASSUME NEW i \in DOMAIN fs, HasDate(fs[i], k)
        PROVE  Val(FlowCell(fs[i], k))' = Val(FlowCell(fs[i], k))
    <3>1. FlowCell(fs[i], k) \in FlowCells(fs, k)
      BY <2>1 DEF FlowCells, Members
    <3> QED  BY <3>1, <1>2, <1>4, NumbersStay DEF AllKnown
  <2>2. \A i \in DOMAIN fs : Adds(i)' = Adds(i)
    BY <2>1, <1>1
  <2>3. [i \in DOMAIN fs |-> Adds(i)]' = [i \in DOMAIN fs |-> Adds(i)]
    BY <2>2
  <2> QED  BY <2>3 DEF FlowSum
<1> QED
  BY <1>1, <1>3, <1>4

(* A balance carried forward: the findings apart from P stay, whatever the *)
(* rows and flows.                                                         *)
LEMMA RollForwardLocal ==
  ASSUME NEW P, Edited(P), NEW detector, NEW stock, NEW must, NEW may, NEW c, Apart(c, P)
  PROVE  (c \in RollForward(detector, stock, must, may))' <=> c \in RollForward(detector, stock, must, may)
<1> DEFINE flows == must \o may
           Open(s) == CellAt(stock, s[1], PeriodRoles)
           Close(s) == CellAt(stock, s[2], PeriodRoles)
           Read(s) == {Open(s), Close(s)} \cup FlowCells(flows, s[2])
           Expected(s) == Val(Open(s)) + FlowSum(flows, s[2])
           Wrong(s) == /\ AllKnown(Read(s))
                       /\ Off(Val(Close(s)) - Expected(s), Larger(Abs(Val(Open(s))), Abs(Val(Close(s)))), 1)
           rs == <<stock>> \o [i \in DOMAIN must |-> must[i].row]
<1>1. \A s : Read(s)' = Read(s)
  BY AxesStay, FlowsStay
<1>2. ASSUME NEW s, \A p \in P : p \notin Read(s)
      PROVE  Wrong(s)' <=> Wrong(s)
  <2>1. CASE AllKnown(Read(s))
    <3>1. /\ Val(Open(s))' = Val(Open(s))
          /\ Val(Close(s))' = Val(Close(s))
      BY <2>1, <1>2, AxesStay, NumbersStay DEF AllKnown
    <3>2. FlowSum(flows, s[2])' = FlowSum(flows, s[2])
      BY <2>1, <1>2, FlowsStay DEF AllKnown
    <3> QED  BY <3>1, <3>2, <1>1, NumbersStay
  <2>2. CASE ~AllKnown(Read(s))
    BY <2>2, <1>1, NumbersStay
  <2> QED  BY <2>1, <2>2
<1>3. \A s : Mismatch(detector, Read(s), s[2]).refs = Read(s)
  BY DEF Mismatch
<1>4. c \in RollForward(detector, stock, must, may)
        <=> \E s \in Steps(rs) : Wrong(s) /\ c = Mismatch(detector, Read(s), s[2])
  BY DEF RollForward
<1>5. (c \in RollForward(detector, stock, must, may))'
        <=> \E s \in Steps(rs)' : Wrong(s)' /\ c = Mismatch(detector, Read(s)', s[2])
  BY DEF RollForward
<1> HIDE DEF Read, Wrong, rs
<1>6. Steps(rs)' = Steps(rs)
  BY AxesStay DEF rs
<1> QED
  BY <1>1, <1>2, <1>3, <1>4, <1>5, <1>6 DEF Apart

-----------------------------------------------------------------------------
(* The identities, one by one *)

(* The cells of rows at one date, and their numbers if none is in P.       *)
LEMMA SnapshotsStay ==
  ASSUME NEW P, Edited(P)
  PROVE  \A rs, k : LET at == CellsAt(rs, k)
                    IN  /\ at' = at
                        /\ Members(at)' = Members(at)
                        /\ AllKnown(Members(at))' <=> AllKnown(Members(at))
                        /\ AllKnown(Members(at)) /\ (\A p \in P : p \notin Members(at))
                             => Numbers(at)' = Numbers(at)
BY NumbersStay

(* I1: assets are equity and liabilities.                                  *)
LEMMA BalanceSheetLocal ==
  ASSUME NEW P, Edited(P), NEW c, Apart(c, P)
  PROVE  (c \in BalanceSheet)' <=> c \in BalanceSheet
BY SnapshotsStay, TotalsStay, AxesStay DEF BalanceSheet, Tie, Snapshot, Apart, Mismatch

(* I5: gross profit is revenue less cost of sales.                         *)
LEMMA GrossProfitLocal ==
  ASSUME NEW P, Edited(P), NEW c, Apart(c, P)
  PROVE  (c \in GrossProfit)' <=> c \in GrossProfit
BY SnapshotsStay, TotalsStay, AxesStay DEF GrossProfit, Tie, Snapshot, Difference, Apart, Mismatch

(* I7: EBIT is EBITDA less depreciation.                                   *)
LEMMA OperatingProfitLocal ==
  ASSUME NEW P, Edited(P), NEW c, Apart(c, P)
  PROVE  (c \in OperatingProfit)' <=> c \in OperatingProfit
BY SnapshotsStay, TotalsStay, AxesStay DEF OperatingProfit, Tie, Snapshot, Difference, Apart, Mismatch

(* I6: EBITDA is revenue less cost of sales and expenses.                  *)
LEMMA EbitdaLocal ==
  ASSUME NEW P, Edited(P), NEW c, Apart(c, P)
  PROVE  (c \in Ebitda)' <=> c \in Ebitda
BY SnapshotsStay, TotalsStay, AxesStay DEF Ebitda, Tie, Snapshot, Apart, Mismatch

(* I4: revenue is volume times price.                                      *)
LEMMA VolumePriceLocal ==
  ASSUME NEW P, Edited(P), NEW c, Apart(c, P)
  PROVE  (c \in VolumePrice)' <=> c \in VolumePrice
BY SnapshotsStay, TotalsStay, AxesStay DEF VolumePrice, Tie, Snapshot, Sold, Apart, Mismatch

(* I8: depreciation in the profit and in the cash flow.                    *)
LEMMA AddBackLocal ==
  ASSUME NEW P, Edited(P), NEW c, Apart(c, P)
  PROVE  (c \in AddBack)' <=> c \in AddBack
BY SnapshotsStay, TotalsStay, AxesStay DEF AddBack, Tie, Snapshot, Apart, Mismatch

(* One balance on two sheets.                                              *)
LEMMA AcrossSheetsLocal ==
  ASSUME NEW P, Edited(P), NEW c, Apart(c, P), NEW detector, NEW concept
  PROVE  (c \in AcrossSheets(detector, concept))' <=> c \in AcrossSheets(detector, concept)
BY SnapshotsStay, TotalsStay, AxesStay DEF AcrossSheets, Snapshot, Apart, Mismatch

(* I12: tax is the rate of the profit before it.                           *)
LEMMA TaxLocal ==
  ASSUME NEW P, Edited(P), NEW c, Apart(c, P)
  PROVE  (c \in Tax)' <=> c \in Tax
<1> DEFINE needed == {"pnl.tax", "pnl.net_income", "pnl.tax_rate"}
           rs(g) == RowsIn(g, <<"pnl.tax", "pnl.net_income", "pnl.tax_rate">>)
           Cell(r, k) == CellAt(r, k, SnapshotRoles)
           Deferred(g) == Optional(g, "pnl.deferred_tax")
           Extra(g, k) == Deferred(g) # NoRow /\ k \in DOMAIN AxisCols(Deferred(g), SnapshotRoles)
           Read(g, k) == Members(CellsAt(rs(g), k)) \cup (IF Extra(g, k) THEN {Cell(Deferred(g), k)} ELSE {})
           tax(g, k) == Val(Cell(rs(g)[1], k)) + (IF Extra(g, k) THEN Val(Cell(Deferred(g), k)) ELSE 0)
           due(g, k) == Abs(AsRate(Val(Cell(rs(g)[3], k)))) * (Abs(Val(Cell(rs(g)[2], k))) + Abs(tax(g, k)))
           Wrong(g, k) ==
             /\ AllKnown(Read(g, k))
             /\ Off(100 * Abs(tax(g, k)) - due(g, k), Larger(100 * Abs(tax(g, k)), due(g, k)), 100)
           Keys(g) == Members(Aligned(rs(g), SnapshotRoles))
           In(g) == {Mismatch("I12", Read(g, k), k) : k \in {j \in Keys(g) : Wrong(g, j)}}
<1>1. Tax = UNION {In(g) : g \in Groups(needed)}
  BY DEF Tax
<1>2. Tax' = UNION {In(g)' : g \in Groups(needed)'}
  BY DEF Tax
<1>3. \A g, k : /\ \A i \in 1..3 : Cell(rs(g)[i], k)' = Cell(rs(g)[i], k)
                /\ Cell(Deferred(g), k)' = Cell(Deferred(g), k)
                /\ Extra(g, k)' <=> Extra(g, k)
                /\ CellsAt(rs(g), k)' = CellsAt(rs(g), k)
  BY TotalsStay, AxesStay, NumbersStay
<1>4. \A g, k : Read(g, k)' = Read(g, k)
  BY <1>3
<1>5. ASSUME NEW g, NEW k, \A p \in P : p \notin Read(g, k)
      PROVE  Wrong(g, k)' <=> Wrong(g, k)
  <2>1. CASE AllKnown(Read(g, k))
    <3>1. \A p \in Read(g, k) : Val(p)' = Val(p)
      BY <2>1, <1>5, NumbersStay DEF AllKnown
    <3>2. \A i \in 1..3 : Cell(rs(g)[i], k) \in Read(g, k)
      BY DEF RowsIn, CellsAt, Members
    <3>3. /\ Val(Cell(rs(g)[1], k))' = Val(Cell(rs(g)[1], k))
          /\ Val(Cell(rs(g)[2], k))' = Val(Cell(rs(g)[2], k))
          /\ Val(Cell(rs(g)[3], k))' = Val(Cell(rs(g)[3], k))
      BY <3>1, <3>2, <1>3
    <3>4. Extra(g, k) => Val(Cell(Deferred(g), k))' = Val(Cell(Deferred(g), k))
      BY <3>1, <1>3
    <3> HIDE DEF Extra, At, Deferred, rs, Read
    <3>5. tax(g, k)' = tax(g, k)
      BY <3>3, <3>4, <1>3
    <3> HIDE DEF tax
    <3>6. due(g, k)' = due(g, k)
      BY <3>3, <3>5
    <3> QED  BY <2>1, <3>5, <3>6, <1>4, NumbersStay
  <2>2. CASE ~AllKnown(Read(g, k))
    BY <2>2, <1>4, NumbersStay
  <2> QED  BY <2>1, <2>2
<1>6. \A g, k : Mismatch("I12", Read(g, k), k).refs = Read(g, k)
  BY DEF Mismatch
<1>7. Groups(needed)' = Groups(needed) /\ \A g : Keys(g)' = Keys(g)
  BY TotalsStay, AxesStay
<1> HIDE DEF Read, Wrong, Keys, needed
<1> QED
  BY <1>1, <1>2, <1>4, <1>5, <1>6, <1>7 DEF Apart

(* I11: interest is the rate of the average debt.                          *)
LEMMA InterestLocal ==
  ASSUME NEW P, Edited(P), NEW c, Apart(c, P)
  PROVE  (c \in Interest)' <=> c \in Interest
<1> DEFINE needed == {"pnl.interest", "bs.debt", "pnl.interest_rate"}
           rs(g) == RowsIn(g, <<"pnl.interest", "bs.debt", "pnl.interest_rate">>)
           Cell(g, i, k) == CellAt(rs(g)[i], k, PeriodRoles)
           Read(g, s) == {Cell(g, 1, s[2]), Cell(g, 2, s[1]), Cell(g, 2, s[2]), Cell(g, 3, s[2])}
           unit(s) == 200 * RatePeriods(s[2])
           paid(g, s) == unit(s) * Abs(Val(Cell(g, 1, s[2])))
           due(g, s) == Abs(AsRate(Val(Cell(g, 3, s[2])))) * (Abs(Val(Cell(g, 2, s[1]))) + Abs(Val(Cell(g, 2, s[2]))))
           Wrong(g, s) == AllKnown(Read(g, s)) /\ Off(paid(g, s) - due(g, s), Larger(paid(g, s), due(g, s)), unit(s))
           In(g) == {Mismatch("I11", Read(g, s), s[2]) : s \in {t \in Steps(rs(g)) : Wrong(g, t)}}
<1>1. Interest = UNION {In(g) : g \in Groups(needed)}
  BY DEF Interest
<1>2. Interest' = UNION {In(g)' : g \in Groups(needed)'}
  BY DEF Interest
<1>3. \A g, i, k : Cell(g, i, k)' = Cell(g, i, k)
  BY TotalsStay, AxesStay
<1>4. \A g, s : Read(g, s)' = Read(g, s)
  BY <1>3
<1>5. ASSUME NEW g, NEW s, \A p \in P : p \notin Read(g, s)
      PROVE  Wrong(g, s)' <=> Wrong(g, s)
  <2>1. CASE AllKnown(Read(g, s))
    <3>1. \A p \in Read(g, s) : Val(p)' = Val(p)
      BY <2>1, <1>5, NumbersStay DEF AllKnown
    <3>2. /\ Val(Cell(g, 1, s[2]))' = Val(Cell(g, 1, s[2]))
          /\ Val(Cell(g, 2, s[1]))' = Val(Cell(g, 2, s[1]))
          /\ Val(Cell(g, 2, s[2]))' = Val(Cell(g, 2, s[2]))
          /\ Val(Cell(g, 3, s[2]))' = Val(Cell(g, 3, s[2]))
      BY <3>1, <1>3
    <3>3. paid(g, s)' = paid(g, s) /\ due(g, s)' = due(g, s)
      BY <3>2
    <3> QED  BY <2>1, <3>3, <1>4, NumbersStay
  <2>2. CASE ~AllKnown(Read(g, s))
    BY <2>2, <1>4, NumbersStay
  <2> QED  BY <2>1, <2>2
<1>6. \A g, s : Mismatch("I11", Read(g, s), s[2]).refs = Read(g, s)
  BY DEF Mismatch
<1>7. Groups(needed)' = Groups(needed) /\ \A g : Steps(rs(g))' = Steps(rs(g))
  BY TotalsStay, AxesStay
<1> HIDE DEF Read, Wrong, rs, needed
<1> QED
  BY <1>1, <1>2, <1>4, <1>5, <1>6, <1>7 DEF Apart

(* I3a: cash moves by the cash flow.                                       *)
LEMMA CashMovesLocal ==
  ASSUME NEW P, Edited(P), NEW c, Apart(c, P)
  PROVE  (c \in CashMoves)' <=> c \in CashMoves
<1> DEFINE Fx(g) == IF Optional(g, "fx.cash") = NoRow THEN <<>>
                    ELSE <<Flow(Optional(g, "fx.cash"), "in")>>
           Moves(g, cs) == [i \in DOMAIN cs |-> Flow(TotalIn(g, cs[i]), "in")]
           Must(p) == Moves(p[1], p[2]) \o Fx(p[1])
           Rolled(p) == RollForward("I3a", TotalIn(p[1], "bs.cash"), Must(p), <<>>)
<1>1. CashMoves = UNION {Rolled(p) : p \in CashGroups}
  BY DEF CashMoves
<1>2. CashMoves' = UNION {Rolled(p)' : p \in CashGroups'}
  BY DEF CashMoves
<1>3. CashGroups' = CashGroups
  BY TotalsStay DEF CashGroups
<1>4. \A p : Must(p)' = Must(p)
  <2>1. \A g, cs : Moves(g, cs)' = Moves(g, cs)
    BY TotalsStay
  <2>2. \A g : Fx(g)' = Fx(g)
    BY TotalsStay
  <2> HIDE DEF Moves, Fx
  <2> QED  BY <2>1, <2>2
<1> HIDE DEF Must
<1>5. \A p : (c \in Rolled(p))' <=> c \in Rolled(p)
  BY <1>4, TotalsStay, RollForwardLocal
<1> HIDE DEF Rolled
<1> QED
  BY <1>1, <1>2, <1>3, <1>5

(* I3b: retained earnings move by income and dividends.                    *)
LEMMA RetainedEarningsLocal ==
  ASSUME NEW P, Edited(P), NEW c, Apart(c, P)
  PROVE  (c \in RetainedEarnings)' <=> c \in RetainedEarnings
<1> DEFINE Stock(g) == TotalIn(g, "bs.retained_earnings")
           Must(g) == <<Flow(TotalIn(g, "pnl.net_income"), "in")>>
           May(g) == <<Flow(Optional(g, "cf.dividends"), "out"), Flow(Optional(g, "bs.re_adj"), "in")>>
<1>1. \A g : Stock(g)' = Stock(g) /\ Must(g)' = Must(g) /\ May(g)' = May(g)
  BY TotalsStay
<1>2. RetainedEarnings = UNION {RollForward("I3b", Stock(g), Must(g), May(g)) : g \in Groups({"bs.retained_earnings", "pnl.net_income"})}
  BY DEF RetainedEarnings
<1>3. RetainedEarnings' = UNION {RollForward("I3b", Stock(g), Must(g), May(g))' : g \in Groups({"bs.retained_earnings", "pnl.net_income"})'}
  BY DEF RetainedEarnings
<1>4. Groups({"bs.retained_earnings", "pnl.net_income"})' = Groups({"bs.retained_earnings", "pnl.net_income"})
  BY TotalsStay
<1> HIDE DEF Stock, Must, May
<1>5. \A g : (c \in RollForward("I3b", Stock(g), Must(g), May(g)))'
               <=> c \in RollForward("I3b", Stock(g), Must(g), May(g))
  BY <1>1, RollForwardLocal
<1> QED
  BY <1>2, <1>3, <1>4, <1>5

(* I13: equity moves by income, dividends and issues.                      *)
LEMMA EquityLocal ==
  ASSUME NEW P, Edited(P), NEW c, Apart(c, P)
  PROVE  (c \in Equity)' <=> c \in Equity
<1> DEFINE Stock(g) == TotalIn(g, "bs.equity")
           Must(g) == <<Flow(TotalIn(g, "pnl.net_income"), "in")>>
           May(g) == <<Flow(TotalIn(g, "cf.dividends"), "out"),
                       Flow(Optional(g, "cf.equity_issue"), "in"), Flow(Optional(g, "fx.equity"), "in")>>
<1>1. \A g : Stock(g)' = Stock(g) /\ Must(g)' = Must(g) /\ May(g)' = May(g)
  BY TotalsStay
<1>2. Equity = UNION {RollForward("I13", Stock(g), Must(g), May(g)) : g \in Groups({"bs.equity", "pnl.net_income", "cf.dividends"})}
  BY DEF Equity
<1>3. Equity' = UNION {RollForward("I13", Stock(g), Must(g), May(g))' : g \in Groups({"bs.equity", "pnl.net_income", "cf.dividends"})'}
  BY DEF Equity
<1>4. Groups({"bs.equity", "pnl.net_income", "cf.dividends"})' = Groups({"bs.equity", "pnl.net_income", "cf.dividends"})
  BY TotalsStay
<1> HIDE DEF Stock, Must, May
<1>5. \A g : (c \in RollForward("I13", Stock(g), Must(g), May(g)))'
               <=> c \in RollForward("I13", Stock(g), Must(g), May(g))
  BY <1>1, RollForwardLocal
<1> QED
  BY <1>2, <1>3, <1>4, <1>5

(* I10 and I8b: debt and fixed assets move by their flows.                 *)
LEMMA StockMovesLocal ==
  ASSUME NEW P, Edited(P), NEW c, Apart(c, P), NEW detector, NEW stock, NEW flows, NEW fx
  PROVE  (c \in StockMoves(detector, stock, flows, fx))' <=> c \in StockMoves(detector, stock, flows, fx)
<1> DEFINE Row(g, f) == Optional(g, f[1])
           None(g) == \A i \in DOMAIN flows : Row(g, flows[i]) = NoRow
           Moves(g) == [i \in DOMAIN flows |-> Flow(Row(g, flows[i]), flows[i][2])]
           May(g) == Moves(g) \o <<Flow(Optional(g, fx), "in")>>
           Rolled(g) == RollForward(detector, TotalIn(g, stock), <<>>, May(g))
           In(g) == IF None(g) THEN {} ELSE Rolled(g)
           groups == Groups({stock})
<1>1. StockMoves(detector, stock, flows, fx) = UNION {In(g) : g \in groups}
  BY DEF StockMoves
<1>2. StockMoves(detector, stock, flows, fx)' = UNION {In(g)' : g \in groups'}
  BY DEF StockMoves
<1>3. \A g : None(g)' <=> None(g)
  BY TotalsStay
<1>4. \A g : May(g)' = May(g)
  <2>1. \A g : Moves(g)' = Moves(g)
    BY TotalsStay
  <2> HIDE DEF Moves
  <2> QED  BY <2>1, TotalsStay
<1> HIDE DEF None, May
<1>5. \A g : (c \in Rolled(g))' <=> c \in Rolled(g)
  BY <1>4, TotalsStay, RollForwardLocal
<1>6. \A g : c \in In(g)' <=> c \in In(g)
  BY <1>3, <1>5
<1>7. groups' = groups
  BY TotalsStay
<1> HIDE DEF In, groups
<1> QED
  BY <1>1, <1>2, <1>6, <1>7

(* I9: operating cash flow from income.                                    *)
LEMMA IndirectCfoLocal ==
  ASSUME NEW P, Edited(P), NEW c, Apart(c, P)
  PROVE  (c \in IndirectCfo)' <=> c \in IndirectCfo
<1> DEFINE needed == {"pnl.net_income", "cf.cfo"}
           Da(g) == <<Flow(Optional(g, "pnl.da"), "in")>>
           Stocks(g) == <<Flow(Optional(g, "bs.ar"), "out"), Flow(Optional(g, "bs.inventory"), "out"),
                          Flow(Optional(g, "bs.ap"), "in")>>
           Adjusted(g) == \E f \in Members(Da(g) \o Stocks(g)) : f.row # NoRow
           Dated(g, s) == \A f \in Members(Stocks(g)) : f.row # NoRow => HasDate(f, s[1]) /\ HasDate(f, s[2])
           Net(g, s) == CellAt(TotalIn(g, "pnl.net_income"), s[2], PeriodRoles)
           Got(g, s) == CellAt(TotalIn(g, "cf.cfo"), s[2], PeriodRoles)
           Read(g, s) == {Net(g, s), Got(g, s)} \cup FlowCells(Da(g), s[2])
                           \cup FlowCells(Stocks(g), s[1]) \cup FlowCells(Stocks(g), s[2])
           Gap(g, s) == Val(Got(g, s)) - Val(Net(g, s)) - FlowSum(Da(g), s[2])
                          - (FlowSum(Stocks(g), s[2]) - FlowSum(Stocks(g), s[1]))
           Size(g, s) == Larger(Abs(Val(Got(g, s))), Abs(Val(Net(g, s))))
           Wrong(g, s) == Dated(g, s) /\ AllKnown(Read(g, s)) /\ Off(Gap(g, s), Size(g, s), 1)
           Dates(g) == Steps(<<TotalIn(g, "pnl.net_income"), TotalIn(g, "cf.cfo")>>)
           In(g) == {Mismatch("I9", Read(g, s), s[2]) : s \in {t \in Dates(g) : Wrong(g, t)}}
<1>1. IndirectCfo = UNION {In(g) : g \in {h \in Groups(needed) : Adjusted(h)}}
  BY DEF IndirectCfo
<1>2. IndirectCfo' = UNION {In(g)' : g \in {h \in Groups(needed)' : Adjusted(h)'}}
  BY DEF IndirectCfo
<1>3. \A g : Stocks(g)' = Stocks(g) /\ Da(g)' = Da(g)
  BY TotalsStay
<1>4. \A g : Dates(g)' = Dates(g)
  BY TotalsStay, AxesStay
<1>5. \A g : Adjusted(g)' <=> Adjusted(g)
  BY <1>3
<1>6. \A g, s : /\ Dated(g, s)' <=> Dated(g, s)
                /\ Got(g, s)' = Got(g, s)
                /\ Net(g, s)' = Net(g, s)
  BY <1>3, FlowsStay, AxesStay, TotalsStay
<1> HIDE DEF Stocks, Da, Dated, Got, Net, Adjusted, Dates
<1>7. \A g, s : Read(g, s)' = Read(g, s)
  BY <1>3, <1>6, FlowsStay
<1>8. ASSUME NEW g, NEW s, \A p \in P : p \notin Read(g, s)
      PROVE  Wrong(g, s)' <=> Wrong(g, s)
  <2>1. CASE AllKnown(Read(g, s))
    <3>1. \A p \in Read(g, s) : Val(p)' = Val(p)
      BY <2>1, <1>8, NumbersStay DEF AllKnown
    <3>2. Val(Got(g, s))' = Val(Got(g, s)) /\ Val(Net(g, s))' = Val(Net(g, s))
      BY <3>1, <1>6
    <3>3. /\ FlowSum(Da(g), s[2])' = FlowSum(Da(g), s[2])
          /\ FlowSum(Stocks(g), s[1])' = FlowSum(Stocks(g), s[1])
          /\ FlowSum(Stocks(g), s[2])' = FlowSum(Stocks(g), s[2])
      BY <2>1, <1>3, <1>8, FlowsStay DEF AllKnown
    <3>4. Gap(g, s)' = Gap(g, s) /\ Size(g, s)' = Size(g, s)
      BY <3>2, <3>3
    <3> HIDE DEF Gap, Size, Read
    <3> QED  BY <3>4, <1>6, <1>7, NumbersStay
  <2>2. CASE ~AllKnown(Read(g, s))
    BY <2>2, <1>7, NumbersStay
  <2> QED  BY <2>1, <2>2
<1>9. \A g, s : Mismatch("I9", Read(g, s), s[2]).refs = Read(g, s)
  BY DEF Mismatch
<1>10. Groups(needed)' = Groups(needed)
  BY TotalsStay
<1> HIDE DEF Read, Wrong, needed
<1> QED
  BY <1>1, <1>2, <1>4, <1>5, <1>7, <1>8, <1>9, <1>10 DEF Apart

(* All of detect_identities: an edit changes no finding that cites none of *)
(* the edited cells.                                                       *)
LEMMA IdentitiesLocal ==
  ASSUME NEW P, Edited(P), NEW c, Apart(c, P)
  PROVE  (c \in IdentityCandidates)' <=> c \in IdentityCandidates
BY BalanceSheetLocal, CashMovesLocal, RetainedEarningsLocal, EquityLocal, VolumePriceLocal, GrossProfitLocal,
   EbitdaLocal, OperatingProfitLocal, IndirectCfoLocal, StockMovesLocal, AcrossSheetsLocal, InterestLocal, TaxLocal,
   AddBackLocal
   DEF IdentityCandidates, Cash, StockWith, Debt, FixedAssets

-----------------------------------------------------------------------------
(* The candidates of an identity among those of all the detectors *)

(* What the identities say of the workbook as it is. *)
Wrong == {x \in Candidates : x.detector \in IdentityNames}

(* A candidate without tags is its name and its cells. *)
Untagged(x) == x = Plain(x.detector, x.refs)

LEMMA DetectorOf ==
  /\ \A detector, refs, tags : /\ Found(detector, refs, tags).detector = detector
                               /\ Found(detector, refs, tags).refs = refs
                               /\ Found(detector, refs, tags).tags = tags
  /\ \A detector, refs : /\ Plain(detector, refs).detector = detector
                         /\ Plain(detector, refs).refs = refs
                         /\ Untagged(Plain(detector, refs))
BY DEF Plain, Found, Untagged

(* The names of a series finding. *)
SeriesNames == Hardcode \cup {"source_switch"}

LEMMA OutlierNames == \A p : Outlier(p).detector \in SeriesNames
<1>1. \A p : Outlier(p).detector = Kind(p, FirstOf(Majority(p[1])))
  BY DetectorOf DEF Outlier
<1>2. \A p, q : Kind(p, q) \in SeriesNames
  BY DEF Kind, SeriesNames, Hardcode
<1> QED  BY <1>1, <1>2

(* Circular references, tagged when they are meant. *)
Circle(g) == Found("circular", g, IF Intentional(g) THEN {"likely_intentional"} ELSE {})

(* All other detectors report cells without tags, and none of them under   *)
(* the name of an identity.                                                *)
OtherNames ==
  {"excel_error", "error_masking", "unresolved_dynamic", "external_link", "xlm_or_vba", "agg_range_gap",
   "agg_double_count", "unused_cell", "hidden_input", "scenario_switch", "stress_rate_unchanged",
   "conflicting_rate", "conflicting_fx", "scale_mismatch", "below_breakeven", "negative_npv", "irr_below_wacc",
   "volume_without_ap", "volume_without_capex", "volume_without_cogs", "volume_without_headcount",
   "volume_without_inventory", "volume_without_wc"}

OtherFinding(x) ==
  (x.detector \in OtherNames /\ Untagged(x)) \/ (\E g : x = Circle(g)) \/ (\E p : x = Outlier(p))

LEMMA OtherFindingsAre ==
  /\ \A detector \in OtherNames : \A refs : OtherFinding(Plain(detector, refs))
  /\ \A g : OtherFinding(Circle(g))
  /\ \A p : OtherFinding(Outlier(p))
BY DetectorOf DEF OtherFinding

(* Candidates that cite the cells of rows at dates.                        *)
LEMMA Citations ==
  /\ \A detector \in OtherNames : \A rs, keys : \A x \in Citing(detector, rs, keys) : OtherFinding(x)
  /\ \A detector \in OtherNames : \A c : \A x \in VolumeWithout(detector, c) : OtherFinding(x)
<1>1. ASSUME NEW detector \in OtherNames, NEW rs, NEW keys
      PROVE  \A x \in Citing(detector, rs, keys) : OtherFinding(x)
  BY OtherFindingsAre DEF Citing
<1>2. ASSUME NEW detector \in OtherNames, NEW c PROVE \A x \in VolumeWithout(detector, c) : OtherFinding(x)
  <2> DEFINE vol == BookTotal("pnl.volume")
             row == BookTotal(c)
             keys == Ordered({k \in SharedKeys(<<vol, row>>) : \A r \in {vol, row} : FirstRole(r, k) \in PeriodRoles})
             Refs(i) == {LastAt(r, keys[j]) : r \in {vol, row}, j \in {i, i + 1}}
             Size(r, i) == Abs(Val(LastAt(r, keys[i])))
             Bad(i) == /\ FirstRole(vol, keys[i + 1]) = "forecast"
                       /\ \A p \in Refs(i) : Known(p)
                       /\ Size(vol, i) # 0 /\ 10 * Size(vol, i + 1) >= 11 * Size(vol, i)
                       /\ 1000 * (Size(row, i + 1) - Size(row, i)) <= Larger(1000, Larger(Size(row, i), Size(row, i + 1)))
             at == {j \in 1..(Len(keys) - 1) : Bad(j)}
  <2>1. VolumeWithout(detector, c) = IF vol = NoRow \/ row = NoRow THEN {} ELSE {Plain(detector, Refs(i)) : i \in at}
    BY DEF VolumeWithout
  <2> HIDE DEF at, Refs, vol, row
  <2> QED  BY <2>1, OtherFindingsAre
<1> QED  BY <1>1, <1>2

LEMMA OtherFindings ==
  \A x \in UNION {OnErrors, OnWorkbook, SeriesOutliers, RangeGaps, DoubleCounts,
                  UnusedCells, HiddenInputs,
                  ScenarioSwitch, StressRate, ConflictingRates, ConflictingFx, ScaleMismatches, Breakeven,
                  Valuation, VolumeGrowth} : OtherFinding(x)
<1> USE OtherFindingsAre, Citations DEF OtherNames
<1>1. \A x \in OnErrors : OtherFinding(x)
  <2> DEFINE masking == {q \in DOMAIN book.formula : book.formula[q].masks} \ book.errors
             errors == {Plain("excel_error", {p}) : p \in book.errors}
             masked == {Plain("error_masking", {p}) : p \in masking}
             circles == {Circle(g) : g \in CircularGroups}
             dynamic == {Plain("unresolved_dynamic", {p}) : p \in book.dynamic}
  <2>1. OnErrors = errors \cup masked \cup circles \cup dynamic
    BY DEF OnErrors, Circle
  <2> HIDE DEF masking
  <2>2. \A x \in errors : OtherFinding(x)
    OBVIOUS
  <2>3. \A x \in masked : OtherFinding(x)
    OBVIOUS
  <2>4. \A x \in circles : OtherFinding(x)
    OBVIOUS
  <2>5. \A x \in dynamic : OtherFinding(x)
    OBVIOUS
  <2> HIDE DEF errors, masked, circles, dynamic
  <2> QED  BY <2>1, <2>2, <2>3, <2>4, <2>5
<1>2. \A x \in OnWorkbook : OtherFinding(x)
  BY DEF OnWorkbook
<1>3. \A x \in SeriesOutliers : OtherFinding(x)
  BY DEF SeriesOutliers
<1>4. \A x \in RangeGaps : OtherFinding(x)
  BY DEF RangeGaps
<1>5. \A x \in DoubleCounts : OtherFinding(x)
  BY DEF DoubleCounts
<1>6. \A x \in UnusedCells : OtherFinding(x)
  BY DEF UnusedCells
<1>7. \A x \in HiddenInputs : OtherFinding(x)
  BY DEF HiddenInputs
<1>8. \A x \in ScenarioSwitch : OtherFinding(x)
  BY DEF ScenarioSwitch
<1>9. \A x \in StressRate : OtherFinding(x)
  BY DEF StressRate
<1>10. \A x \in ConflictingRates : OtherFinding(x)
  <2> DEFINE pairs == UNION {RowPairs(c) : c \in RateConcepts}
             Of(p) == Where("conflicting_rate", p, LAMBDA v : AsRate(v[1]) # AsRate(v[2]))
  <2>1. ConflictingRates = UNION {Of(p) : p \in pairs}
    BY DEF ConflictingRates
  <2>2. \A p : \A x \in Of(p) : OtherFinding(x)
    BY DEF Where
  <2> HIDE DEF pairs, Of
  <2> QED  BY <2>1, <2>2
<1>11. \A x \in ScaleMismatches : OtherFinding(x)
  <2> DEFINE concepts == {book.rows[r].concept : r \in Rows}
                           \ (RateConcepts \cup {NoConcept, "fx.rate", "val.wacc", "val.irr"})
             pairs == UNION {RowPairs(c) : c \in concepts}
             Of(p) == Where("scale_mismatch", p, Scaled)
  <2>1. ScaleMismatches = UNION {Of(p) : p \in pairs}
    BY DEF ScaleMismatches
  <2>2. \A p : \A x \in Of(p) : OtherFinding(x)
    BY DEF Where
  <2> HIDE DEF pairs, Of
  <2> QED  BY <2>1, <2>2
<1>12. \A x \in Breakeven : OtherFinding(x)
  BY DEF Breakeven, Where
<1>13. \A x \in Valuation : OtherFinding(x)
  <2> DEFINE low == {q \in DOMAIN book.val : q[1] = BookTotal("val.npv") /\ Val(q) < 0}
             npv == {Plain("negative_npv", {p}) : p \in low}
             irr == Where("irr_below_wacc", RowsIn(WholeBook, <<"val.irr", "val.wacc">>),
                          LAMBDA v : AsRate(v[1]) < AsRate(v[2]))
  <2>1. Valuation = npv \cup irr
    BY DEF Valuation
  <2> HIDE DEF low
  <2>2. \A x \in npv : OtherFinding(x)
    OBVIOUS
  <2>3. \A x \in irr : OtherFinding(x)
    BY DEF Where
  <2> HIDE DEF npv, irr
  <2> QED  BY <2>1, <2>2, <2>3
<1>14. \A x \in VolumeGrowth : OtherFinding(x)
  <2> DEFINE pairs == {<<"volume_without_ap", "bs.ap">>, <<"volume_without_capex", "cf.capex">>,
                       <<"volume_without_cogs", "pnl.cogs">>, <<"volume_without_headcount", "ops.headcount">>,
                       <<"volume_without_inventory", "bs.inventory">>, <<"volume_without_wc", "bs.ar">>}
  <2>1. VolumeGrowth = UNION {VolumeWithout(p[1], p[2]) : p \in pairs}
    BY DEF VolumeGrowth
  <2>2. \A p \in pairs : p[1] \in OtherNames
    OBVIOUS
  <2> HIDE DEF pairs, OtherNames
  <2> QED  BY <2>1, <2>2
<1>15. \A x \in ConflictingFx : OtherFinding(x)
  <2> DEFINE Of(p) == Where("conflicting_fx", p, LAMBDA v : v[1] # v[2])
  <2>1. ConflictingFx = UNION {Of(p) : p \in RowPairs("fx.rate")}
    BY DEF ConflictingFx
  <2>2. \A p : \A x \in Of(p) : OtherFinding(x)
    BY DEF Where
  <2> HIDE DEF Of
  <2> QED  BY <2>1, <2>2
<1> HIDE DEF OtherNames
<1> QED
  BY <1>1, <1>2, <1>3, <1>4, <1>5, <1>6, <1>7, <1>8, <1>9, <1>10, <1>11, <1>12, <1>13, <1>14, <1>15

LEMMA OtherNamesApart == \A x : OtherFinding(x) => x.detector \notin IdentityNames
BY DetectorOf, OutlierNames DEF OtherFinding, OtherNames, Circle, SeriesNames, Hardcode, IdentityNames

(* Deduplication keeps of an identity's finding its name and its cells. *)
WrongOnes ==
  \A x : x \in Wrong <=> /\ x.detector \in IdentityNames
                         /\ \E c \in IdentityCandidates : x = Plain(c.detector, c.refs)

LEMMA WrongIdentities == WrongOnes
BY OtherFindings, OtherNamesApart, DetectorOf DEF WrongOnes, Wrong, Candidates

(* What a check of the workbook would find is local, too.                  *)
LEMMA WrongLocal ==
  ASSUME NEW P, Edited(P), NEW x, Apart(x, P)
  PROVE  x \in Wrong' <=> x \in Wrong
<1>1. WrongOnes /\ WrongOnes'
  BY WrongIdentities, PTL
<1>2. \A c : x = Plain(c.detector, c.refs) => Apart(c, P)
  BY DEF Plain, Found, Apart
<1>3. \A c : Apart(c, P) => (c \in IdentityCandidates' <=> c \in IdentityCandidates)
  BY IdentitiesLocal
<1> QED
  BY <1>1, <1>2, <1>3 DEF WrongOnes

-----------------------------------------------------------------------------
(* The runs and the revisions *)

(* The inductive invariant: what the last check found is what is wrong     *)
(* with the workbook; and a finding that was not there before the last     *)
(* edit, or no longer is, cites the number that was corrected.             *)
Explained ==
  /\ Fields \subseteq DOMAIN book
  /\ Checked => Mismatches(check) = Wrong
  /\ last.kind \in {"correct", "overwrite"} =>
       \A x \in Wrong \cup Mismatches(before.check) :
         \/ x \in Wrong \cap Mismatches(before.check)
         \/ last.kind = "correct" /\ last.cell \in x.refs

(* A step that leaves the workbook alone leaves what is wrong with it.     *)
LEMMA SameBook ==
  ASSUME book' = book
  PROVE  Wrong' = Wrong
<1>1. Edited({})
  BY DEF Edited
<1>2. \A x : x \in Wrong' <=> x \in Wrong
  BY <1>1, WrongLocal DEF Apart
<1> QED  BY <1>2 DEF Wrong

(* The stages of a run write their results only.                           *)
LEMMA StageKeeps ==
  ASSUME Explained, UNCHANGED <<book, last, before>>, Checked' => Mismatches(check)' = Wrong
  PROVE  Explained'
BY SameBook DEF Explained, Mismatches

(* A revision follows a run that found all there was. *)
LEMMA RevisedFrom ==
  ASSUME Explained, NEW b, NEW move, Revised(b, move)
  PROVE  /\ book' = b /\ last' = move /\ ~Checked'
         /\ Mismatches(before.check)' = Wrong
BY DEF Explained, Revised, Checked, Mismatches

(* A correction is an edit of one cell. *)
LEMMA CorrectKeeps ==
  ASSUME Explained, NEW p \in DOMAIN book.val, NEW d, Correct(p, d)
  PROVE  Explained'
<1> DEFINE b == [book EXCEPT !.val[p] = @ + d]
<1>1. Revised(b, Move("correct", p, d))
  BY DEF Correct
<1>2. /\ book' = b /\ last' = Move("correct", p, d) /\ ~Checked'
      /\ Mismatches(before.check)' = Wrong
  BY <1>1, RevisedFrom
<1>3. Edited({p}) /\ Fields \subseteq DOMAIN book'
  BY <1>2 DEF Edited, Explained, Fields
<1>4. ASSUME NEW x, p \notin x.refs PROVE x \in Wrong' <=> x \in Wrong
  BY <1>3, <1>4, WrongLocal DEF Apart
<1> HIDE DEF b
<1> QED
  BY <1>2, <1>3, <1>4 DEF Explained, Move

(* A number pasted over a formula is no edit of a number. *)
LEMMA OverwriteKeeps ==
  ASSUME Explained, NEW p, Overwrite(p)
  PROVE  Explained'
<1> DEFINE b == [book EXCEPT !.formula = [q \in DOMAIN @ \ {p} |-> @[q]],
                             !.uses = {e \in @ : e[1] # p}]
<1>1. Revised(b, Move("overwrite", p, 0))
  BY DEF Overwrite
<1>2. /\ book' = b /\ last' = Move("overwrite", p, 0) /\ ~Checked'
      /\ Mismatches(before.check)' = Wrong
  BY <1>1, RevisedFrom
<1>3. /\ b.axis = book.axis /\ b.rows = book.rows /\ b.sheet = book.sheet /\ b.val = book.val
      /\ Fields \subseteq DOMAIN b
  BY DEF Explained, Fields
<1> HIDE DEF b
<1>4. Edited({})
  BY <1>2, <1>3 DEF Edited
<1>5. \A x : x \in Wrong' <=> x \in Wrong
  BY <1>4, WrongLocal DEF Apart
<1> QED
  BY <1>2, <1>3, <1>5 DEF Explained, Move

(* Other columns start over. *)
LEMMA RegrainKeeps ==
  ASSUME Explained, NEW n, Regrain(n)
  PROVE  Explained'
<1>1. Revised(Split(n), Move("regrain", NoCell, n))
  BY DEF Regrain
<1>2. book' = Split(n) /\ last' = Move("regrain", NoCell, n) /\ ~Checked'
  BY <1>1, RevisedFrom
<1>3. DOMAIN Split(n) = DOMAIN book
  BY DEF Split
<1> QED
  BY <1>2, <1>3 DEF Explained, Move

(* Explained is inductive.                                                 *)
LEMMA ExplainedKept == Spec => []Explained
<1>1. Init => Explained
  BY ScreeningAssumption DEF Init, Explained, Checked, Start, Sound
<1>2. Explained /\ [Next]_vars => Explained'
  <2> SUFFICES ASSUME Explained, [Next]_vars PROVE Explained'
    OBVIOUS
  <2>1. CASE CheckWorkbook
    <3>1. Mismatches(check') = Wrong
      BY <2>1 DEF CheckWorkbook, Mismatches, Wrong
    <3>2. Mismatches(check)' = Mismatches(check')
      BY DEF Mismatches
    <3> QED  BY <2>1, <3>1, <3>2, StageKeeps DEF CheckWorkbook
  <2>2. CASE FrsWorkbook
    BY <2>2, StageKeeps DEF FrsWorkbook, Mismatches, Explained, Checked
  <2>3. CASE ExplainWorkbook
    BY <2>3, StageKeeps DEF ExplainWorkbook, Mismatches, Explained, Checked
  <2>4. ASSUME NEW p \in DOMAIN book.val, NEW d \in Deltas, Correct(p, d) PROVE Explained'
    BY <2>4, CorrectKeeps
  <2>5. ASSUME NEW p \in DOMAIN book.formula, Overwrite(p) PROVE Explained'
    BY <2>5, OverwriteKeeps
  <2>6. ASSUME NEW n \in Grains, Regrain(n) PROVE Explained'
    BY <2>6, RegrainKeeps
  <2>7. CASE UNCHANGED vars
    BY <2>7, StageKeeps DEF vars, Mismatches, Explained, Checked
  <2> QED
    BY <2>1, <2>2, <2>3, <2>4, <2>5, <2>6, <2>7 DEF Next
<1> QED
  BY <1>1, <1>2, PTL DEF Spec

(* What the identities find changes with a corrected number in findings   *)
(* that cite it, and in no others; a formula pasted over changes nothing.  *)
(* For every workbook, however often it was revised before.                *)
THEOREM EditsAreExplained == Spec => []EditsExplained
<1>1. Explained => EditsExplained
  BY DEF Explained, EditsExplained
<1> QED
  BY <1>1, ExplainedKept, PTL

-----------------------------------------------------------------------------
(* The first and the last of a set of numbers are in it. *)
LEMMA LeastIs ==
  ASSUME NEW S \in SUBSET Nat, S # {}
  PROVE  Least(S) \in S /\ \A y \in S : Least(S) <= y
<1>1. \E x \in S : \A y \in S : ~(<<y, x>> \in OpToRel(<, Nat))
  BY NatLessThanWellFounded, WFMin
<1>2. PICK x \in S : \A y \in S : ~(<<y, x>> \in OpToRel(<, Nat))
  BY <1>1
<1>3. \A y \in S : x <= y
  <2> TAKE y \in S
  <2>1. x \in Nat /\ y \in Nat  OBVIOUS
  <2>2. ~(y < x)  BY <1>2, <2>1 DEF OpToRel
  <2> QED  BY <2>1, <2>2
<1> QED  BY <1>2, <1>3 DEF Least

LEMMA GreatestIs ==
  ASSUME NEW n \in Nat, NEW S \in SUBSET (1..n), S # {}
  PROVE  Greatest(S) \in S /\ \A y \in S : y <= Greatest(S)
<1> DEFINE T == {n - x : x \in S}
<1>1. T \in SUBSET Nat /\ T # {}
  <2>1. \A x \in S : x \in Int /\ n - x \in Nat
    OBVIOUS
  <2> QED  BY <2>1
<1>2. Least(T) \in T /\ \A z \in T : Least(T) <= z
  BY <1>1, LeastIs
<1>3. PICK x \in S : Least(T) = n - x
  BY <1>2
<1>4. \A y \in S : y <= x
  <2> TAKE y \in S
  <2>1. n - x <= n - y  BY <1>2, <1>3
  <2> QED  BY <2>1
<1> QED  BY <1>3, <1>4 DEF Greatest

-----------------------------------------------------------------------------
(* The series *)

(* The cells of a row under its axis, and those of them a series keeps.    *)
Under(r) == {<<r, AxisOf(r)[i].col>> : i \in DOMAIN AxisOf(r)}
Kept(r)  == {<<r, Trimmed(r)[i].col>> : i \in DOMAIN Trimmed(r)}
Typed(r) == {p \in Under(r) : TemplateOf(p) = ""}

LEMMA UnderFinite ==
  ASSUME NEW r, AxisOf(r) \in Seq(Header)
  PROVE  IsFiniteSet(Under(r))
<1> DEFINE ax == AxisOf(r)
           f == [i \in 1..Len(ax) |-> <<r, ax[i].col>>]
<1>1. f \in Surjection(1..Len(ax), Under(r))
  <2>1. DOMAIN ax = 1..Len(ax)
    OBVIOUS
  <2> HIDE DEF ax
  <2>2. Under(r) = {<<r, ax[i].col>> : i \in 1..Len(ax)}
    BY <2>1 DEF Under, ax
  <2> QED  BY <2>2 DEF Surjection
<1>2. Len(ax) \in Nat /\ IsFiniteSet(1..Len(ax))
  BY FS_Interval
<1> QED  BY <1>1, <1>2, FS_Surjection

(* Trimming keeps what is filled. *)
LEMMA FilledKept ==
  ASSUME NEW r, AxisOf(r) \in Seq(Header)
  PROVE  /\ Kept(r) \subseteq Under(r)
         /\ \A p \in Under(r) : Filled(p) => p \in Kept(r)
<1> DEFINE ax == AxisOf(r)
           full == {i \in DOMAIN ax : Filled(<<r, ax[i].col>>)}
           a == Least(full)
           b == Greatest(full)
<1>1. Len(ax) \in Nat /\ DOMAIN ax = 1..Len(ax) /\ full \in SUBSET (1..Len(ax))
  OBVIOUS
<1>2. CASE full = {}
  BY <1>1, <1>2 DEF Kept, Trimmed, Under
<1>3. CASE full # {}
  <2>1. a \in full /\ b \in full /\ \A i \in full : a <= i /\ i <= b
    <3>1. full \in SUBSET Nat
      BY <1>1
    <3> HIDE DEF full
    <3>2. a \in full /\ \A i \in full : a <= i
      BY <1>3, <3>1, LeastIs
    <3>3. b \in full /\ \A i \in full : i <= b
      BY <1>1, <1>3, GreatestIs
    <3> QED  BY <3>2, <3>3
  <2>2. Trimmed(r) = SubSeq(ax, a, b)
    BY <1>3 DEF Trimmed
  <2>3. a \in 1..Len(ax) /\ b \in 1..Len(ax) /\ a <= b
    BY <1>1, <2>1
  <2> HIDE DEF a, b
  <2>4. \A i \in a..b : ax[i] \in Header
    BY <1>1, <2>3
  <2>5. /\ DOMAIN Trimmed(r) = 1..(b - a + 1)
        /\ \A i \in 1..(b - a + 1) : Trimmed(r)[i] = ax[a + i - 1]
    BY <2>2, <2>3, <2>4, SubSeqProperties
  <2>6. Kept(r) \subseteq Under(r)
    <3> SUFFICES ASSUME NEW i \in 1..(b - a + 1) PROVE <<r, Trimmed(r)[i].col>> \in Under(r)
      BY <2>5 DEF Kept
    <3>1. a + i - 1 \in DOMAIN ax
      BY <1>1, <2>3
    <3> QED  BY <2>5, <3>1 DEF Under
  <2>7. ASSUME NEW p \in Under(r), Filled(p) PROVE p \in Kept(r)
    <3>1. PICK i \in DOMAIN ax : p = <<r, ax[i].col>>
      BY DEF Under
    <3>2. i \in full /\ i \in a..b
      BY <1>1, <2>1, <2>3, <2>7, <3>1
    <3>3. i - a + 1 \in 1..(b - a + 1) /\ a + (i - a + 1) - 1 = i
      BY <2>3, <3>2
    <3> QED  BY <2>5, <3>1, <3>3 DEF Kept
  <2> QED  BY <2>6, <2>7
<1> QED  BY <1>2, <1>3

(* A cell without a template among formulas of one. *)
LEMMA PastedIsFound ==
  ASSUME NEW p, p[1] \in Rows, AxisOf(p[1]) \in Seq(Header), ~book.rows[p[1]].check,
         ~Formula(p), p \in Under(p[1]) \cap book.cells, Known(p), Val(p) # 0,
         \A q, s \in Under(p[1]) \ Typed(p[1]) : TemplateOf(q) = TemplateOf(s),
         10 * Cardinality(Typed(p[1])) <= 3 * Cardinality(Under(p[1]))
  PROVE  \E c \in Candidates : c.detector = "value_instead_of_formula" /\ c.refs = {p}
<1> DEFINE r == p[1]
           Same(q) == {s \in Kept(r) : TemplateOf(s) = TemplateOf(q)}
<1>1. p \in Kept(r) /\ TemplateOf(p) = ""
  BY FilledKept DEF Filled, TemplateOf
<1>2. /\ IsFiniteSet(Under(r)) /\ IsFiniteSet(Kept(r)) /\ Kept(r) \subseteq Under(r)
      /\ Cardinality(Under(r)) \in Nat /\ Cardinality(Kept(r)) \in Nat
      /\ Cardinality(Kept(r)) <= Cardinality(Under(r))
  BY UnderFinite, FilledKept, FS_Subset, FS_CardinalityType
<1>3. /\ Typed(r) \subseteq Under(r) /\ Cardinality(Typed(r)) \in Nat
      /\ Cardinality(Under(r) \ Typed(r)) = Cardinality(Under(r)) - Cardinality(Typed(r))
  <2>1. Typed(r) \subseteq Under(r)
    BY DEF Typed
  <2>2. Under(r) \cap Typed(r) = Typed(r)
    BY <2>1
  <2> QED  BY <1>2, <2>1, <2>2, FS_Difference, FS_Subset, FS_CardinalityType
<1>4. Under(r) \ Typed(r) # {}
  <2> SUFFICES ASSUME Under(r) \ Typed(r) = {} PROVE FALSE
    OBVIOUS
  <2>1. Typed(r) = Under(r)
    BY <1>3
  <2>2. Cardinality(Under(r)) = 0
    BY <1>2, <2>1
  <2> QED  BY <1>2, <2>2, FS_EmptySet
<1>5. PICK q \in Under(r) : q \notin Typed(r)
  BY <1>4
<1>6. TemplateOf(q) # "" /\ \A s \in Under(r) \ Typed(r) : s \in Kept(r)
  BY <1>5, FilledKept DEF Typed, TemplateOf, Filled
<1>7. q \in Kept(r) /\ Same(q) = Under(r) \ Typed(r)
  <2>1. q \in Kept(r)
    BY <1>5, <1>6
  <2>2. \A s \in Kept(r) : TemplateOf(s) = TemplateOf(q) => s \in Under(r) \ Typed(r)
    BY <1>2, <1>6 DEF Typed
  <2>3. \A s \in Under(r) \ Typed(r) : s \in Kept(r) /\ TemplateOf(s) = TemplateOf(q)
    BY <1>5, <1>6
  <2> QED  BY <2>1, <2>2, <2>3
<1>8. 10 * Cardinality(Same(q)) >= 7 * Cardinality(Kept(r))
  <2>1. Cardinality(Same(q)) = Cardinality(Under(r)) - Cardinality(Typed(r))
    BY <1>3, <1>7
  <2>2. 10 * Cardinality(Typed(r)) <= 3 * Cardinality(Under(r))
    OBVIOUS
  <2> HIDE DEF Same
  <2> QED  BY <1>2, <1>3, <2>1, <2>2
<1>9. Majority(r) = UNION {Same(s) : s \in {t \in Kept(r) : TemplateOf(t) # "" /\ 10 * Cardinality(Same(t)) >= 7 * Cardinality(Kept(r))}}
  BY DEF Majority, Kept
<1>10. q \in Majority(r)
  <2>1. q \in Same(q)
    BY <1>7
  <2>2. q \in {t \in Kept(r) : TemplateOf(t) # "" /\ 10 * Cardinality(Same(t)) >= 7 * Cardinality(Kept(r))}
    BY <1>6, <1>7, <1>8
  <2> HIDE DEF Same
  <2> QED  BY <1>9, <2>1, <2>2
<1>11. p \notin Majority(r)
  BY <1>1, <1>9
<1>12. Outlier(p) \in SeriesOutliers
  <2>1. r \in {s \in Rows : ~book.rows[s].check /\ Majority(s) # {}}
    BY <1>10
  <2>2. p \in Kept(r) \ Majority(r)
    BY <1>1, <1>11
  <2> QED  BY <2>1, <2>2 DEF SeriesOutliers, Kept
<1>13. Outlier(p).detector = "value_instead_of_formula" /\ Outlier(p).refs = {p}
  BY <1>1 DEF Outlier, Kind, Found
<1> QED
  BY <1>12, <1>13 DEF Candidates

-----------------------------------------------------------------------------
(* Books stay sound *)

(* Breaking the years down gives a sound book. *)
LEMMA SplitSound ==
  ASSUME WorkbookOK, NEW n \in {4, 12}
  PROVE  Sound(Split(n))
<1> DEFINE b == Split(n)
<1>1. /\ b.sheet = book.sheet /\ b.rows = book.rows /\ DOMAIN b = DOMAIN book
      /\ DOMAIN b.axis = DOMAIN book.axis
  BY DEF Split, WorkbookOK, Sound, Fields, Blocks
<1>2. ASSUME NEW k \in DOMAIN book.axis PROVE b.axis[k] \in Seq(Header)
  <2> DEFINE ax == book.axis[k]
             first == IF n = 4 THEN 21 ELSE 1
             head(i) == [key |-> ax[(i - 1) \div n + 1].key + first + ((i - 1) % n),
                         role |-> ax[(i - 1) \div n + 1].role, col |-> i]
  <2>1. ax \in Seq(Header) /\ Len(ax) \in Nat
    BY DEF WorkbookOK, Sound
  <2>2. b.axis[k] = [i \in 1..(n * Len(ax)) |-> head(i)]
    BY DEF Split, WorkbookOK, Sound, Fields, Blocks
  <2>3. ASSUME NEW i \in 1..(n * Len(ax)) PROVE head(i) \in Header
    <3> DEFINE y == (i - 1) \div n + 1
    <3>1. y \in 1..Len(ax) /\ (i - 1) % n \in Nat /\ i \in Nat
      BY <2>1
    <3>2. ax[y] \in Header
      BY <2>1, <3>1
    <3> HIDE DEF y, ax
    <3>3. head(i) = [key |-> ax[y].key + first + ((i - 1) % n), role |-> ax[y].role, col |-> i]
      BY DEF y
    <3> QED  BY <3>1, <3>2, <3>3 DEF Header
  <2>4. n * Len(ax) \in Nat
    BY <2>1
  <2> HIDE DEF ax, head
  <2> QED  BY <2>2, <2>3, <2>4
<1>3. ASSUME NEW p \in DOMAIN b.val PROVE p[1] \in Rows /\ b.val[p] \in Int
  <2> DEFINE InYear(r, y) == <<r, AxisOf(r)[y].col>>
             Source(r, i) ==
               LET y == (i - 1) \div n + 1
                   stock == book.rows[r].concept \in StockConcepts
               IN  IF i % n = 0 \/ (Level(book.rows[r].concept) /\ ~stock) THEN InYear(r, y) ELSE InYear(r, y - 1)
             Value(r, i) == IF i % n = 0 \/ Level(book.rows[r].concept) THEN Val(Source(r, i)) ELSE 0
             Cols(r) == {i \in n..(n * Len(AxisOf(r))) : Known(Source(r, i))}
  <2>1. b.val = [q \in UNION {{r} \X Cols(r) : r \in Rows} |-> Value(q[1], q[2])]
    BY DEF Split, WorkbookOK, Sound, Fields
  <2> HIDE DEF Value, Cols, b
  <2>2. p \in UNION {{r} \X Cols(r) : r \in Rows} /\ b.val[p] = Value(p[1], p[2])
    BY <2>1
  <2>3. PICK r \in Rows : p \in {r} \X Cols(r)
    BY <2>2
  <2>4. p[1] = r /\ p[2] \in Cols(r)
    BY <2>3
  <2>5. Known(Source(r, p[2]))
    BY <2>4 DEF Cols
  <2> HIDE DEF Source
  <2>6. Val(Source(r, p[2])) \in Int
    BY <2>5 DEF Known, Val, WorkbookOK, Sound
  <2>7. Value(r, p[2]) \in Int
    BY <2>6 DEF Value
  <2> QED  BY <2>2, <2>3, <2>4, <2>7
<1>6a. b.cells = DOMAIN b.val /\ \A p \in DOMAIN b.val : p \in Rows \X Nat
  <2> DEFINE InYear(r, y) == <<r, AxisOf(r)[y].col>>
             Source(r, i) ==
               LET y == (i - 1) \div n + 1
                   stock == book.rows[r].concept \in StockConcepts
               IN  IF i % n = 0 \/ (Level(book.rows[r].concept) /\ ~stock) THEN InYear(r, y) ELSE InYear(r, y - 1)
             Value(r, i) == IF i % n = 0 \/ Level(book.rows[r].concept) THEN Val(Source(r, i)) ELSE 0
             Cols(r) == {i \in n..(n * Len(AxisOf(r))) : Known(Source(r, i))}
             dated == UNION {{r} \X Cols(r) : r \in Rows}
  <2>1. b.val = [q \in dated |-> Value(q[1], q[2])] /\ b.cells = DOMAIN b.val
    BY DEF Split, WorkbookOK, Sound, Fields
  <2>2. \A r \in Rows : Len(AxisOf(r)) \in Nat
    BY DEF WorkbookOK, Sound, Rows, AxisOf
  <2>3. \A r \in Rows : Cols(r) \subseteq Nat
    BY <2>2
  <2> HIDE DEF Value, Cols, b
  <2>4. \A p \in dated : p \in Rows \X Nat
    BY <2>3
  <2> QED  BY <2>1, <2>4
<1> HIDE DEF b
<1>4. \A r \in DOMAIN b.rows : b.rows[r].block \in DOMAIN b.axis
  BY <1>1 DEF WorkbookOK, Sound
<1>5. DOMAIN b.axis \subseteq DOMAIN b.sheet /\ Fields \subseteq DOMAIN b
  BY <1>1 DEF WorkbookOK, Sound
<1>6. DOMAIN b.rows \subseteq Nat \ {0} /\ DOMAIN b.val \subseteq b.cells
      /\ b.cells \subseteq (Nat \ {0}) \X Nat
  BY <1>1, <1>6a DEF WorkbookOK, Sound, Rows
<1> QED
  BY <1>1, <1>2, <1>3, <1>4, <1>5, <1>6 DEF Sound, Rows, b

(* Whatever an author revises, layout and mapping hold together. *)
THEOREM BooksStaySound == Spec => []WorkbookOK
<1>1. Init => WorkbookOK
  BY ScreeningAssumption DEF Init, WorkbookOK
<1>2. WorkbookOK /\ [Next]_vars => WorkbookOK'
  <2> SUFFICES ASSUME WorkbookOK, [Next]_vars PROVE WorkbookOK'
    OBVIOUS
  <2>1. CASE UNCHANGED book
    BY <2>1 DEF WorkbookOK, Sound
  <2>2. ASSUME NEW p \in DOMAIN book.val, NEW d \in Deltas, Correct(p, d) PROVE WorkbookOK'
    <3> DEFINE b == [book EXCEPT !.val[p] = @ + d]
    <3>1. book' = b
      BY <2>2 DEF Correct, Revised
    <3>2. /\ DOMAIN b = DOMAIN book /\ b.axis = book.axis /\ b.sheet = book.sheet /\ b.rows = book.rows
          /\ b.cells = book.cells /\ DOMAIN b.val = DOMAIN book.val
          /\ \A q \in DOMAIN book.val : b.val[q] = IF q = p THEN book.val[p] + d ELSE book.val[q]
      BY DEF WorkbookOK, Sound, Fields
    <3> HIDE DEF b
    <3>3. d \in Int
      BY ScreeningAssumption
    <3>4. Sound(b)
      BY <3>2, <3>3 DEF WorkbookOK, Sound, Rows
    <3> QED  BY <3>1, <3>4 DEF WorkbookOK
  <2>3. ASSUME NEW p \in DOMAIN book.formula, Overwrite(p) PROVE WorkbookOK'
    <3> DEFINE b == [book EXCEPT !.formula = [q \in DOMAIN @ \ {p} |-> @[q]],
                                 !.uses = {e \in @ : e[1] # p}]
    <3>1. book' = b
      BY <2>3 DEF Overwrite, Revised
    <3>2. /\ DOMAIN b = DOMAIN book /\ b.axis = book.axis /\ b.sheet = book.sheet /\ b.rows = book.rows
          /\ b.val = book.val /\ b.cells = book.cells
      BY DEF WorkbookOK, Sound, Fields
    <3> HIDE DEF b
    <3>3. Sound(b)
      BY <3>2 DEF WorkbookOK, Sound
    <3> QED  BY <3>1, <3>3 DEF WorkbookOK
  <2>4. ASSUME NEW n \in Grains, Regrain(n) PROVE WorkbookOK'
    <3>1. book' = Split(n) /\ n \in {4, 12}
      BY <2>4, ScreeningAssumption DEF Regrain, Revised
    <3> QED  BY <3>1, SplitSound DEF WorkbookOK
  <2> QED
    BY <2>1, <2>2, <2>3, <2>4 DEF Next, CheckWorkbook, FrsWorkbook, ExplainWorkbook, vars
<1> QED
  BY <1>1, <1>2, PTL DEF Spec

-----------------------------------------------------------------------------
(* Pasted numbers *)

(* What HardcodesCaught says of candidates. *)
PastedAmong(cs) ==
  LET r == last.cell[1]
  IN  /\ r \in Rows /\ ~book.rows[r].check /\ last.cell \in Under(r) \cap book.cells
      /\ Known(last.cell) /\ Val(last.cell) # 0
      /\ \A p, q \in Under(r) \ Typed(r) : TemplateOf(p) = TemplateOf(q)
      /\ 10 * Cardinality(Typed(r)) <= 3 * Cardinality(Under(r))
      => \E c \in cs : c.detector = "value_instead_of_formula" /\ c.refs = {last.cell}

LEMMA HardcodesCaughtIs ==
  HardcodesCaught <=> (Checked /\ last.kind = "overwrite" => PastedAmong(check.candidates))
BY DEF HardcodesCaught, PastedAmong, Under, Typed

(* The last formula that was pasted over is none, and a check finds it. *)
PastedFound ==
  /\ last.kind = "overwrite" => ~Formula(last.cell)
  /\ Checked /\ last.kind = "overwrite" => PastedAmong(check.candidates)

(* With the book and the revision, what a set of candidates lacks stays.   *)
LEMMA PastedAmongStays ==
  ASSUME UNCHANGED <<book, last>>
  PROVE  \A cs : PastedAmong(cs) => PastedAmong(cs)'
<1>1. \A p : (Known(p)' <=> Known(p)) /\ Val(p)' = Val(p)
  BY DEF Known, Val
<1>2. \A p : TemplateOf(p)' = TemplateOf(p)
  BY DEF Formula, TemplateOf
<1>3. Rows' = Rows /\ \A r : Under(r)' = Under(r)
  BY DEF Rows, Under, AxisOf
<1>4. ASSUME NEW r PROVE Typed(r)' = Typed(r)
  <2>1. Typed(r)' = {p \in Under(r)' : TemplateOf(p)' = ""}
    BY DEF Typed
  <2>2. Typed(r)' = {p \in Under(r) : TemplateOf(p)' = ""}
    BY <1>3, <2>1
  <2> QED  BY <1>2, <2>2 DEF Typed
<1> SUFFICES ASSUME NEW cs, PastedAmong(cs) PROVE PastedAmong(cs)'
  OBVIOUS
<1> DEFINE p == last.cell
           r == p[1]
<1>5. /\ p' = p /\ r' = r /\ Under(r)' = Under(r) /\ Typed(r)' = Typed(r)
      /\ book'.rows = book.rows /\ book'.cells = book.cells
  BY <1>3, <1>4
<1>6. /\ r \in Rows /\ ~book.rows[r].check /\ p \in Under(r) \cap book.cells
      /\ Known(p) /\ Val(p) # 0
      /\ \A q, s \in Under(r) \ Typed(r) : TemplateOf(q) = TemplateOf(s)
      /\ 10 * Cardinality(Typed(r)) <= 3 * Cardinality(Under(r))
      => \E c \in cs : c.detector = "value_instead_of_formula" /\ c.refs = {p}
  BY DEF PastedAmong
<1> QED
  BY <1>1, <1>2, <1>3, <1>5, <1>6 DEF PastedAmong

LEMMA PastedFoundKept ==
  ASSUME WorkbookOK, PastedFound, [Next]_vars
  PROVE  PastedFound'
<1>1. CASE CheckWorkbook
  <2> SUFFICES ASSUME last.kind = "overwrite"
               PROVE  (~Formula(last.cell) /\ PastedAmong(check.candidates))'
    BY <1>1 DEF CheckWorkbook, PastedFound
  <2>1. ~Formula(last.cell)
    BY DEF PastedFound
  <2>2. ASSUME last.cell[1] \in Rows PROVE AxisOf(last.cell[1]) \in Seq(Header)
    BY <2>2 DEF WorkbookOK, Sound, Rows, AxisOf
  <2>3. PastedAmong(Candidates)
    BY <2>1, <2>2, PastedIsFound DEF PastedAmong
  <2>4. book' = book /\ last' = last /\ check'.candidates = Candidates
    BY <1>1 DEF CheckWorkbook
  <2> QED
    BY <2>1, <2>3, <2>4, PastedAmongStays DEF Formula
<1>2. ASSUME UNCHANGED <<book, last, check>>, Checked' => Checked PROVE PastedFound'
  BY <1>2, PastedAmongStays DEF PastedFound, Formula
<1>3. CASE FrsWorkbook \/ ExplainWorkbook \/ UNCHANGED vars
  BY <1>2, <1>3 DEF FrsWorkbook, ExplainWorkbook, vars, Checked
<1>4. ASSUME NEW p \in DOMAIN book.val, NEW d \in Deltas, Correct(p, d) PROVE PastedFound'
  BY <1>4 DEF Correct, Revised, Move, PastedFound
<1>5. ASSUME NEW p \in DOMAIN book.formula, Overwrite(p) PROVE PastedFound'
  <2>1. last'.cell = p /\ ~Checked'
    BY <1>5 DEF Overwrite, Revised, Move, Checked
  <2>2. book'.formula = [q \in DOMAIN book.formula \ {p} |-> book.formula[q]]
    BY <1>5 DEF Overwrite, Revised, WorkbookOK, Sound, Fields
  <2> QED  BY <2>1, <2>2 DEF PastedFound, Formula
<1>6. ASSUME NEW n \in Grains, Regrain(n) PROVE PastedFound'
  BY <1>6 DEF Regrain, Revised, Move, PastedFound
<1> QED
  BY <1>1, <1>3, <1>4, <1>5, <1>6 DEF Next

(* A number pasted over a formula is found in every workbook, whatever was *)
(* revised before, by the conditions the majority of the row sets.         *)
THEOREM HardcodesAreCaught == Spec => []HardcodesCaught
<1>1. Init => PastedFound
  BY DEF Init, PastedFound, Start
<1>2. PastedFound => HardcodesCaught
  BY HardcodesCaughtIs DEF PastedFound
<1> QED
  BY <1>1, <1>2, BooksStaySound, PastedFoundKept, PTL DEF Spec
=============================================================================
