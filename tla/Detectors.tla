------------------------------- MODULE Detectors ------------------------------
(***************************************************************************)
(* run_checks: the structural detectors over formulas and the formula      *)
(* graph, the comparisons of assumptions, the series outliers they read,   *)
(* and the identities.  A candidate has a detector, cells and tags.        *)
(*                                                                         *)
(* A formula is what the detectors ask of its syntax tree: its relative    *)
(* template and references, the sheets and constants it names, the cells   *)
(* of its SUM ranges, whether it hides errors.                             *)
(***************************************************************************)
EXTENDS Identities

CONSTANTS
  BaseKeys,    \* period keys of base scenario columns
  StressKeys,  \* period keys of stress scenario columns
  UnusedCap    \* UNUSED_CAP

ASSUME DetectorAssumption == UnusedCap \in Nat \ {0} /\ BaseKeys \cap StressKeys = {}

Found(detector, refs, tags) == [detector |-> detector, refs |-> refs, tags |-> tags]
Plain(detector, refs) == Found(detector, refs, {})

SheetOf(r)    == book.sheet[book.rows[r].block]
Formula(ref)  == ref \in DOMAIN book.formula
Before(p, q)  == p[1] < q[1] \/ (p[1] = q[1] /\ p[2] < q[2])
FirstOf(refs) == CHOOSE p \in refs : \A q \in refs : p = q \/ Before(p, q)

-----------------------------------------------------------------------------
(* The graph of formulas: <<formula, cell it reads>> *)

Reads(S)  == S \cup {e[2] : e \in {d \in book.uses : d[1] \in S}}
ReadBy(S) == S \cup {e[1] : e \in {d \in book.uses : d[2] \in S}}

(* Everything Step leads to from S. *)
Closure(S, Step(_)) ==
  LET reach[T \in SUBSET (S \cup UNION {{e[1], e[2]} : e \in book.uses})] ==
        IF Step(T) = T THEN T ELSE reach[Step(T)]
  IN  reach[S]

Precedents(S) == Closure(S, Reads)   \* what the cells are computed from
Dependents(S) == Closure(S, ReadBy)  \* what is computed from the cells

(* Cells that depend on each other, or one that reads itself. *)
CircularGroups ==
  LET onCycle == {p \in book.cells : p \in Precedents({e[2] : e \in {d \in book.uses : d[1] = p}})}
  IN  {{q \in onCycle : q \in Precedents({p}) /\ p \in Precedents({q})} : p \in onCycle}

Intentional(group) ==
  \E p \in group : \/ book.rows[p[1]].concept \in {"pnl.interest", "pnl.tax", "bs.debt"}
                   \/ book.rows[p[1]].intent

-----------------------------------------------------------------------------
(* Detectors of single cells *)

OnErrors ==
  {Plain("excel_error", {p}) : p \in book.errors}
    \cup {Plain("error_masking", {p}) : p \in {q \in DOMAIN book.formula : book.formula[q].masks} \ book.errors}
    \cup {Found("circular", g, IF Intentional(g) THEN {"likely_intentional"} ELSE {}) : g \in CircularGroups}
    \cup {Plain("unresolved_dynamic", {p}) : p \in book.dynamic}

(* One finding for the book: its first external formula, else its first cell. *)
OnWorkbook ==
  (IF book.links \/ book.external # {}
   THEN {Plain("external_link", {FirstOf(IF book.external # {} THEN book.external ELSE book.cells)})} ELSE {})
    \cup (IF book.macros THEN {Plain("xlm_or_vba", {FirstOf(book.cells)})} ELSE {})

-----------------------------------------------------------------------------
(* Series: a row whose formulas are one template but for a few cells *)

NoCell == <<0, 0>>  \* the address of a cell that is not there

(* The headers of a row from its first to its last filled cell: a word, an *)
(* error or a formula fills one, a zero does not.                          *)
Filled(p) == Formula(p) \/ p \in book.errors \cup book.text \/ (Known(p) /\ Val(p) # 0)
Trimmed(r) ==
  LET ax == AxisOf(r)
      full == {i \in DOMAIN ax : Filled(<<r, ax[i].col>>)}
  IN  IF full = {} THEN <<>> ELSE SubSeq(ax, Least(full), Greatest(full))

(* A number has no template, and neither has a formula the parser gives up. *)
TemplateOf(p) == IF Formula(p) THEN book.formula[p].template ELSE ""

(* mutant: the template of at least eight in ten *)
MajorityOfEight(r) ==
  LET cells == {<<r, Trimmed(r)[i].col>> : i \in DOMAIN Trimmed(r)}
      Same(p) == {q \in cells : TemplateOf(q) = TemplateOf(p)}
  IN  UNION {Same(p) : p \in {q \in cells : TemplateOf(q) # "" /\ 10 * Cardinality(Same(q)) >= 8 * Cardinality(cells)}}

(* The cells of the template at least seven in ten cells share. *)
Majority(r) ==
  LET cells == {<<r, Trimmed(r)[i].col>> : i \in DOMAIN Trimmed(r)}
      Same(p) == {q \in cells : TemplateOf(q) = TemplateOf(p)}
  IN  UNION {Same(p) : p \in {q \in cells : TemplateOf(q) # "" /\ 10 * Cardinality(Same(q)) >= 7 * Cardinality(cells)}}

Kind(p, model) ==
  LET f == book.formula[p]
      g == book.formula[model]
  IN  IF TemplateOf(p) = "" THEN "value_instead_of_formula"
      ELSE IF f.sheets # g.sheets THEN "source_switch"
      ELSE IF f.consts # g.consts THEN "literal_in_ast"
      ELSE "pattern_break"

Forecasts(r) == {i \in DOMAIN AxisOf(r) : AxisOf(r)[i].role = "forecast"}
Edge(r, col) == /\ Forecasts(r) # {}
                /\ col \in {AxisOf(r)[i].col : i \in {Least(Forecasts(r)), Greatest(Forecasts(r))}}
Past(r, col) == \E h \in Members(AxisOf(r)) : h.role = "historical" /\ h.col = col

Tags(r, col, kind) ==
  (IF Edge(r, col) THEN {"edge_period"} ELSE {})
    \cup (IF Past(r, col) /\ kind \in {"value_instead_of_formula", "literal_in_ast"}
          THEN {"hist_manual_adjustment"} ELSE {})

Outlier(p) ==
  LET kind == Kind(p, FirstOf(Majority(p[1])))
  IN  Found(kind, {IF p \in book.cells THEN p ELSE NoCell}, Tags(p[1], p[2], kind))

SeriesOutliers ==
  LET cells(r) == {<<r, Trimmed(r)[i].col>> : i \in DOMAIN Trimmed(r)}
      checked == {r \in Rows : ~book.rows[r].check /\ Majority(r) # {}}
  IN  {Outlier(p) : p \in UNION {cells(r) \ Majority(r) : r \in checked}}

-----------------------------------------------------------------------------
(* Sums *)

Summing == {p \in DOMAIN book.formula : book.formula[p].sums # {}}

(* Rows of its block a SUM leaves out. *)
RangeGaps ==
  LET Missing(p) == {<<r, p[2]>> : r \in {q \in Rows : /\ book.rows[q].block = book.rows[p[1]].block
                                                       /\ ~book.rows[q].check /\ q # p[1]}}
                      \ book.formula[p].sums
  IN  {Plain("agg_range_gap", {p} \cup Missing(p)) : p \in {q \in Summing : Missing(q) # {}}}

(* A cell that two SUMs of its column count, itself no SUM. *)
DoubleCounts ==
  LET sums == {p \in Summing : ~book.rows[p[1]].check}
      Counts(p, leaf) == /\ leaf \in book.formula[p].sums /\ leaf # p /\ leaf[2] = p[2]
                         /\ SheetOf(leaf[1]) = SheetOf(p[1])
      Of(leaf) == {p \in sums : Counts(p, leaf)}
      leaves == UNION {book.formula[p].sums : p \in sums} \ sums
  IN  {Plain("agg_double_count", {leaf} \cup Of(leaf)) : leaf \in {l \in leaves : Cardinality(Of(l)) > 1}}

-----------------------------------------------------------------------------
(* What the outputs are computed from *)

OutputRows == {r \in Rows : \/ book.rows[r].out
                            \/ book.rows[r].concept \in {"bs.assets_total", "pnl.ebitda", "pnl.net_income", "pnl.ebit"}}

ValueCell(p) == Formula(p) \/ Known(p)

OutputCells ==
  LET Row(r) == {p \in book.cells : p[1] = r}
      formulas(r) == {p \in Row(r) : Formula(p)}
  IN  UNION {IF formulas(r) # {} THEN formulas(r) ELSE {p \in Row(r) : Known(p)} : r \in OutputRows}

(* Numbers no output reads, at most UnusedCap of them. *)
UnusedCells ==
  LET unused == {p \in book.cells \ Precedents(OutputCells) : ValueCell(p)}
      Rank(p) == Cardinality({q \in unused : Before(q, p)})
  IN  IF OutputCells = {} THEN {}
      ELSE {Plain("unused_cell", {p}) : p \in {q \in unused : Rank(q) < UnusedCap}}

HiddenInputs ==
  {Plain("hidden_input", {p}) : p \in book.hidden \cap Precedents(OutputCells \ book.hidden)}

(* Live rows that read one scenario sheet each, and not all the same one. *)
ScenarioSwitch ==
  LET live == {r \in Rows : book.rows[r].concept # NoConcept /\ book.scenario[SheetOf(r)] = ""}
      Names(r) == {book.scenario[SheetOf(e[2][1])] : e \in {d \in book.uses : d[1][1] = r}} \ {""}
      tied == {r \in live : Cardinality(Names(r)) = 1}
  IN  IF Cardinality(UNION {Names(r) : r \in tied}) < 2 THEN {}
      ELSE {Plain("scenario_switch", {p \in book.cells : p[1] \in tied})}

-----------------------------------------------------------------------------
(* Assumptions *)

(* The last column of each key of the roles. *)
LastCols(r, roles) ==
  LET ax == AxisOf(r)
      kept == {i \in DOMAIN ax : ax[i].role \in roles}
  IN  [k \in {ax[i].key : i \in kept} |-> ax[Greatest({i \in kept : ax[i].key = k})].col]

LastAt(r, k) == <<r, LastCols(r, SnapshotRoles)[k]>>
SharedKeys(rs) ==
  IF \E i \in DOMAIN rs : rs[i] = NoRow THEN {}
  ELSE {k \in DOMAIN LastCols(rs[1], SnapshotRoles) :
          \A i \in DOMAIN rs : k \in DOMAIN LastCols(rs[i], SnapshotRoles)}

LastCells(rs, k) == [i \in DOMAIN rs |-> LastAt(rs[i], k)]
Citing(detector, rs, keys) == {Plain(detector, Members(LastCells(rs, k))) : k \in keys}

(* Cells at the keys the rows share where all are known and Bad holds. *)
Where(detector, rs, Bad(_)) ==
  LET Hit(k) == AllKnown(Members(LastCells(rs, k))) /\ Bad(Numbers(LastCells(rs, k)))
  IN  Citing(detector, rs, {k \in SharedKeys(rs) : Hit(k)})

RowPairs(c) == {p \in RowsOf(c) \X RowsOf(c) : p[1] < p[2]}
RateConcepts == {"pnl.tax_rate", "pnl.interest_rate"}

ConflictingRates ==
  UNION {Where("conflicting_rate", p, LAMBDA v : AsRate(v[1]) # AsRate(v[2])) : p \in UNION {RowPairs(c) : c \in RateConcepts}}

ConflictingFx == UNION {Where("conflicting_fx", p, LAMBDA v : v[1] # v[2]) : p \in RowPairs("fx.rate")}

(* One is about a thousand or a million times the other, within a tenth. *)
Scaled(v) ==
  LET lo == IF Abs(v[1]) < Abs(v[2]) THEN Abs(v[1]) ELSE Abs(v[2])
      hi == FirstTwo(v)
      Times(n) == lo <= hi \div (9 * n) /\ (hi + 11 * n - 1) \div (11 * n) <= lo
  IN  lo # 0 /\ (Times(100) \/ Times(100000))

ScaleMismatches ==
  LET concepts == {book.rows[r].concept : r \in Rows}
                    \ (RateConcepts \cup {NoConcept, "fx.rate", "val.wacc", "val.irr"})
  IN  UNION {Where("scale_mismatch", p, Scaled) : p \in UNION {RowPairs(c) : c \in concepts}}

(* Revenue falls from base to stress and the interest rate does not rise. *)
StressRate ==
  LET rev  == BookTotal("pnl.revenue")
      rate == BookTotal("pnl.interest_rate")
      Axis(r) == LastCols(r, {"scenario"})
      Both == {k \in BaseKeys \cup StressKeys : k \in DOMAIN Axis(rev) \cap DOMAIN Axis(rate)}
      Cell(r, k) == <<r, Axis(r)[k]>>
      Refs(b, s) == {Cell(rev, b), Cell(rev, s), Cell(rate, b), Cell(rate, s)}
      Bad(b, s) == /\ \A p \in Refs(b, s) : Known(p)
                   /\ LET was == Abs(Val(Cell(rev, b)))
                      IN  100 * (was - Abs(Val(Cell(rev, s)))) > Larger(100, was)
                   /\ AsRate(Val(Cell(rate, s))) <= AsRate(Val(Cell(rate, b)))
  IN  IF rev = NoRow \/ rate = NoRow THEN {}
      ELSE {Plain("stress_rate_unchanged", Refs(p[1], p[2])) :
              p \in {q \in (Both \cap BaseKeys) \X (Both \cap StressKeys) : Bad(q[1], q[2])}}

Breakeven ==
  Where("below_breakeven", RowsIn(WholeBook, <<"pnl.volume", "pnl.price", "pnl.cogs", "pnl.opex">>),
     LAMBDA v : LET margin == Abs(v[1]) * Abs(v[2]) - Abs(v[3])
                IN  1000 * margin + Larger(1000, Larger(Abs(margin), Abs(v[4]))) < 1000 * Abs(v[4]))

Valuation ==
  {Plain("negative_npv", {p}) : p \in {q \in DOMAIN book.val : q[1] = BookTotal("val.npv") /\ Val(q) < 0}}
    \cup Where("irr_below_wacc", RowsIn(WholeBook, <<"val.irr", "val.wacc">>), LAMBDA v : AsRate(v[1]) < AsRate(v[2]))

(* Volume grows by a tenth into a forecast period, the other row does not. *)
FirstRole(r, k) == LET ax == AxisOf(r) IN ax[Least({i \in DOMAIN ax : ax[i].key = k})].role

VolumeWithout(detector, c) ==
  LET vol == BookTotal("pnl.volume")
      row == BookTotal(c)
      keys == Ordered({k \in SharedKeys(<<vol, row>>) : \A r \in {vol, row} : FirstRole(r, k) \in PeriodRoles})
      Refs(i) == {LastAt(r, keys[j]) : r \in {vol, row}, j \in {i, i + 1}}
      Size(r, i) == Abs(Val(LastAt(r, keys[i])))
      Bad(i) == /\ FirstRole(vol, keys[i + 1]) = "forecast"
                /\ \A p \in Refs(i) : Known(p)
                /\ Size(vol, i) # 0 /\ 10 * Size(vol, i + 1) >= 11 * Size(vol, i)
                /\ 1000 * (Size(row, i + 1) - Size(row, i)) <= Larger(1000, Larger(Size(row, i), Size(row, i + 1)))
  IN  IF vol = NoRow \/ row = NoRow THEN {}
      ELSE {Plain(detector, Refs(i)) : i \in {j \in 1..(Len(keys) - 1) : Bad(j)}}

VolumeGrowth ==
  UNION {VolumeWithout(p[1], p[2]) :
    p \in {<<"volume_without_ap", "bs.ap">>, <<"volume_without_capex", "cf.capex">>,
           <<"volume_without_cogs", "pnl.cogs">>, <<"volume_without_headcount", "ops.headcount">>,
           <<"volume_without_inventory", "bs.inventory">>, <<"volume_without_wc", "bs.ar">>}}

-----------------------------------------------------------------------------
(* All candidates.  Equal detectors and cells are one candidate. *)

Candidates ==
  UNION {OnErrors, OnWorkbook, SeriesOutliers, RangeGaps, DoubleCounts, UnusedCells, HiddenInputs,
         ScenarioSwitch, StressRate, ConflictingRates, ConflictingFx, ScaleMismatches, Breakeven,
         Valuation, VolumeGrowth, {Plain(c.detector, c.refs) : c \in IdentityCandidates}}
=============================================================================
