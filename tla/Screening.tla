------------------------------- MODULE Screening ------------------------------
(***************************************************************************)
(* The analysis stages of a run, check -> frs -> explain, on a workbook    *)
(* whose author revises it between runs: corrects a number, types a number *)
(* over a formula, or gives every year its quarters or months.  A run      *)
(* reads nothing but the workbook and the results of the stages before it. *)
(***************************************************************************)
EXTENDS Report

CONSTANTS
  Books,    \* the workbooks the first run may get
  Agreeing, \* those of them computed by the rules of accounting
  Deltas,   \* by how much a number is corrected
  Grains,   \* parts a year may be split into: 4 quarters, 12 months
  MaxRevisions

ASSUME ScreeningAssumption ==
  /\ \A b \in Books : Sound(b)
  /\ Agreeing \subseteq Books /\ Deltas \subseteq Int /\ Grains \subseteq {4, 12} /\ MaxRevisions \in Nat

VARIABLES
  phase,      \* the last stage that is done
  check,      \* check.json: candidates and questions
  frs,        \* frs.json: the result of each control
  report,     \* report.json
  last,       \* the last revision
  before,     \* the workbook and the results before it
  revisions   \* how many there were

vars == <<book, phase, check, frs, report, last, before, revisions>>

NoCheck  == [candidates |-> {}, questions |-> <<>>]
NoFrs    == [f \in Controls |-> NotApplicable]
NoReport == [findings |-> {}, conclusions |-> <<>>, questions |-> {}, headline |-> "", blockers |-> {}]

Start == [kind |-> "start", cell |-> NoCell, delta |-> 0]
Move(kind, p, d) == [kind |-> kind, cell |-> p, delta |-> d]

Init ==
  /\ book \in Books
  /\ phase = "mapped"
  /\ check = NoCheck /\ frs = NoFrs /\ report = NoReport
  /\ last = Start
  /\ before = [book |-> book, check |-> NoCheck, frs |-> NoFrs]
  /\ revisions = 0

-----------------------------------------------------------------------------
(* The stages *)

CheckWorkbook ==
  /\ phase = "mapped"
  /\ check' = [candidates |-> Candidates, questions |-> IdentityQuestions]
  /\ phase' = "checked"
  /\ UNCHANGED <<book, frs, report, last, before, revisions>>

BrokenIdentities == {c.detector : c \in check.candidates} \cap IdentityNames

FrsWorkbook ==
  /\ phase = "checked"
  /\ frs' = FrsResults(BrokenIdentities)
  /\ phase' = "screened"
  /\ UNCHANGED <<book, check, report, last, before, revisions>>

ExplainWorkbook ==
  /\ phase = "screened"
  /\ report' = Compose(check.candidates, check.questions, frs)
  /\ phase' = "reported"
  /\ UNCHANGED <<book, check, frs, last, before, revisions>>

-----------------------------------------------------------------------------
(* Revisions of the workbook *)

Revised(b, move) ==
  /\ phase = "reported"
  /\ revisions < MaxRevisions
  /\ book' = b
  /\ before' = [book |-> book, check |-> check, frs |-> frs]
  /\ last' = move
  /\ revisions' = revisions + 1
  /\ phase' = "mapped"
  /\ check' = NoCheck /\ frs' = NoFrs /\ report' = NoReport

(* A number that is no formula and that no formula reads. *)
Correct(p, d) ==
  /\ ~Formula(p) /\ ~\E e \in book.uses : e[2] = p
  /\ Revised([book EXCEPT !.val[p] = @ + d], Move("correct", p, d))

(* The number of a formula pasted over it. *)
Overwrite(p) ==
  Revised([book EXCEPT !.formula = [q \in DOMAIN @ \ {p} |-> @[q]],
                       !.uses = {e \in @ : e[1] # p}],
          Move("overwrite", p, 0))

YearsOnly == \A b \in Blocks : \A i \in DOMAIN book.axis[b] : IsYear(book.axis[b][i].key)

(* Concepts that are a level or a rate at every date of a year. *)
Level(c) == c \in StockConcepts \cup {"pnl.tax_rate", "pnl.price", "fx.rate", "covenant.headroom",
                                      "cov.dscr", "cov.llcr", "cov.plcr"}

(* The same book with n columns for each year: a flow falls into the last  *)
(* of them, a stock keeps its number of the year before until then, and a  *)
(* rate is that of the year.  The first year has its last column only.     *)
Split(n) ==
  LET first == IF n = 4 THEN 21 ELSE 1
      axis  == [b \in Blocks |->
                  LET ax == book.axis[b]
                  IN  [i \in 1..(n * Len(ax)) |->
                         [key |-> ax[(i - 1) \div n + 1].key + first + ((i - 1) % n),
                          role |-> ax[(i - 1) \div n + 1].role, col |-> i]]]
      InYear(r, y) == <<r, AxisOf(r)[y].col>>
      Source(r, i) ==
        LET y == (i - 1) \div n + 1
            stock == book.rows[r].concept \in StockConcepts
        IN  IF i % n = 0 \/ (Level(book.rows[r].concept) /\ ~stock) THEN InYear(r, y) ELSE InYear(r, y - 1)
      Value(r, i) == IF i % n = 0 \/ Level(book.rows[r].concept) THEN Val(Source(r, i)) ELSE 0
      Cols(r) == {i \in n..(n * Len(AxisOf(r))) : Known(Source(r, i))}
      val == [p \in UNION {{r} \X Cols(r) : r \in Rows} |-> Value(p[1], p[2])]
      none == [p \in {} |-> 0]
  IN  [book EXCEPT !.axis = axis, !.val = val, !.text = {}, !.cells = DOMAIN val, !.formula = none, !.uses = {}]

Regrain(n) == YearsOnly /\ Revised(Split(n), Move("regrain", NoCell, n))

Next ==
  \/ CheckWorkbook \/ FrsWorkbook \/ ExplainWorkbook
  \/ \E p \in DOMAIN book.val, d \in Deltas : Correct(p, d)
  \/ \E p \in DOMAIN book.formula : Overwrite(p)
  \/ \E n \in Grains : Regrain(n)

Spec == Init /\ [][Next]_vars

-----------------------------------------------------------------------------
(* Properties *)

Checked  == phase # "mapped"
Screened == phase \in {"screened", "reported"}

Mismatches(c) == {x \in c.candidates : x.detector \in IdentityNames}
BrokenBefore  == {x.detector : x \in Mismatches(before.check)}

(* Accounts that agree raise no identity: detect_identities finds nothing  *)
(* in a workbook computed by the rules the identities stand for.           *)
AgreeingAccountsPass == Checked /\ book \in Agreeing => Mismatches(check) = {}

(* The evidence is complete: what an identity finds after one number was   *)
(* corrected and did not find before, or no longer finds, cites the        *)
(* number; and pasting numbers over formulas changes nothing it finds.     *)
EditsExplained ==
  Checked /\ last.kind \in {"correct", "overwrite"} =>
    \A c \in Mismatches(check) \cup Mismatches(before.check) :
      \/ c \in Mismatches(check) \cap Mismatches(before.check)
      \/ last.kind = "correct" /\ last.cell \in c.refs

(* Lines the identities tie to others at every date, and flows that they   *)
(* tie to the balance of the date before.                                  *)
TiedLines == StockConcepts \cup {"pnl.volume", "pnl.price", "pnl.revenue", "pnl.cogs",
               "pnl.gross_profit", "pnl.opex", "pnl.ebitda", "pnl.da", "pnl.ebit", "pnl.tax", "cf.da"}
TiedFlows == {"pnl.net_income", "cf.cfo", "cf.capex", "cf.fcf", "cf.drawdown", "cf.repayment", "cf.dividends"}

Tied(p) ==
  LET c == book.rows[p[1]].concept
  IN  /\ Mapped("bs.assets_total")
      /\ c \in TiedLines \/ (c \in TiedFlows /\ p[2] > 1)
      /\ c = "bs.debt" => Mapped("cf.repayment")

(* A wrong number in accounts that agreed is found by an identity.         *)
EditsCaught ==
  Checked /\ last.kind = "correct" /\ Mismatches(before.check) = {} /\ Tied(last.cell) =>
    \E c \in Mismatches(check) : last.cell \in c.refs

(* The identities that fail do not depend on whether a year is one column, *)
(* four quarters or twelve months.  Not so I11: interest accrues over the  *)
(* months, it does not fall into the last of them.                         *)
GrainKeepsIdentities ==
  Checked /\ last.kind = "regrain" => BrokenIdentities \ {"I11"} = BrokenBefore \ {"I11"}

(* Nor do the controls over years, but months are no high evidence for     *)
(* them.  F08 and F09 need months, F10 and F14 read the finest columns.    *)
GrainKeepsControls ==
  Screened /\ last.kind = "regrain" =>
    \A f \in Controls \ {"F08", "F09", "F10", "F14"} :
      /\ frs[f].status = before.frs[f].status
      /\ frs[f].priority = before.frs[f].priority
      /\ last.delta = 12 => frs[f].confidence # "high"

(* A better number never sets off a control that looks for a shortfall:    *)
(* more EBITDA no loss and no thin cover, more FCF no dividend out of a    *)
(* deficit.                                                                *)
BetterNeverFlags ==
  Screened /\ last.kind = "correct" /\ last.delta > 0 =>
    LET c == book.rows[last.cell[1]].concept
        Kept(f) == frs[f].status = "flagged" => before.frs[f].status = "flagged"
    IN  /\ c = "pnl.ebitda" => Kept("F03") /\ Kept("F07")
        /\ c = "cf.fcf" => Kept("F13")

(* A finding is in at most one conclusion, and while there is room for     *)
(* more every error and every urgent issue is in one.                      *)
FindingsConcluded ==
  phase = "reported" =>
    LET all == report.conclusions
        concluded == UNION {c.cards : c \in Members(all)}
    IN  /\ \A i, j \in DOMAIN all : i # j => all[i].cards \cap all[j].cards = {}
        /\ Len(all) < MaxConclusions =>
             /\ \A card \in report.findings : card.severity = "error" => <<card.detector, card.refs>> \in concluded
             /\ \A f \in HighIssues(frs) : <<f, frs[f].refs>> \in concluded

(* A formula that was pasted over is found, while the formulas of its row  *)
(* are one and at most three in ten cells of the row have none: detect_    *)
(* series names that cell as a value among formulas.                       *)
HardcodesCaught ==
  Checked /\ last.kind = "overwrite" =>
    LET r == last.cell[1]
        cells == {<<r, AxisOf(r)[i].col>> : i \in DOMAIN AxisOf(r)}
        typed == {p \in cells : TemplateOf(p) = ""}
    IN  /\ r \in Rows /\ ~book.rows[r].check /\ last.cell \in cells \cap book.cells
        /\ Known(last.cell) /\ Val(last.cell) # 0
        /\ \A p, q \in cells \ typed : TemplateOf(p) = TemplateOf(q)
        /\ 10 * Cardinality(typed) <= 3 * Cardinality(cells)
        => \E c \in check.candidates : c.detector = "value_instead_of_formula" /\ c.refs = {last.cell}

(* A mapped cover ratio below one is flagged, in whatever columns it is    *)
(* given.                                                                  *)
CoverageFlagged ==
  Screened =>
    \A p \in DOMAIN book.val :
      book.rows[p[1]].concept = "cov.dscr" /\ Val(p) < 100 => frs["F07"].status = "flagged"
=============================================================================
