----------------------------- MODULE MCSheetEdits -----------------------------
(***************************************************************************)
(* Sheets for SheetEdits, one for each way to lay out a header.            *)
(***************************************************************************)
EXTENDS SheetEdits, TLC

None  == Text("blank")
Label == Text("label")
Line(n) == <<Label>> \o [i \in 1..n |-> Text("decimal")]
Count(n) == <<Label>> \o [i \in 1..n |-> Whole(i)]

(* Cells from a sequence of rows, of which the first is row `top'. *)
Cells(top, rs) ==
  LET at == {p \in (DOMAIN rs) \X (1..7) : p[2] \in DOMAIN rs[p[1]] /\ rs[p[1]][p[2]] # None}
  IN  [p \in {<<top + q[1] - 1, q[2]>> : q \in at} |-> rs[p[1] - top + 1][p[2]]]

Header(key, role, tagged) == [key |-> key, role |-> role, tagged |-> tagged]
History(keys) == [i \in DOMAIN keys |-> Header(keys[i], "historical", FALSE)]

(* A block of header rows and two lines; `years' is the row of years in it *)
(* and `head' the one that dates every column, or 0.                       *)
Block(top, rs, axis, head, years) ==
  LET n == Len(axis)
  IN  [cells |-> Cells(top, rs \o <<Line(n), Count(n)>>),
       meant |-> [axis |-> [i \in DOMAIN axis |-> [key |-> axis[i].key, col |-> i + 1, role |-> axis[i].role,
                                                   tagged |-> axis[i].tagged]],
                  lines |-> {top + Len(rs), top + Len(rs) + 1}, top |-> top, head |-> top + head - 1,
                  years |-> IF years = 0 THEN 0 ELSE top + years - 1, banner |-> FALSE]]

SheetOf(blocks) ==
  LET text == [p \in UNION {DOMAIN blocks[i].cells : i \in DOMAIN blocks} |->
                 LET i == CHOOSE j \in DOMAIN blocks : p \in DOMAIN blocks[j].cells IN blocks[i].cells[p]]
  IN  [sheet |-> [text |-> text, rows |-> {p[1] : p \in DOMAIN text}, hidden |-> {}],
       meant |-> [i \in DOMAIN blocks |-> blocks[i].meant]]

QuarterKey(y, q) == YearKey(y) + 20 + q

InYears(top) == Block(top, <<<<Label, Whole(2023), Whole(2024), Whole(2025)>>>>,
                      History(<<YearKey(2023), YearKey(2024), YearKey(2025)>>), 1, 0)

Planned == Block(1, <<<<Label, Whole(2023), Tagged(Dated(2024, 0, 0, 0), "forecast"),
                        Tagged(Dated(2025, 0, 0, 0), "forecast"), Named(TotalName, "total")>>>>,
                 <<Header(YearKey(2023), "historical", FALSE), Header(YearKey(2024), "forecast", TRUE),
                   Header(YearKey(2025), "forecast", TRUE), Header(NamedKey(TotalName), "total", TRUE)>>, 1, 0)

TwoRows(top) ==
  Block(top, <<<<None, Whole(2025), Whole(2025), Whole(2025), Whole(2026), Whole(2026)>>,
               <<Label, Quarter(2), Quarter(3), Quarter(4), Quarter(1), Quarter(2)>>>>,
        History(<<QuarterKey(2025, 2), QuarterKey(2025, 3), QuarterKey(2025, 4), QuarterKey(2026, 1),
                  QuarterKey(2026, 2)>>), 2, 1)

ThreeRows ==
  Block(1, <<<<None, Dated(2022, 0, 7, 1), Dated(2022, 0, 10, 1), Dated(2023, 0, 1, 1), Dated(2023, 0, 4, 1)>>,
             <<None, Whole(2022), Whole(2022), Whole(2023), Whole(2023)>>,
             <<Text("quarter label"), Whole(3), Whole(4), Whole(1), Whole(2)>>>>,
        History(<<QuarterKey(2022, 3), QuarterKey(2022, 4), QuarterKey(2023, 1), QuarterKey(2023, 2)>>), 1, 2)

Bounded ==
  Block(1, <<<<Text("start label"), Dated(2023, 0, 10, 1), Dated(2024, 0, 1, 1), Dated(2024, 0, 4, 1)>>,
             <<Text("end label"), Dated(2023, 0, 12, 31), Dated(2024, 0, 3, 31), Dated(2024, 0, 6, 30)>>>>,
        History(<<QuarterKey(2023, 4), QuarterKey(2024, 1), QuarterKey(2024, 2)>>), 2, 0)

Months ==
  Block(1, <<<<None, Whole(2025), Whole(2025), Whole(2026), Whole(2026)>>,
             <<Text("month label"), Whole(11), Whole(12), Whole(1), Whole(2)>>>>,
        History(<<YearKey(2025) + 11, YearKey(2025) + 12, YearKey(2026) + 1, YearKey(2026) + 2>>), 2, 1)

YearEnds ==
  Block(1, <<<<Label, Dated(2023, 0, 12, 31), Dated(2024, 0, 12, 31), Dated(2025, 0, 12, 31)>>>>,
        History(<<YearKey(2023), YearKey(2024), YearKey(2025)>>), 1, 0)

(* The year's own column behind its quarters. *)
WithYear ==
  Block(1, <<<<Label, Dated(2024, 3, 0, 0), Dated(2024, 4, 0, 0), Whole(2024), Dated(2025, 1, 0, 0)>>>>,
        History(<<QuarterKey(2024, 3), QuarterKey(2024, 4), YearKey(2024), QuarterKey(2025, 1)>>), 1, 0)

MCSheets == {SheetOf(<<b>>) : b \in {InYears(1), Planned, TwoRows(1), ThreeRows, Bounded, Months, YearEnds, WithYear}}
              \cup {SheetOf(<<InYears(1), TwoRows(5)>>)}
=============================================================================
