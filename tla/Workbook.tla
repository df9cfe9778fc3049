-------------------------------- MODULE Workbook ------------------------------
(***************************************************************************)
(* The workbook as the checkers see it after parsing, layout and mapping:  *)
(* blocks with a period axis, rows with a concept, numbers in cells.  All  *)
(* the modules of the analysis read it and none changes it.                *)
(***************************************************************************)
EXTENDS Periods

VARIABLE book  \* a record of Fields, see WorkbookOK

\* val holds the cells of numbers, text those of other words
Fields == {"axis", "sheet", "rows", "val", "text", "cells", "formula", "uses", "errors",
           "hidden", "dynamic", "external", "links", "macros", "scenario"}

Blocks == DOMAIN book.axis
Rows   == DOMAIN book.rows
NoRow  == 0
NoConcept == ""

SnapshotRoles == PeriodRoles \cup {"scenario"}

Header == [key : Nat, role : Roles, col : Nat]

(* What parse, layout and mapping produce: blocks on sheets with headers,  *)
(* rows in blocks, numbers in cells of rows; rows are numbered from one.   *)
Sound(b) ==
  /\ Fields \subseteq DOMAIN b
  /\ \A k \in DOMAIN b.axis : b.axis[k] \in Seq(Header)
  /\ DOMAIN b.axis \subseteq DOMAIN b.sheet
  /\ \A r \in DOMAIN b.rows : b.rows[r].block \in DOMAIN b.axis
  /\ \A ref \in DOMAIN b.val : ref[1] \in DOMAIN b.rows /\ b.val[ref] \in Int
  /\ DOMAIN b.rows \subseteq Nat \ {0}
  /\ b.cells \subseteq (Nat \ {0}) \X Nat /\ DOMAIN b.val \subseteq b.cells

WorkbookOK == Sound(book)

-----------------------------------------------------------------------------
(* The axis of a row: the columns its block dates *)

AxisOf(r) == book.axis[book.rows[r].block]

RoleRank(role) == CASE role = "historical" -> 0 [] role = "stub" -> 1
                    [] role = "forecast" -> 2 [] OTHER -> 9

(* The column of each key of the roles; of two columns of one key the fact *)
(* goes before the stub and the forecast, then the first.                  *)
KeyCols(ax, roles) ==
  LET kept == {i \in DOMAIN ax : ax[i].role \in roles}
      Before(i, j) == \/ RoleRank(ax[i].role) < RoleRank(ax[j].role)
                      \/ RoleRank(ax[i].role) = RoleRank(ax[j].role) /\ i <= j
      Best(k) == CHOOSE i \in kept : /\ ax[i].key = k
                                     /\ \A j \in kept : ax[j].key = k => Before(i, j)
  IN  [k \in {ax[i].key : i \in kept} |-> ax[Best(k)].col]

AxisCols(r, roles) == KeyCols(AxisOf(r), roles)

(* The keys all the rows have, in order. *)
Aligned(rs, roles) ==
  Ordered({k \in DOMAIN AxisCols(rs[1], roles) :
             \A i \in DOMAIN rs : k \in DOMAIN AxisCols(rs[i], roles)})

CellAt(r, k, roles) == <<r, AxisCols(r, roles)[k]>>

(* A cell without a number, or with an error, has no value. *)
Known(ref) == ref \in DOMAIN book.val
Val(ref)   == book.val[ref]

-----------------------------------------------------------------------------
(* The row that stands for a concept in a block or in the whole book: the  *)
(* first output row, else the first row.                                   *)

WholeBook == 0  \* no block

Representative(rs) ==
  LET outs == {r \in rs : book.rows[r].out}
  IN  IF rs = {} THEN NoRow ELSE IF outs = {} THEN Least(rs) ELSE Least(outs)

RowsOf(c) == {r \in Rows : book.rows[r].concept = c}

TotalIn(g, c) ==
  Representative({r \in RowsOf(c) : g = WholeBook \/ book.rows[r].block = g})

BookTotal(c) == TotalIn(WholeBook, c)
Mapped(c)    == RowsOf(c) # {}

SheetTotals(c) ==
  {Representative({r \in RowsOf(c) : book.sheet[book.rows[r].block] = s}) :
     s \in {book.sheet[book.rows[r].block] : r \in RowsOf(c)}}
=============================================================================
