------------------------------- MODULE SheetEdits -----------------------------
(***************************************************************************)
(* An author dresses up a sheet, without changing what its columns and     *)
(* rows mean or knowing what it changes, and uploads it; detect_layout     *)
(* finds its blocks.                                                       *)
(***************************************************************************)
EXTENDS Layout

CONSTANTS
  Sheets,    \* sheets to begin with: [sheet, meant]
  MaxEdits,
  Careless   \* whether headers are dressed up in ways the code misreads

ASSUME EditsAssumption == MaxEdits \in Nat /\ Careless \in BOOLEAN

VARIABLES
  meant,   \* the blocks the author has in mind: axis, lines; and the rows of
           \* its header: top, the one that dates all columns, that of years
  layout,  \* layout.json
  edits

vars == <<sheet, meant, layout, edits>>

NoLayout == [blocks |-> <<>>, done |-> FALSE]

Init ==
  /\ \E s \in Sheets : sheet = s.sheet /\ meant = s.meant
  /\ layout = NoLayout
  /\ edits = 0

DetectLayout ==
  /\ ~layout.done
  /\ layout' = [blocks |-> Detected, done |-> TRUE]
  /\ UNCHANGED <<sheet, meant, edits>>

-----------------------------------------------------------------------------
(* Edits *)

Edit(s, m) ==
  /\ edits < MaxEdits
  /\ sheet' = s /\ meant' = m
  /\ layout' = NoLayout
  /\ edits' = edits + 1

Past(x, r) == IF x >= r THEN x + 1 ELSE x

(* A new row r, or a new column, before the old one. *)
WithRow(r, cells) ==
  [sheet EXCEPT
     !.rows = {Past(x, r) : x \in @} \cup {r},
     !.text = [p \in {<<r, c>> : c \in DOMAIN cells} \cup {<<Past(q[1], r), q[2]>> : q \in DOMAIN @} |->
                 IF p[1] = r THEN cells[p[2]] ELSE @[<<IF p[1] > r THEN p[1] - 1 ELSE p[1], p[2]>>]]]

Below(r) ==
  [b \in DOMAIN meant |->
     [meant[b] EXCEPT !.lines = {Past(x, r) : x \in @}, !.top = Past(@, r),
                      !.head = Past(@, r), !.years = Past(@, r)]]

NoCells == [c \in {} |-> NoAtom]
One(c, t) == [x \in {c} |-> t]
LabelColumn == Cardinality(sheet.hidden) + 1
FirstLine(b) == Least(meant[b].lines)
Axis(b) == meant[b].axis

InsertBlank(r) == Edit(WithRow(r, NoCells), Below(r))

(* "№ 1 2 3" under the header. *)
NumberColumns(b) ==
  LET r == FirstLine(b)
      Nth(c) == CHOOSE i \in DOMAIN Axis(b) : Axis(b)[i].col = c
      cells == [c \in {LabelColumn} \cup {h.col : h \in Members(Axis(b))} |->
                  IF c = LabelColumn THEN Text("index label") ELSE Whole(Nth(c))]
  IN  Edit(WithRow(r, cells), Below(r))

Untagged(h) == ~h.tagged
OnlyPeriods(b) == \A h \in Members(Axis(b)) : h.role \in PeriodRoles

(* "Forecast" over the block: all columns without a tag of their own. *)
Banner(b, role) ==
  LET r == meant[b].top
      m == Below(r)
  IN  /\ ~meant[b].banner
      /\ Careless \/ OnlyPeriods(b)
      /\ Edit(WithRow(r, One(LabelColumn, Marker(role))),
              [m EXCEPT ![b].banner = TRUE, ![b].top = r,
                        ![b].axis = [i \in DOMAIN @ |-> IF Untagged(@[i]) THEN [@[i] EXCEPT !.role = role] ELSE @[i]]])

(* "Fact" under the header of one column. *)
MarkColumn(b, i, role) ==
  LET r == FirstLine(b)
      m == Below(r)
  IN  /\ Untagged(Axis(b)[i])
      /\ Careless \/ Axis(b)[i].col \in CalendarCols(sheet.rows)
      /\ Edit(WithRow(r, One(Axis(b)[i].col, Marker(role))),
              [m EXCEPT ![b].axis[i].role = role, ![b].axis[i].tagged = TRUE])

(* "2025E" for 2025. *)
TagColumn(b, i, role) ==
  LET p == <<meant[b].head, Axis(b)[i].col>>
  IN  /\ Untagged(Axis(b)[i])
      /\ p \in DOMAIN sheet.text /\ Plainly(sheet.text[p]).kind = "full"
      /\ Edit([sheet EXCEPT !.text[p] = Tagged(Plainly(@), role)],
              [meant EXCEPT ![b].axis[i].role = role, ![b].axis[i].tagged = TRUE])

(* A last column with a total or a scenario. *)
AddColumn(b, n, role) ==
  LET c == Greatest({h.col : h \in Members(Axis(b))}) + 1
      p == <<meant[b].head, c>>
  IN  /\ Careless \/ ~meant[b].banner
      /\ \A h \in Members(Axis(b)) : h.key # NamedKey(n)
      /\ Edit([sheet EXCEPT !.text = [q \in DOMAIN @ \cup {p} |-> IF q = p THEN Named(n, role) ELSE @[q]]],
              [meant EXCEPT ![b].axis = Append(@, [key |-> NamedKey(n), col |-> c, role |-> role, tagged |-> TRUE])])

(* The year is written in the first of its columns only. *)
DropYear(b, i) ==
  LET p == <<meant[b].years, Axis(b)[i].col>>
      others == {c \in ColsIn(meant[b].years) : At(meant[b].years, c).kind = "integer"} \ {p[2]}
  IN  /\ i > 1 /\ Year(Axis(b)[i].key) = Year(Axis(b)[i - 1].key)
      /\ p \in DOMAIN sheet.text
      /\ Careless \/ Untagged(Axis(b)[i])
      /\ Cardinality(others) >= 2
      /\ Edit([sheet EXCEPT !.text = [q \in DOMAIN @ \ {p} |-> @[q]]], meant)

(* A hidden first column of notes on the rows that have cells. *)
HideNotes ==
  /\ sheet.hidden = {}
  /\ Edit([sheet EXCEPT !.hidden = {1},
             !.text = [p \in {<<q[1], 1>> : q \in DOMAIN @} \cup {<<q[1], q[2] + 1>> : q \in DOMAIN @} |->
                         IF p[2] = 1 THEN Text("label") ELSE @[<<p[1], p[2] - 1>>]]],
          [b \in DOMAIN meant |-> [meant[b] EXCEPT !.axis = [i \in DOMAIN @ |-> [@[i] EXCEPT !.col = @ + 1]]]])

MarkerRoles == {"historical", "forecast"}

Next ==
  \/ DetectLayout
  \/ \E r \in sheet.rows : InsertBlank(r)
  \/ HideNotes
  \/ \E b \in DOMAIN meant :
       \/ NumberColumns(b)
       \/ \E role \in MarkerRoles : Banner(b, role)
       \/ AddColumn(b, TotalName, "total") \/ AddColumn(b, StubName + 1, "scenario")
       \/ \E i \in DOMAIN Axis(b) :
            \/ \E role \in MarkerRoles : MarkColumn(b, i, role) \/ TagColumn(b, i, role)
            \/ DropYear(b, i)

Spec == Init /\ [][Next]_vars

-----------------------------------------------------------------------------
(* Properties *)

Understood(b) ==
  [axis  |-> [i \in DOMAIN Axis(b) |-> [key |-> Axis(b)[i].key, col |-> Axis(b)[i].col, role |-> Axis(b)[i].role]],
   lines |-> meant[b].lines]

(* The layout is what the author meant: each block's columns with their    *)
(* periods and roles, and its lines, in whatever way the header is laid    *)
(* out and dressed up.                                                     *)
SheetUnderstood == layout.done => layout.blocks = [b \in DOMAIN meant |-> Understood(b)]
=============================================================================
