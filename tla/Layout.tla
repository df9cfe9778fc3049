--------------------------------- MODULE Layout -------------------------------
(***************************************************************************)
(* detect_layout: the bands of header rows of a sheet, the period and role *)
(* of every column under them, and the rows that are lines of a block.     *)
(*                                                                         *)
(* The text of a cell is what the classifier's patterns make of it: a      *)
(* header with the parts of a date it names, a number, or a label, of      *)
(* which the few that say what a header row holds are told apart.          *)
(***************************************************************************)
EXTENDS Periods

VARIABLE sheet  \* text: (row, column) -> text; rows: those with a cell;
                \* hidden: columns not shown

(* A text: n is the value of an integer and the name of a column that is   *)
(* no period; a part of a date that is 0 is not there.                     *)
Text(kind) == [kind |-> kind, n |-> 0, y |-> 0, q |-> 0, m |-> 0, d |-> 0,
               role |-> "", explicit |-> FALSE]
Whole(n)   == [Text("integer") EXCEPT !.n = n]
Quarter(q) == [Text("quarter_token") EXCEPT !.q = q]
Marker(role) == [Text("role_marker") EXCEPT !.role = role, !.explicit = TRUE]
Dated(y, q, m, d) == [Text("full") EXCEPT !.y = y, !.q = q, !.m = m, !.d = d, !.role = "historical"]
Tagged(t, role) == [t EXCEPT !.role = role, !.explicit = TRUE]
Named(n, role)  == [Text("full") EXCEPT !.n = n, !.role = role, !.explicit = TRUE]

Numbers == {"integer", "decimal", "fraction"}
IsNumber(t) == t.kind \in Numbers

-----------------------------------------------------------------------------
(* What a text means in a header *)

NoAtom == Text("none")

IsYearNumber(t) == t.kind = "integer" /\ t.n \in 1900..2099

(* classify_atom: a fraction of a year is noise; an integer is a year, or, *)
(* in a row that says so, a quarter or a month.                            *)
Atom(t, quarters, months) ==
  CASE t.kind = "fraction"                                     -> Text("noise")
    [] t.kind \in {"full", "quarter_token", "role_marker"}     -> t
    [] IsYearNumber(t)                                         -> Dated(t.n, 0, 0, 0)
    [] t.kind = "integer" /\ quarters /\ t.n \in 1..4          -> Quarter(t.n)
    [] t.kind = "integer" /\ months /\ t.n \in 1..12           -> [Text("month_num") EXCEPT !.m = t.n]
    [] OTHER                                                   -> NoAtom

Plainly(t)  == Atom(t, FALSE, FALSE)
IsHeader(t) == t.kind \in {"full", "role_marker"} \/ IsYearNumber(t)
InCalendar(a) == a.kind = "full" /\ a.n = 0
IsMarker(t) == t.kind = "role_marker"

FirstWhere(s, P(_)) == s[Least({i \in DOMAIN s : P(s[i])})]
AnyWhere(s, P(_))   == \E i \in DOMAIN s : P(s[i])

(* compose_period: the period of the atoms of a column, from top to bottom. *)
NoPeriod == NoAtom
ComposePeriod(all, hint) ==
  LET atoms == SelectSeq(all, LAMBDA a : a.kind # "noise")
      years == {a.y : a \in Members(atoms)} \ {0}
      IsNamed(a) == a.kind = "full" /\ a.n # 0
      HasRole(a) == a.explicit /\ a.role \in PeriodRoles
      role  == IF AnyWhere(atoms, HasRole) THEN FirstWhere(atoms, HasRole).role ELSE "historical"
      Day(a) == a.d # 0
      InMonth(a) == a.m # 0 /\ a.d = 0
      InQuarter(a) == a.q # 0
      year  == IF years = {} THEN hint ELSE CHOOSE y \in years : TRUE
      Period(q, m, d) == [Dated(year, q, m, d) EXCEPT !.role = role]
  IN  IF Cardinality(years) > 1 THEN NoPeriod
      ELSE IF AnyWhere(atoms, IsNamed) THEN FirstWhere(atoms, IsNamed)
      ELSE IF year = 0 \/ \A a \in Members(atoms) : a.kind = "role_marker" THEN NoPeriod
      ELSE IF AnyWhere(atoms, Day) THEN Period(0, FirstWhere(atoms, Day).m, FirstWhere(atoms, Day).d)
      ELSE IF AnyWhere(atoms, InQuarter) THEN Period(FirstWhere(atoms, InQuarter).q, 0, 0)
      ELSE IF AnyWhere(atoms, InMonth) THEN Period(0, FirstWhere(atoms, InMonth).m, 0)
      ELSE Period(0, 0, 0)

(* infer_grain: the step between the months the periods begin in.          *)
InferGrain(periods) ==
  LET dated  == {p \in Members(periods) : p.n = 0}
      Starts(p) == 12 * p.y + (IF p.m # 0 THEN p.m ELSE IF p.q # 0 THEN 3 * p.q - 2 ELSE 1)
      months == Ordered({Starts(p) : p \in dated})
      steps  == [i \in 1..(Len(months) - 1) |-> months[i + 1] - months[i]]
      middle == CHOOSE v \in Members(steps) :
                  /\ 2 * Cardinality({i \in DOMAIN steps : steps[i] < v}) <= Len(steps)
                  /\ 2 * Cardinality({i \in DOMAIN steps : steps[i] <= v}) > Len(steps)
      even   == Greatest(Members(steps)) - Least(Members(steps)) <= 1
  IN  IF Cardinality({i \in DOMAIN periods : periods[i].n = 0}) < 2 THEN "none"
      ELSE IF steps # <<>>
      THEN CASE ~even                     -> "none"
             [] even /\ middle = 1        -> "month"
             [] even /\ middle \in 2..4   -> "quarter"
             [] even /\ middle \in 11..13 -> "year"
             [] OTHER                     -> "none"
      ELSE IF \A p \in dated : p.q # 0 THEN "quarter"
      ELSE IF \A p \in dated : p.m # 0 /\ p.d = 0 THEN "month"
      ELSE IF \A p \in dated : p.q = 0 /\ p.m = 0 THEN "year" ELSE "none"

(* apply_grain, with the key as text made of it. *)
NamedKey(n) == YearKey(9999) + n
TotalName == 1
StubName  == 2
Key(p, grain) ==
  IF p.n # 0 THEN NamedKey(p.n)
  ELSE IF grain = "year" THEN YearKey(p.y)
  ELSE IF p.q # 0 THEN YearKey(p.y) + 20 + p.q
  ELSE IF grain = "quarter" /\ p.m # 0 THEN YearKey(p.y) + 21 + (p.m - 1) \div 3
  ELSE YearKey(p.y) + p.m

-----------------------------------------------------------------------------
(* Rows *)

ColsIn(r)  == {p[2] : p \in {c \in DOMAIN sheet.text : c[1] = r}}
At(r, c)   == sheet.text[<<r, c>>]
IsEmpty(r) == ColsIn(r) = {}

(* The first visible text that is no number and no date. *)
LabelKind(r) ==
  LET labels == {c \in ColsIn(r) \ sheet.hidden : /\ ~IsNumber(At(r, c))
                                                  /\ At(r, c).kind \notin {"full", "quarter_token"}}
  IN  IF labels = {} THEN "" ELSE At(r, Least(labels)).kind

AtomAt(r, c) == Atom(At(r, c), LabelKind(r) = "quarter label", LabelKind(r) = "month label")

(* _row_layers *)
Layers(r) ==
  LET With(P(_)) == {c \in ColsIn(r) : P(AtomAt(r, c))}
      bounds   == LabelKind(r) \in {"start label", "end label"}
      markers  == With(LAMBDA a : a.kind = "role_marker")
      dates    == With(LAMBDA a : a.d # 0)
      years    == With(LAMBDA a : a.y # 0 /\ a.q = 0 /\ a.m = 0)
      quarters == With(LAMBDA a : a.q # 0)
      months   == With(LAMBDA a : a.m # 0 /\ a.d = 0)
      If(yes, layer) == IF yes THEN {layer} ELSE {}
  IN  If(bounds, "bounds") \cup If(markers # {}, "role") \cup If(dates # {}, "date")
        \cup If(years # {}, "year") \cup If(Cardinality(quarters) >= 2, "quarter")
        \cup If(Cardinality(months) >= 2, "month")

IsStarter(r) == Cardinality({c \in ColsIn(r) : InCalendar(Plainly(At(r, c)))}) >= 2

(* A row that numbers the columns 1, 2, 3. *)
IsCounter(r) ==
  LET counted == {c \in ColsIn(r) : At(r, c).kind = "integer" /\ ~IsHeader(At(r, c))}
  IN  /\ LabelKind(r) \in {"", "index label"}
      /\ \A c \in ColsIn(r) : At(r, c).kind \notin Numbers \ {"integer"}
      /\ Cardinality(counted) >= 2
      /\ \A c \in counted : At(r, c).n = Cardinality({b \in counted : b <= c})

IsData(r) ==
  LET plain == {c \in ColsIn(r) : ~IsHeader(At(r, c))}
  IN  /\ Layers(r) = {} /\ ~IsStarter(r) /\ ~IsCounter(r)
      /\ \E c \in plain : IsNumber(At(r, c))
      /\ \E c \in plain : ~IsNumber(At(r, c))

-----------------------------------------------------------------------------
(* Bands of header rows *)

RowList == Ordered(sheet.rows)

RoleOnly(r) == Layers(r) = {"role"}

(* The rows of banners right above a starter row, after the last band. *)
Prefix(i, last) ==
  {r \in sheet.rows : /\ last < r /\ r < RowList[i]
                      /\ RoleOnly(r)
                      /\ \A s \in sheet.rows : r <= s /\ s < RowList[i] => IsEmpty(s) \/ RoleOnly(s)}

LayersOf(band) == UNION {Layers(r) : r \in band}

CalendarCols(band) ==
  {c \in UNION {ColsIn(r) : r \in band} :
     \E r \in band : c \in ColsIn(r) /\ Plainly(At(r, c)).kind \in {"full", "quarter_token"}}

OffCalendar(r, band) ==
  {c \in ColsIn(r) : IsMarker(At(r, c))} \cap CalendarCols(band) = {}

(* Whether row r, of layers `new', ends a band of `layers' above it. *)
Ends(band, layers, r, new) ==
  \/ IsData(r)
  \/ new = {}
  \/ /\ new = {"role"} /\ layers \cap {"date", "year", "quarter", "month"} # {}
     /\ OffCalendar(r, band)
  \/ /\ layers \cap new \cap {"year", "date"} # {}
     /\ IsStarter(r)
     /\ "bounds" \notin layers \cup new

(* The rows of a band from row i of the list on, and the first row after.  *)
Band(first, i) ==
  LET upTo[j \in (i - 1)..Len(RowList)] ==
        IF j < i THEN [rows |-> first, next |-> i]
        ELSE LET band == upTo[j - 1]
                 r == RowList[j]
             IN  IF band.next < j THEN band
                 ELSE IF IsEmpty(r) \/ IsCounter(r) THEN [band EXCEPT !.next = j + 1]
                 ELSE IF Ends(band.rows, LayersOf(band.rows), r, Layers(r)) THEN band
                 ELSE [rows |-> band.rows \cup {r}, next |-> j + 1]
  IN  upTo[Len(RowList)]

(* _header_bands *)
HeaderBands ==
  LET from[i \in 1..(Len(RowList) + 1), last \in {-1} \cup sheet.rows] ==
        LET And(band) == <<band.rows>> \o from[band.next, Greatest(band.rows)]
        IN  IF i > Len(RowList) THEN <<>>
            ELSE IF ~IsStarter(RowList[i]) THEN from[i + 1, last]
            ELSE And(Band(Prefix(i, last) \cup {RowList[i]}, i + 1))
  IN  from[1, -1]

-----------------------------------------------------------------------------
(* The axis of a band *)

(* Of a pair of rows with the start and the end of the periods the end. *)
PrefersEnd(band) == {"start label", "end label"} \subseteq {LabelKind(r) : r \in band}

(* The rows of the band that date the column. *)
RowsAt(band, c) == Ordered({r \in band : /\ c \in ColsIn(r)
                                         /\ ~(PrefersEnd(band) /\ LabelKind(r) = "start label")})

ColumnAtoms(band, c, quarters, months) ==
  LET rs == RowsAt(band, c)
      atoms == [i \in DOMAIN rs |-> Atom(At(rs[i], c), quarters, months)]
  IN  SelectSeq(atoms, LAMBDA a : a.kind # "none")

Cols(band) == Ordered(UNION {ColsIn(r) : r \in band})

(* The roles that markers give to columns: a marker over a period to that  *)
(* column, another to those up to the next marker, and one alone in its    *)
(* row to all that have none.  A later row goes before an earlier one.     *)
RoleRuns(band) ==
  LET cols == Members(Cols(band))
      dated == {c \in cols : \E i \in DOMAIN ColumnAtoms(band, c, TRUE, TRUE) :
                               ColumnAtoms(band, c, TRUE, TRUE)[i].kind \in {"full", "quarter_token", "month_num"}}
      Markers(r) == {c \in ColsIn(r) : IsMarker(At(r, c))}
      Nearest(r, c) == Greatest({k \in Markers(r) : k <= c})
      Direct(r, c) == IF \E k \in Markers(r) : k <= c
                      THEN IF Nearest(r, c) \notin dated \/ Nearest(r, c) = c
                           THEN At(r, Nearest(r, c)).role ELSE ""
                      ELSE ""
      Alone(r) == IF Cardinality(Markers(r)) = 1 /\ Markers(r) \cap dated = {}
                  THEN At(r, Least(Markers(r))).role ELSE ""
      rs == Ordered(band)
      upTo[n \in 0..Len(rs)] ==
        IF n = 0 THEN [c \in cols |-> ""]
        ELSE [c \in cols |-> IF Direct(rs[n], c) # "" THEN Direct(rs[n], c)
                             ELSE IF upTo[n - 1][c] # "" THEN upTo[n - 1][c] ELSE Alone(rs[n])]
  IN  upTo[Len(rs)]

(* mutant: a banner goes before the tag in the column *)
ColumnRoleOfRun(atoms, period, run) ==
  LET HasRole(a) == a.explicit /\ a.role \in PeriodRoles
  IN  IF run # "" THEN run
      ELSE IF AnyWhere(atoms, HasRole) THEN FirstWhere(atoms, HasRole).role ELSE period.role

(* _column_role: the tag in the column, else the run it is in. *)
ColumnRole(atoms, period, run) ==
  LET HasRole(a) == a.explicit /\ a.role \in PeriodRoles
  IN  IF AnyWhere(atoms, HasRole) THEN FirstWhere(atoms, HasRole).role
      ELSE IF run # "" THEN run ELSE period.role

(* _axis_from_band: the year of a column without one is that of the column *)
(* before.                                                                 *)
AxisFrom(band) ==
  LET cols == Cols(band)
      runs == RoleRuns(band)
      quarters == \E r \in band : LabelKind(r) = "quarter label"
      months   == \E r \in band : LabelKind(r) = "month label"
      Atoms(c) == ColumnAtoms(band, c, quarters, months)
      upTo[n \in 0..Len(cols)] ==
        IF n = 0 THEN [year |-> 0, found |-> <<>>]
        ELSE LET p == ComposePeriod(Atoms(cols[n]), upTo[n - 1].year)
             IN  IF p = NoPeriod THEN upTo[n - 1]
                 ELSE [year |-> IF p.n = 0 THEN p.y ELSE upTo[n - 1].year,
                       found |-> Append(upTo[n - 1].found, [period |-> p, col |-> cols[n]])]
      found == upTo[Len(cols)].found
      grain == InferGrain([i \in DOMAIN found |-> found[i].period])
  IN  [i \in DOMAIN found |->
         [key  |-> Key(found[i].period, grain), col |-> found[i].col,
          role |-> ColumnRole(Atoms(found[i].col), found[i].period, runs[found[i].col])]]

-----------------------------------------------------------------------------
(* Blocks *)

(* The leftmost visible column of labels. *)
LabelCol(body) ==
  LET shown == {p \in DOMAIN sheet.text : p[1] \in body /\ p[2] \notin sheet.hidden}
      labels == {p \in shown : ~IsHeader(sheet.text[p]) /\ ~IsNumber(sheet.text[p])}
      Leftmost(ps) == Least({p[2] : p \in ps})
  IN  IF labels # {} THEN Leftmost(labels) ELSE IF shown # {} THEN Leftmost(shown) ELSE 1

Lines(body, band, label) ==
  {r \in body \ band : ~IsCounter(r) /\ label \in ColsIn(r)}

(* _blocks_for_sheet: a band with two periods and the rows up to the next. *)
BlockAt(bands, i) ==
  LET end  == IF i < Len(bands) THEN Least(bands[i + 1]) ELSE Greatest(sheet.rows) + 1
      body == {r \in sheet.rows : Least(bands[i]) <= r /\ r < end}
  IN  [axis |-> AxisFrom(bands[i]), lines |-> Lines(body, bands[i], LabelCol(body))]

Periodic(axis) ==
  SelectSeq(axis, LAMBDA h : h.role \in PeriodRoles /\ h.key \notin {NamedKey(TotalName), NamedKey(StubName)})

Blocks(bands) ==
  SelectSeq([i \in DOMAIN bands |-> BlockAt(bands, i)], LAMBDA b : Len(Periodic(b.axis)) >= 2)

Detected == Blocks(HeaderBands)
=============================================================================
