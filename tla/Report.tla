-------------------------------- MODULE Report --------------------------------
(***************************************************************************)
(* compose_report: the cards of the findings with what they reach in the   *)
(* model (trace_lineage), the conclusions drawn from them, the questions,  *)
(* the headline and the verdict.  Wording and the prose of the chat port   *)
(* are left out (the port is in PortSlots).                                *)
(***************************************************************************)
EXTENDS Detectors, FrsControls

CONSTANT MaxConclusions  \* MAX_CONCLUSIONS

ASSUME ReportAssumption == MaxConclusions \in Nat \ {0}

(* The members of a set in the order Earlier. *)
Arranged(S, Earlier(_, _)) ==
  [n \in 1..Cardinality(S) |->
     CHOOSE x \in S : Cardinality({y \in S : Earlier(y, x)}) = n - 1]

-----------------------------------------------------------------------------
(* Cards *)

IdentityNames == {"I1", "I3a", "I3b", "I4", "I5", "I6", "I7", "I8", "I8b", "I9", "I10",
                  "I11", "I12", "I13"}

BaseSeverity(detector) ==
  CASE detector \in IdentityNames \cup {"excel_error", "circular", "agg_double_count", "scenario_switch"} -> "error"
    [] detector \in Controls \cup {"unused_cell"} -> "risk"
    [] OTHER -> "warning"

FreezeTags == {"likely_intentional", "edge_period", "hist_manual_adjustment"}
Severity(c) == IF c.tags \cap FreezeTags # {} /\ BaseSeverity(c.detector) = "error"
               THEN "warning" ELSE BaseSeverity(c.detector)

(* A candidate with the cells computed from it, and the outputs and        *)
(* metrics among them.                                                     *)
Card(c) ==
  LET path == Dependents(c.refs)
      outputs == {p \in path : /\ p[1] \in Rows /\ book.rows[p[1]].out
                               /\ book.rows[p[1]].concept # NoConcept}
  IN  [detector |-> c.detector, refs |-> c.refs, tags |-> c.tags, severity |-> Severity(c),
       path |-> path, outputs |-> outputs, metrics |-> {book.rows[p[1]].concept : p \in outputs}]

(* Candidates without a cell of the workbook are dropped. *)
Cards(cs) == {Card(c) : c \in {d \in cs : d.refs \cap book.cells # {}}}

Flagged(results) == {f \in Controls : results[f].status = "flagged"}
AsCandidates(results) == {Plain(f, results[f].refs) : f \in Flagged(results)}

-----------------------------------------------------------------------------
(* Conclusions *)

Hardcode == {"literal_in_ast", "value_instead_of_formula", "pattern_break"}
Skipped  == {"unused_cell", "xlm_or_vba"}
Trusted  == IdentityNames \cup
  {"excel_error", "error_masking", "circular", "agg_range_gap", "agg_double_count", "scenario_switch",
   "stress_rate_unchanged", "conflicting_rate", "conflicting_fx", "scale_mismatch", "hidden_input",
   "external_link"}

Columns(card) == {p[2] : p \in card.refs}
SameColumns(l, r) == Columns(l) = {} \/ Columns(r) = {} \/ Columns(l) \cap Columns(r) # {}
Meets(l, r) == l.metrics \cap r.metrics # {} \/ l.outputs \cap r.outputs # {}

Conclusion(kind, topic, cards) ==
  [kind |-> kind, topic |-> topic, cards |-> {<<c.detector, c.refs>> : c \in cards},
   error |-> \E c \in cards : c.severity = "error"]

(* The cards of the pairs that belong together. *)
Paired(cards, lefts, rights, Ok(_, _)) ==
  UNION {{p[1], p[2]} : p \in {q \in {c \in cards : c.detector \in lefts} \X {c \in cards : c.detector \in rights} :
                                 Ok(q[1], q[2])}}

HardcodeEbitda(cards) ==
  Paired(cards, Hardcode, {"F02"},
         LAMBDA l, r : "hist_manual_adjustment" \notin l.tags /\ SameColumns(l, r) /\ Meets(l, r))

BalanceCash(cards) == Paired(cards, {"I1"}, {"F08"}, SameColumns)

ExternalMetric(cards) ==
  Paired(cards, {"external_link"}, {c.detector : c \in cards} \ (Skipped \cup {"external_link"}),
         LAMBDA l, r : Meets(l, r) \/ l.refs \cap r.path # {})

(* The conclusions that have cards. *)
NotEmpty(cs) == Among(cs, {c \in Members(cs) : c.cards # {}})

(* mutant: each combination looks at all the cards *)
CombosShared(cards) ==
  NotEmpty(<<Conclusion("combo", "hardcode_ebitda", HardcodeEbitda(cards)),
            Conclusion("combo", "balance_cash", BalanceCash(cards)),
            Conclusion("combo", "external_metric", ExternalMetric(cards))>>)

(* A card belongs to the first combination that takes it. *)
Combos(cards) ==
  LET first  == HardcodeEbitda(cards)
      second == BalanceCash(cards \ first)
      third  == ExternalMetric(cards \ (first \cup second))
  IN  NotEmpty(<<Conclusion("combo", "hardcode_ebitda", first), Conclusion("combo", "balance_cash", second),
                Conclusion("combo", "external_metric", third)>>)

(* The order in which the detectors run. *)
Stages == <<{"excel_error"}, {"error_masking"}, {"circular"}, {"unresolved_dynamic"}, {"external_link"},
            {"xlm_or_vba"}, Hardcode \cup {"source_switch"}, {"agg_range_gap"}, {"agg_double_count"},
            {"unused_cell"}, {"hidden_input"}, {"scenario_switch"}, {"stress_rate_unchanged"},
            {"conflicting_rate"}, {"conflicting_fx"}, {"scale_mismatch"}, {"below_breakeven"},
            {"negative_npv"}, {"irr_below_wacc"}, {"volume_without_ap"}, {"volume_without_capex"},
            {"volume_without_cogs"}, {"volume_without_headcount"}, {"volume_without_inventory"},
            {"volume_without_wc"},
            {"I1"}, {"I3a"}, {"I3b"}, {"I13"}, {"I4"}, {"I5"}, {"I6"}, {"I7"}, {"I9"}, {"I10"},
            {"I11"}, {"I12"}, {"I8"}, {"I8b"},
            {"F01"}, {"F02"}, {"F03"}, {"F04"}, {"F05"}, {"F06"}, {"F07"}, {"F08"}, {"F09"}, {"F10"},
            {"F11"}, {"F12"}, {"F13"}, {"F14"}>>
Stage(detector) == CHOOSE i \in DOMAIN Stages : detector \in Stages[i]

(* One conclusion for each detector, as the detectors first report.        *)
Grouped(kind, cards) ==
  LET Of(detector) == {c \in cards : c.detector = detector}
      First(detector) == FirstOf(UNION {c.refs \cap book.cells : c \in Of(detector)})
      Earlier(d, e) == Stage(d) < Stage(e) \/ (Stage(d) = Stage(e) /\ Before(First(d), First(e)))
      order == Arranged({c.detector : c \in cards}, Earlier)
  IN  [i \in DOMAIN order |-> Conclusion(kind, order[i], Of(order[i]))]

Conclusions(cards) ==
  LET combos == Combos(cards)
      taken  == UNION {c.cards : c \in Members(combos)}
      rest   == {c \in cards : <<c.detector, c.refs>> \notin taken /\ c.detector \notin Skipped}
      trust  == {c \in rest : c.detector \in Trusted \/ (c.detector \in Hardcode /\ c.metrics # {})}
      risks  == {c \in rest : c.detector \in Controls}
      all    == combos \o Grouped("trust", trust) \o Grouped("dynamics", risks)
  IN  SubSeq(all, 1, IF Len(all) < MaxConclusions THEN Len(all) ELSE MaxConclusions)

-----------------------------------------------------------------------------
(* Questions, headline and verdict *)

(* A question about missing rows cites the first cell of the book, and of  *)
(* two questions of one kind about the same cells the first is kept.       *)
AskedQuestions(qs) ==
  {[kind |-> "identity_gap", refs |-> {FirstOf(book.cells)}, missing |-> qs[i].missing] : i \in {1} \cap DOMAIN qs}

HighIssues(results) == {f \in Flagged(results) : results[f].priority = "high"}
Firstly(names) == Arranged(names, LAMBDA d, e : Stage(d) < Stage(e))[1]

(* The subject: the first error, else the first urgent issue, else none. *)
Headline(cards, results) ==
  LET errors == {c.detector : c \in {d \in cards : d.severity = "error"}}
  IN  IF errors # {} THEN Firstly(errors)
      ELSE IF HighIssues(results) # {} THEN Firstly(HighIssues(results)) ELSE "empty"

(* What makes the model unfit for a credit decision. *)
Blockers(cards, results) ==
  HighIssues(results)
    \cup {c.detector : c \in {d \in cards : \/ d.detector \in IdentityNames /\ d.severity = "error"
                                            \/ d.detector = "excel_error"}}

Compose(candidates, questions, results) ==
  LET found == Cards(candidates)
  IN  [findings |-> found,
       conclusions |-> Conclusions(found \cup Cards(AsCandidates(results))),
       questions |-> AskedQuestions(questions),
       headline |-> Headline(found, results),
       blockers |-> Blockers(found, results)]
=============================================================================
