----------------------------- MODULE MappingRounds ----------------------------
(***************************************************************************)
(* How the rows of a workbook get their concepts, and how the analyst's    *)
(* answers change them: the cascade of map_layout (glossary, rule, embed,  *)
(* chat, question), the questions of the report, and apply_hitl, which     *)
(* writes the answers to the actor's glossary and starts the next round.   *)
(*                                                                         *)
(* Failures, kills and the order of files are PipelineRun's: here a round  *)
(* goes on until its report is there.  A row stands for its place in the   *)
(* layout; its label, its parent's label and the concepts are values.      *)
(***************************************************************************)
EXTENDS Integers, Sequences, FiniteSets

CONSTANTS
  Layout,       \* rows in the order of the layout: sheet, row, label, parent
  Norm(_),      \* normalize_label: parentheses, spaces and case dropped
  Taxonomy,     \* concept ids in the order of taxonomy.yaml
  Revenue,      \* "pnl.revenue"
  GmvConcept,   \* "pnl.gmv"
  GmvLabel,     \* the normalized label "gmv"
  Unknown,      \* "unknown", an option of every question
  None,         \* no concept
  NoFile,       \* a file that is not there
  BangSheets,   \* sheets with "!" in their name
  Ranking,      \* rank_concepts, by label
  Confident,    \* labels whose first concept passes confident_match
  TopK,         \* TOP_K
  EarlierGlossaries, \* glossaries the actor's earlier audits may have left
  Identities,   \* in their order, when detect_identities asks: has, lacks, needs
  FirstCell,    \* the first cell of the workbook
  Findings,     \* in their order, the cells of findings that may ask the analyst
  StaleAnswers, \* whether answers may refer to a report since replaced
  MaxElsewhere  \* bound: answers given in other audits of the actor

ConceptIds == {Taxonomy[i] : i \in DOMAIN Taxonomy}
Values     == ConceptIds \cup {Unknown}
Places     == DOMAIN Layout

(* The glossary's key of a row: its own and its parent's normalized label. *)
KeyOf(p) == <<Norm(Layout[p].label), Norm(Layout[p].parent)>>
Keys     == {KeyOf(p) : p \in Places}

(* The cell of a row's label; a block has one column of labels.             *)
CellOf(p) == [sheet |-> Layout[p].sheet, row |-> Layout[p].row]

ASSUME RowAssumption ==
  /\ Layout \in Seq([sheet : {Layout[p].sheet : p \in DOMAIN Layout},
                     row : Nat,
                     label : {Layout[p].label : p \in DOMAIN Layout},
                     parent : {Layout[p].parent : p \in DOMAIN Layout}])
  /\ \A p, q \in DOMAIN Layout :
       Layout[p].sheet = Layout[q].sheet /\ Layout[p].row = Layout[q].row => p = q
ASSUME ConceptAssumption ==
  /\ Unknown \notin ConceptIds
  /\ None \notin Values
  /\ Revenue # GmvConcept /\ Revenue # Unknown /\ Revenue # None
  /\ \A p \in Places :
       Ranking[Layout[p].label] \in Seq(ConceptIds) \ {<<>>}
ASSUME BoundAssumption ==
  /\ EarlierGlossaries \subseteq [Keys -> Values \cup {None}]
  /\ TopK \in Nat \ {0}
  /\ DOMAIN Identities \subseteq Nat /\ DOMAIN Findings \subseteq Nat
  /\ MaxElsewhere \in Nat
  /\ StaleAnswers \in BOOLEAN

Sources == {"glossary", "rule", "embed", "chat", "question"}

VARIABLES
  glossary,  \* the actor's glossary
  mapping,   \* mapping.json: concept and source of each row, whether ranked
  report,    \* report.json: its questions, the findings that asked
  seen,      \* the mapping questions the analyst downloaded last
  wanted,    \* history: the concept last asked for a row, None if overruled
  astray,    \* history: keys whose entry was an answer about another row
  elsewhere  \* answers given in other audits

vars == <<glossary, mapping, report, seen, wanted, astray, elsewhere>>

-----------------------------------------------------------------------------
(* The cascade *)

IsGmv(p) == Norm(Layout[p].label) = GmvLabel

(* mutant: the pick stands as it is *)
GuardNothing(p, c) == c

(* _guard *)
Guard(p, c) ==
  IF IsGmv(p) /\ (c = Revenue \/ c = None)
    THEN IF GmvConcept \in ConceptIds THEN GmvConcept ELSE None
    ELSE c

(* mutant: a row without an entry has no source *)
CollectedSourceless(p) ==
  LET c == Guard(p, glossary[KeyOf(p)])
  IN [concept |-> c, source |-> IF c = None THEN None ELSE "glossary"]

(* _collect_rows: a glossary entry first, then the rule. *)
Collected(p) ==
  LET g == glossary[KeyOf(p)]
      c == Guard(p, g)
  IN [concept |-> c,
      source  |-> CASE c = None           -> "question"
                    [] g # None /\ c = g  -> "glossary"
                    [] OTHER              -> "rule"]

Unmapped(rows) == {p \in Places : rows[p].concept = None}

(* A row takes what a port picked for it, unless that is nothing. *)
Takes(row, p, c, port) ==
  IF Guard(p, c) = None THEN row ELSE [concept |-> Guard(p, c), source |-> port]

EmbedPick(p) ==
  LET label == Layout[p].label
  IN IF label \in Confident THEN Ranking[label][1] ELSE None

(* mutant: the embedding is asked about every row *)
EmbeddedEveryRow(rows) ==
  [p \in Places |-> Takes(rows[p], p, EmbedPick(p), "embed")]

Embedded(rows) ==
  [p \in Places |-> IF p \in Unmapped(rows)
                      THEN Takes(rows[p], p, EmbedPick(p), "embed") ELSE rows[p]]

(* What the chat answered for the rows it was asked about before an error,  *)
(* or before the budget was spent.                                          *)
Chatted(rows, picks) ==
  [p \in Places |-> IF p \in DOMAIN picks
                      THEN Takes(rows[p], p, picks[p], "chat") ELSE rows[p]]

(* The rows the chat is asked about: the first ones of those left. *)
Prefixes(rows) == {{p \in Unmapped(rows) : p < n} : n \in 1..Len(Layout) + 1}

(* _question, without the prompt *)
FirstOf(s) == {s[i] : i \in {j \in DOMAIN s : j <= TopK}}

Options(p, ranked) ==
  FirstOf(IF ranked THEN Ranking[Layout[p].label] ELSE Taxonomy) \cup {Unknown}

(* The questions of mapping.json: the rows left over, with the options.    *)
(* The id of a question is q_n, counted in the order of the layout.         *)
Number(ps, p) == Cardinality({q \in ps : q <= p})

Asks(m) ==
  LET left == Unmapped(m.rows)
  IN [p \in left |-> [id |-> Number(left, p), options |-> Options(p, m.ranked)]]

(* detect_identities: the identities that lack a concept *)
Book(m) == {m.rows[p].concept : p \in Places} \ {None}

Lacking(m) ==
  {i \in DOMAIN Identities :
     /\ Identities[i].has \subseteq Book(m)
     /\ Identities[i].lacks \cap Book(m) = {}
     /\ ~Identities[i].needs \subseteq Book(m)}

-----------------------------------------------------------------------------
(* _merge_questions *)

(* A question of the report by its origin, its place there and what it      *)
(* cites: the label of a row, the first cell of the workbook for every      *)
(* identity, the cells of a finding.                                        *)
RowQuestion(p)      == [kind |-> "mapping", no |-> p, cells |-> {CellOf(p)}]
IdentityQuestion(i) == [kind |-> "identity_gap", no |-> i, cells |-> {FirstCell}]
FindingQuestion(f)  == [kind |-> "explain", no |-> f, cells |-> Findings[f]]

Raised(m, flagged) ==
  {RowQuestion(p) : p \in Unmapped(m.rows)}
    \cup {IdentityQuestion(i) : i \in Lacking(m)}
    \cup {FindingQuestion(f) : f \in flagged}

Turn == [mapping |-> 1, identity_gap |-> 2, explain |-> 3]

Ahead(q, r) == Turn[q.kind] < Turn[r.kind] \/ (q.kind = r.kind /\ q.no < r.no)

(* mutant: the sheet of a cell does not count *)
MergeKeyByRow(q) == <<q.kind, {c.row : c \in q.cells}>>

MergeKey(q) == <<q.kind, q.cells>>

(* Of the questions of one key the first is kept. *)
Merged(raised) ==
  {q \in raised : \A r \in raised : Ahead(r, q) => MergeKey(r) # MergeKey(q)}

-----------------------------------------------------------------------------
Question == [id : 1..Len(Layout), options : SUBSET Values]

(* Questions about some of the rows. *)
AsksOK(asks) == DOMAIN asks \subseteq Places /\ asks \in [DOMAIN asks -> Question]

OtherQuestions ==
  {IdentityQuestion(i) : i \in DOMAIN Identities} \cup {FindingQuestion(f) : f \in DOMAIN Findings}

Mappings == [rows : [Places -> [concept : Values \cup {None}, source : Sources]],
             ranked : BOOLEAN]

Statuses == {"needs_input", "degraded", "succeeded"}

ReportOK(r) ==
  /\ AsksOK(r.asks)
  /\ r.others \subseteq OtherQuestions
  /\ r.flagged \subseteq DOMAIN Findings
  /\ r.status \in Statuses

TypeOK ==
  /\ glossary \in [Keys -> Values \cup {None}]
  /\ mapping = NoFile \/ mapping \in Mappings
  /\ report = NoFile \/ ReportOK(report)
  /\ AsksOK(seen)
  /\ wanted \in [Places -> Values \cup {None}]
  /\ astray \in SUBSET Keys
  /\ elsewhere \in 0..MaxElsewhere

(* A workbook was uploaded by an actor who may have answered questions of   *)
(* earlier audits.                                                          *)
Init ==
  /\ glossary \in EarlierGlossaries
  /\ mapping = NoFile
  /\ report = NoFile
  /\ seen = [p \in {} |-> {}]
  /\ wanted = [p \in Places |-> None]
  /\ astray = {}
  /\ elsewhere = 0

(* mapping_workbook: any port may be missing, out of slots or out of budget *)
MapLayout ==
  /\ mapping = NoFile
  /\ \E ranked \in BOOLEAN :
       LET collected == [p \in Places |-> Collected(p)]
           rows      == IF ranked THEN Embedded(collected) ELSE collected
       IN \E asked \in Prefixes(rows) : \E picks \in [asked -> ConceptIds \cup {None}] :
            mapping' = [rows |-> Chatted(rows, picks), ranked |-> ranked]
  /\ UNCHANGED <<glossary, report, seen, wanted, astray, elsewhere>>

(* check and explain: the questions and the status of the report *)
ComposeReport ==
  /\ mapping # NoFile
  /\ report = NoFile
  /\ \E flagged \in SUBSET DOMAIN Findings, quiet \in {"degraded", "succeeded"} :
       LET kept == Merged(Raised(mapping, flagged))
           rows == {p \in Places : RowQuestion(p) \in kept}
       IN report' = [asks    |-> [p \in rows |-> Asks(mapping)[p]],
                     others  |-> {q \in kept : q.kind # "mapping"},
                     flagged |-> flagged,
                     status  |-> IF kept # {} THEN "needs_input" ELSE quiet]
  /\ UNCHANGED <<glossary, mapping, seen, wanted, astray, elsewhere>>

(* GET /v1/audits/{id}/report *)
Download ==
  /\ report # NoFile
  /\ seen' = report.asks
  /\ UNCHANGED <<glossary, mapping, report, wanted, astray, elsewhere>>

-----------------------------------------------------------------------------
(* POST /v1/audits/{id}/answers *)

(* _sheet_row splits the cited cell at its first "!". *)
Addressable(p) == Layout[p].sheet \notin BangSheets

(* mutant: rows are told apart by their number alone *)
CitedByRow(p) == CHOOSE q \in Places : Layout[q].row = Layout[p].row

Cited(p) == CHOOSE q \in Places :
              Layout[q].sheet = Layout[p].sheet /\ Layout[q].row = Layout[p].row

(* The row the server finds under the number the analyst saw for p. *)
Found(asks, p) == CHOOSE q \in DOMAIN asks : asks[q].id = seen[p].id

(* mutant: the glossary is written under the label as it stands *)
AnswersRaw(b, to, k) ==
  {p \in DOMAIN b : Addressable(to[p]) /\ <<Layout[to[p]].label, Layout[to[p]].parent>> = k}

(* The answers, by row, that go to key k when they are taken for rows to.   *)
Answers(b, to, k) == {p \in DOMAIN b : Addressable(to[p]) /\ KeyOf(Cited(to[p])) = k}

(* An answer is refused unless the report has its question and option. *)
Valid(b) ==
  \A p \in DOMAIN b :
    \E q \in DOMAIN report.asks :
      report.asks[q].id = seen[p].id /\ b[p] \in report.asks[q].options

(* _merge_answers: of several answers to one key the last of the body stays *)
Merge(b, last) ==
  [k \in Keys |-> IF k \in DOMAIN last THEN b[last[k]] ELSE glossary[k]]

Take(b, to) ==
  LET keys == {k \in Keys : Answers(b, to, k) # {}}
  IN \E last \in [keys -> DOMAIN b] :
       /\ \A k \in keys : last[k] \in Answers(b, to, k)
       /\ glossary' = Merge(b, last)
       /\ astray' = (astray \ keys) \cup {k \in keys : KeyOf(last[k]) # k}

(* What the analyst asked for, as far as rows of one key agree. *)
Wanted(b) ==
  [p \in Places |->
    LET said == Answers(b, [q \in DOMAIN b |-> q], KeyOf(p))
    IN IF said = {} THEN wanted[p]
       ELSE IF p \in said /\ \A q \in said : b[q] = b[p] THEN b[p] ELSE None]

Batches ==
  UNION {{b \in [ps -> Values] : \A p \in ps : b[p] \in seen[p].options} : ps \in SUBSET DOMAIN seen}

(* Answers to some of the questions seen; the answers to other questions    *)
(* of the report are accepted and have no effect.  A report without any     *)
(* question takes no answers.                                               *)
Answer(b) ==
  /\ report # NoFile
  /\ DOMAIN report.asks # {} \/ report.others # {}
  /\ StaleAnswers \/ seen = report.asks
  /\ Valid(b)
  /\ Take(b, [p \in DOMAIN b |-> Found(Asks(mapping), p)])
  /\ wanted' = Wanted(b)
  /\ mapping' = NoFile
  /\ report' = NoFile
  /\ UNCHANGED <<seen, elsewhere>>

(* Another audit of the actor writes to the same glossary; a row labelled   *)
(* GMV is only asked about when the taxonomy has no concept for it.         *)
AnswerElsewhere(k, c) ==
  /\ elsewhere < MaxElsewhere
  /\ k[1] = GmvLabel => GmvConcept \notin ConceptIds
  /\ glossary' = [glossary EXCEPT ![k] = c]
  /\ wanted' = [p \in Places |-> IF KeyOf(p) = k THEN None ELSE wanted[p]]
  /\ astray' = astray \ {k}
  /\ elsewhere' = elsewhere + 1
  /\ UNCHANGED <<mapping, report, seen>>

(* The analyst answers a question that an answer can settle. *)
AnswerSome == \E b \in Batches : Answer(b) /\ \E p \in DOMAIN b : Addressable(p)

Next ==
  \/ MapLayout
  \/ ComposeReport
  \/ Download
  \/ \E b \in Batches : Answer(b)
  \/ \E k \in Keys, c \in Values : AnswerElsewhere(k, c)

Spec == Init /\ [][Next]_vars

(* A round goes on until its report is there; the analyst downloads it and, *)
(* as long as there is a question to settle, answers one now and again.     *)
FairSpec ==
  /\ Spec
  /\ WF_vars(MapLayout)
  /\ WF_vars(ComposeReport)
  /\ WF_vars(Download)
  /\ SF_vars(AnswerSome)

-----------------------------------------------------------------------------
(* Properties *)

(* GMV is never taken for revenue, whatever the glossary, the embedding or  *)
(* the chat say (_guard; guide.md: GMV is deliberately not revenue).        *)
GmvNotRevenue ==
  mapping # NoFile => \A p \in Places : IsGmv(p) => mapping.rows[p].concept # Revenue

(* What the analyst last asked for a row is what every later round maps it  *)
(* to, whatever the ports say then (the glossary beats a guess), unless     *)
(* GMV was to be revenue or a row of the same key was answered otherwise.   *)
AnswersHonoured ==
  mapping # NoFile =>
    \A p \in Places :
      wanted[p] # None => \/ mapping.rows[p].concept = wanted[p]
                          \/ IsGmv(p) /\ wanted[p] = Revenue

(* An entry of the glossary answers a question about a row of its own key.  *)
(* Question numbers are given anew in every round.                          *)
AnswersMeanTheirRows == astray = {}

(* The merge of the questions loses no row, no origin and no finding, and   *)
(* the status tells of them: every row without a concept is asked about,    *)
(* identities that lack a concept leave a question, so does every finding   *)
(* that asks, and a report is succeeded or degraded only over a mapping     *)
(* without holes (guide.md, reading the report).                            *)
NoQuestionLost ==
  report # NoFile =>
    /\ DOMAIN report.asks = Unmapped(mapping.rows)
    /\ Lacking(mapping) # {} => \E q \in report.others : q.kind = "identity_gap"
    /\ \A f \in report.flagged :
         \E q \in report.others : q.kind = "explain" /\ q.cells = Findings[f]
    /\ report.status # "needs_input" =>
         Unmapped(mapping.rows) = {} /\ Lacking(mapping) = {} /\ report.flagged = {}

(* Answering ends: from some point on no round asks about a row whose       *)
(* answer can be stored, though the ports come and go between the rounds.   *)
QuestionsRunOut ==
  <>[](report # NoFile => \A p \in DOMAIN report.asks : ~Addressable(p))
=============================================================================
