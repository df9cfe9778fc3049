------------------------- MODULE MappingRoundsProofs ---------------------------
(***************************************************************************)
(* What holds of MappingRounds for every layout, taxonomy, glossary and    *)
(* behaviour of the ports.                                                 *)
(***************************************************************************)
EXTENDS MappingRounds, FiniteSetTheorems, WellFoundedInduction, TLAPS

(* _guard gives a GMV row anything but revenue. *)
LEMMA GuardNotRevenue ==
  ASSUME NEW p, NEW c, IsGmv(p)
  PROVE  Guard(p, c) # Revenue
BY ConceptAssumption DEF Guard, IsGmv

(* _guard changes nothing but revenue and nothing on GMV rows. *)
LEMMA GuardKeeps ==
  ASSUME NEW p, NEW c, c # None, ~(IsGmv(p) /\ c = Revenue)
  PROVE  Guard(p, c) = c
BY DEF Guard

LEMMA GuardType ==
  ASSUME NEW p, NEW c \in Values \cup {None}
  PROVE  Guard(p, c) \in Values \cup {None}
BY DEF Guard, Values

LEMMA CollectedType ==
  ASSUME TypeOK, NEW p \in Places
  PROVE  Collected(p) \in [concept : Values \cup {None}, source : Sources]
<1>1. glossary[KeyOf(p)] \in Values \cup {None}
  BY DEF TypeOK, Keys
<1> QED
  BY <1>1, GuardType DEF Collected, Sources

LEMMA EmbedPickType ==
  ASSUME NEW p \in Places
  PROVE  EmbedPick(p) \in Values \cup {None}
<1>1. Ranking[Layout[p].label] \in Seq(ConceptIds) \ {<<>>}
  BY ConceptAssumption
<1>2. Ranking[Layout[p].label][1] \in ConceptIds
  BY <1>1
<1> QED
  BY <1>2 DEF EmbedPick, Values

LEMMA OptionsType ==
  ASSUME NEW p \in Places, NEW ranked \in BOOLEAN
  PROVE  Options(p, ranked) \in SUBSET Values
<1>1. Ranking[Layout[p].label] \in Seq(ConceptIds)
  BY ConceptAssumption
<1>2. FirstOf(Ranking[Layout[p].label]) \subseteq ConceptIds
  BY <1>1 DEF FirstOf
<1>3. FirstOf(Taxonomy) \subseteq ConceptIds
  BY DEF FirstOf, ConceptIds
<1> QED
  BY <1>2, <1>3 DEF Options, Values

LEMMA TakesType ==
  ASSUME NEW p, NEW row \in [concept : Values \cup {None}, source : Sources],
         NEW c \in Values \cup {None}, NEW port \in Sources
  PROVE  Takes(row, p, c, port) \in [concept : Values \cup {None}, source : Sources]
BY GuardType DEF Takes

-----------------------------------------------------------------------------
(* The rows a round ends with *)

(* map_layout: some rows may have been ranked, some asked about. *)
Result(ranked, picks) ==
  LET collected == [p \in Places |-> Collected(p)]
  IN Chatted(IF ranked THEN Embedded(collected) ELSE collected, picks)

LEMMA MapLayoutResult ==
  ASSUME MapLayout
  PROVE  \E ranked \in BOOLEAN : \E asked \in SUBSET Places :
           \E picks \in [asked -> ConceptIds \cup {None}] :
             /\ mapping' = [rows |-> Result(ranked, picks), ranked |-> ranked]
             /\ \A p \in asked : (IF ranked THEN Embedded([q \in Places |-> Collected(q)])
                                  ELSE [q \in Places |-> Collected(q)])[p].concept = None
<1> DEFINE collected == [p \in Places |-> Collected(p)]
           rows(ranked) == IF ranked THEN Embedded(collected) ELSE collected
<1>1. PICK ranked \in BOOLEAN : \E asked \in Prefixes(rows(ranked)) :
        \E picks \in [asked -> ConceptIds \cup {None}] :
          mapping' = [rows |-> Chatted(rows(ranked), picks), ranked |-> ranked]
  BY Zenon DEF MapLayout
<1>2. PICK asked \in Prefixes(rows(ranked)) :
        \E picks \in [asked -> ConceptIds \cup {None}] :
          mapping' = [rows |-> Chatted(rows(ranked), picks), ranked |-> ranked]
  BY <1>1
<1>3. PICK picks \in [asked -> ConceptIds \cup {None}] :
        mapping' = [rows |-> Chatted(rows(ranked), picks), ranked |-> ranked]
  BY <1>2
<1>4. asked \in SUBSET Places /\ \A p \in asked : rows(ranked)[p].concept = None
  BY <1>2 DEF Prefixes, Unmapped
<1>5. mapping' = [rows |-> Result(ranked, picks), ranked |-> ranked]
  BY <1>3, Zenon DEF Result
<1> QED
  BY <1>3, <1>4, <1>5

(* A row the glossary or the rule has settled is left alone by the ports.   *)
LEMMA SettledStays ==
  ASSUME NEW ranked \in BOOLEAN, NEW asked \in SUBSET Places,
         NEW picks \in [asked -> ConceptIds \cup {None}],
         \A q \in asked : (IF ranked THEN Embedded([r \in Places |-> Collected(r)])
                           ELSE [r \in Places |-> Collected(r)])[q].concept = None,
         NEW p \in Places, Collected(p).concept # None
  PROVE  Result(ranked, picks)[p].concept = Collected(p).concept
<1> DEFINE collected == [r \in Places |-> Collected(r)]
           rows == IF ranked THEN Embedded(collected) ELSE collected
<1>1. rows[p] = Collected(p)
  BY DEF Embedded, Unmapped
<1>2. p \notin DOMAIN picks
  BY <1>1
<1> QED
  BY <1>1, <1>2 DEF Result, Chatted

(* A GMV row does not become revenue in any step of the cascade. *)
LEMMA ResultNotRevenue ==
  ASSUME NEW ranked \in BOOLEAN, NEW asked \in SUBSET Places,
         NEW picks \in [asked -> ConceptIds \cup {None}],
         NEW p \in Places, IsGmv(p)
  PROVE  Result(ranked, picks)[p].concept # Revenue
<1> DEFINE collected == [r \in Places |-> Collected(r)]
           rows == IF ranked THEN Embedded(collected) ELSE collected
<1>1. Collected(p).concept # Revenue
  BY GuardNotRevenue DEF Collected
<1>2. ASSUME NEW row, NEW c, NEW port, row.concept # Revenue
      PROVE  Takes(row, p, c, port).concept # Revenue
  BY <1>2, GuardNotRevenue DEF Takes
<1>3. rows[p].concept # Revenue
  BY <1>1, <1>2 DEF Embedded
<1> QED
  BY <1>2, <1>3 DEF Result, Chatted

LEMMA ResultType ==
  ASSUME TypeOK, NEW ranked \in BOOLEAN, NEW asked \in SUBSET Places,
         NEW picks \in [asked -> ConceptIds \cup {None}]
  PROVE  Result(ranked, picks) \in [Places -> [concept : Values \cup {None}, source : Sources]]
<1> DEFINE Row == [concept : Values \cup {None}, source : Sources]
           collected == [r \in Places |-> Collected(r)]
           rows == IF ranked THEN Embedded(collected) ELSE collected
<1>1. collected \in [Places -> Row]
  BY CollectedType
<1>2. "embed" \in Sources /\ "chat" \in Sources
  BY DEF Sources
<1> HIDE DEF Row, collected
<1>3. Embedded(collected) \in [Places -> Row]
  <2>1. ASSUME NEW p \in Places
        PROVE  Takes(collected[p], p, EmbedPick(p), "embed") \in Row
    BY <1>1, <1>2, EmbedPickType, TakesType DEF Row
  <2> QED
    BY <1>1, <2>1 DEF Embedded
<1>4. rows \in [Places -> Row]
  BY <1>1, <1>3
<1> HIDE DEF rows
<1>5. Chatted(rows, picks) \in [Places -> Row]
  <2>1. ASSUME NEW p \in Places, p \in DOMAIN picks
        PROVE  Takes(rows[p], p, picks[p], "chat") \in Row
    <3>1. picks[p] \in Values \cup {None}
      BY <2>1 DEF Values
    <3> QED
      BY <1>2, <1>4, <3>1, TakesType DEF Row
  <2> QED
    BY <1>4, <2>1 DEF Chatted
<1> QED
  BY <1>5 DEF Result, rows, collected, Row

-----------------------------------------------------------------------------
(* The questions of a mapping *)

LEMMA PlacesAre ==
  /\ Places = 1..Len(Layout) /\ Len(Layout) \in Nat
  /\ Places \subseteq Nat
  /\ IsFiniteSet(Places) /\ Cardinality(Places) = Len(Layout)
<1>1. Places = 1..Len(Layout) /\ Len(Layout) \in Nat
  BY RowAssumption DEF Places
<1>2. ASSUME NEW n \in Nat PROVE IsFiniteSet(1..n) /\ Cardinality(1..n) = n
  BY FS_Interval
<1> QED
  BY <1>1, <1>2

(* A question is numbered among those of its report, ...                    *)
LEMMA NumberType ==
  ASSUME NEW ps \in SUBSET Places, NEW p \in ps
  PROVE  Number(ps, p) \in 1..Len(Layout)
<1> DEFINE upto == {q \in ps : q <= p}
<1>1. upto \subseteq Places /\ p \in Nat
  BY PlacesAre
<1>2. IsFiniteSet(upto) /\ Cardinality(upto) <= Len(Layout)
  BY <1>1, PlacesAre, FS_Subset
<1>3. p \in upto
  BY <1>1
<1>4. Cardinality(upto) \in Nat /\ Cardinality(upto) # 0
  BY <1>2, <1>3, FS_CardinalityType, FS_EmptySet
<1> QED
  BY <1>2, <1>4, PlacesAre DEF Number

(* ... and by its number told apart from the others.                        *)
LEMMA NumberInjective ==
  ASSUME NEW ps \in SUBSET Places, NEW p \in ps, NEW q \in ps, Number(ps, p) = Number(ps, q)
  PROVE  p = q
<1> DEFINE upto(r) == {s \in ps : s <= r}
<1>1. ps \subseteq Nat
  BY PlacesAre
<1>2. ASSUME NEW r \in ps, NEW s \in ps, r < s
      PROVE  Number(ps, r) # Number(ps, s)
  <2>1. IsFiniteSet(upto(s))
    BY PlacesAre, FS_Subset
  <2>2. r \in Nat /\ s \in Nat /\ \A x \in ps : x \in Nat
    BY <1>1
  <2>3. \A x \in ps : x <= r => x <= s
    BY <1>2, <2>2
  <2>4. s <= s /\ ~(s <= r)
    BY <1>2, <2>2
  <2>5. upto(r) \subseteq upto(s) /\ s \in upto(s) /\ s \notin upto(r)
    BY <2>3, <2>4
  <2> QED
    BY <2>1, <2>5, FS_Subset DEF Number
<1>3. p \in Int /\ q \in Int
  BY <1>1
<1> QED
  BY <1>2, <1>3

LEMMA AsksType ==
  ASSUME TypeOK, mapping # NoFile
  PROVE  AsksOK(Asks(mapping)) /\ DOMAIN Asks(mapping) = Unmapped(mapping.rows)
<1> DEFINE left == Unmapped(mapping.rows)
<1>1. mapping.ranked \in BOOLEAN /\ left \in SUBSET Places
  BY DEF TypeOK, Mappings, Unmapped
<1>2. \A p \in left : Options(p, mapping.ranked) \in SUBSET Values
  BY <1>1, OptionsType
<1>3. \A p \in left : Number(left, p) \in 1..Len(Layout)
  BY <1>1, NumberType
<1>4. \A p \in left : [id |-> Number(left, p), options |-> Options(p, mapping.ranked)] \in Question
  BY <1>2, <1>3 DEF Question
<1>5. Asks(mapping) = [p \in left |-> [id |-> Number(left, p), options |-> Options(p, mapping.ranked)]]
  BY DEF Asks
<1> HIDE DEF left
<1> QED
  BY <1>1, <1>4, <1>5 DEF AsksOK, left

-----------------------------------------------------------------------------
(* The merge of the questions *)

LEMMA SmallestIs ==
  ASSUME NEW S \in SUBSET Nat, S # {}
  PROVE  \E x \in S : \A y \in S : x <= y
<1>1. PICK x \in S : \A y \in S : ~(<<y, x>> \in OpToRel(<, Nat))
  BY NatLessThanWellFounded, WFMin
<1>2. \A y \in S : x <= y
  <2> TAKE y \in S
  <2>1. x \in Nat /\ y \in Nat
    OBVIOUS
  <2>2. ~(y < x)
    BY <1>1, <2>1 DEF OpToRel
  <2> QED
    BY <2>1, <2>2
<1> QED
  BY <1>2

(* Of a kind and cells of which a question was raised, one is kept.         *)
LEMMA OneKept ==
  ASSUME NEW qs, \A r \in qs : r.kind \in DOMAIN Turn /\ r.no \in Nat, NEW q \in qs
  PROVE  \E r \in Merged(qs) : r.kind = q.kind /\ r.cells = q.cells
<1> DEFINE alike == {r \in qs : MergeKey(r) = MergeKey(q)}
           nos   == {r.no : r \in alike}
<1>1. nos \in SUBSET Nat /\ nos # {}
  OBVIOUS
<1>2. PICK n \in nos : \A k \in nos : n <= k
  BY <1>1, SmallestIs
<1>3. PICK r \in alike : r.no = n
  BY <1>2
<1>4. ASSUME NEW s \in qs, Ahead(s, r), MergeKey(s) = MergeKey(r)
      PROVE  FALSE
  <2>1. s.kind = r.kind /\ r.kind \in {"mapping", "identity_gap", "explain"}
    BY <1>4 DEF MergeKey, Turn
  <2>2. s.no < r.no
    BY <1>4, <2>1 DEF Ahead, Turn
  <2>3. s.no \in nos
    BY <1>4
  <2>4. s.no \in Nat /\ r.no \in Nat /\ r.no <= s.no
    BY <1>2, <1>3, <2>3
  <2> QED
    BY <2>2, <2>4
<1> QED
  BY <1>4 DEF Merged, MergeKey

LEMMA RaisedType ==
  ASSUME TypeOK, mapping # NoFile, NEW flagged \in SUBSET DOMAIN Findings
  PROVE  \A q \in Raised(mapping, flagged) :
           /\ q.kind \in DOMAIN Turn /\ q.no \in Nat
           /\ q.kind = "mapping" => q.no \in Unmapped(mapping.rows) /\ q = RowQuestion(q.no)
           /\ q.kind # "mapping" => q \in OtherQuestions
<1>1. Unmapped(mapping.rows) \subseteq Places /\ Places \subseteq Nat
  BY PlacesAre DEF Unmapped
<1>2. Lacking(mapping) \subseteq DOMAIN Identities
  BY DEF Lacking
<1> QED
  BY <1>1, <1>2, BoundAssumption
  DEF Raised, RowQuestion, IdentityQuestion, FindingQuestion, Turn, OtherQuestions

(* Rows are told apart by the cells of their labels.                        *)
LEMMA RowsKept ==
  ASSUME TypeOK, mapping # NoFile, NEW flagged \in SUBSET DOMAIN Findings
  PROVE  {p \in Places : RowQuestion(p) \in Merged(Raised(mapping, flagged))}
           = Unmapped(mapping.rows)
<1> DEFINE qs == Raised(mapping, flagged)
<1>1. ASSUME NEW p \in Unmapped(mapping.rows)
      PROVE  RowQuestion(p) \in Merged(qs)
  <2>1. RowQuestion(p) \in qs /\ p \in Places
    BY DEF Raised, Unmapped
  <2>2. ASSUME NEW r \in qs, Ahead(r, RowQuestion(p)), MergeKey(r) = MergeKey(RowQuestion(p))
        PROVE  FALSE
    <3>1. r.kind = "mapping" /\ r.cells = {CellOf(p)}
      BY <2>2 DEF MergeKey, RowQuestion
    <3>2. r.no \in Unmapped(mapping.rows) /\ r = RowQuestion(r.no)
      BY <3>1, RaisedType
    <3>3. r.no \in Places /\ CellOf(r.no) = CellOf(p)
      BY <3>1, <3>2 DEF RowQuestion, Unmapped
    <3>4. r.no = p
      BY <2>1, <3>3, RowAssumption DEF CellOf, Places
    <3>5. r = RowQuestion(p) /\ p \in Nat
      BY <2>1, <3>2, <3>4, PlacesAre
    <3> QED
      BY <2>2, <3>5 DEF Ahead, RowQuestion, Turn
  <2> QED
    BY <2>1, <2>2 DEF Merged
<1>2. ASSUME NEW p \in Places, RowQuestion(p) \in Merged(qs)
      PROVE  p \in Unmapped(mapping.rows)
  <2>1. RowQuestion(p) \in qs /\ RowQuestion(p).kind = "mapping" /\ RowQuestion(p).no = p
    BY <1>2 DEF Merged, RowQuestion
  <2> QED
    BY <2>1, RaisedType
<1> QED
  BY <1>1, <1>2 DEF Unmapped

(* What check and explain publish: every question of the mapping, and of    *)
(* each other origin that has any.                                          *)
LEMMA ComposeResult ==
  ASSUME TypeOK, ComposeReport
  PROVE  /\ report'.asks = Asks(mapping)
         /\ Lacking(mapping) # {} => \E q \in report'.others : q.kind = "identity_gap"
         /\ \A f \in report'.flagged :
              \E q \in report'.others : q.kind = "explain" /\ q.cells = Findings[f]
         /\ report'.status # "needs_input" =>
              Unmapped(mapping.rows) = {} /\ Lacking(mapping) = {} /\ report'.flagged = {}
         /\ ReportOK(report')
<1>m. mapping # NoFile
  BY DEF ComposeReport
<1>1. PICK flagged \in SUBSET DOMAIN Findings, quiet \in {"degraded", "succeeded"} :
        LET kept == Merged(Raised(mapping, flagged))
            rows == {p \in Places : RowQuestion(p) \in kept}
        IN report' = [asks    |-> [p \in rows |-> Asks(mapping)[p]],
                      others  |-> {q \in kept : q.kind # "mapping"},
                      flagged |-> flagged,
                      status  |-> IF kept # {} THEN "needs_input" ELSE quiet]
  BY DEF ComposeReport
<1> DEFINE qs   == Raised(mapping, flagged)
           kept == Merged(qs)
<1>2. /\ report'.asks = [p \in {q \in Places : RowQuestion(q) \in kept} |-> Asks(mapping)[p]]
      /\ report'.others = {q \in kept : q.kind # "mapping"}
      /\ report'.flagged = flagged
      /\ report'.status = IF kept # {} THEN "needs_input" ELSE quiet
  BY <1>1
<1>3. \A q \in qs : \E r \in kept : r.kind = q.kind /\ r.cells = q.cells
  BY <1>m, RaisedType, OneKept
<1>4. kept \subseteq qs
  BY DEF Merged
<1>5. report'.asks = Asks(mapping)
  <2>1. report'.asks = [p \in Unmapped(mapping.rows) |-> Asks(mapping)[p]]
    BY <1>m, <1>2, RowsKept
  <2> QED
    BY <2>1 DEF Asks
<1>6. \A i \in Lacking(mapping) : IdentityQuestion(i) \in qs
  BY DEF Raised
<1>7. \A f \in flagged : FindingQuestion(f) \in qs
  BY DEF Raised
<1>8. \A p \in Unmapped(mapping.rows) : RowQuestion(p) \in qs
  BY DEF Raised
<1> HIDE DEF qs, kept
<1>9. Lacking(mapping) # {} => \E q \in report'.others : q.kind = "identity_gap"
  <2> SUFFICES ASSUME NEW i \in Lacking(mapping)
               PROVE  \E q \in report'.others : q.kind = "identity_gap"
    OBVIOUS
  <2>1. PICK r \in kept : r.kind = IdentityQuestion(i).kind
    BY <1>3, <1>6
  <2> QED
    BY <1>2, <2>1 DEF IdentityQuestion
<1>10. \A f \in flagged : \E q \in report'.others : q.kind = "explain" /\ q.cells = Findings[f]
  <2> SUFFICES ASSUME NEW f \in flagged
               PROVE  \E q \in report'.others : q.kind = "explain" /\ q.cells = Findings[f]
    OBVIOUS
  <2>1. PICK r \in kept : r.kind = FindingQuestion(f).kind /\ r.cells = FindingQuestion(f).cells
    BY <1>3, <1>7
  <2> QED
    BY <1>2, <2>1 DEF FindingQuestion
<1>11. kept = {} => Unmapped(mapping.rows) = {} /\ Lacking(mapping) = {} /\ flagged = {}
  BY <1>3, <1>6, <1>7, <1>8
<1>12. ReportOK(report')
  <2>1. \A q \in qs : q.kind # "mapping" => q \in OtherQuestions
    BY <1>m, RaisedType DEF qs
  <2>2. report'.others \subseteq OtherQuestions
    BY <1>2, <1>4, <2>1
  <2>3. AsksOK(report'.asks)
    BY <1>m, <1>5, AsksType
  <2> QED
    BY <1>2, <2>2, <2>3 DEF ReportOK, Statuses
<1> QED
  BY <1>2, <1>5, <1>9, <1>10, <1>11, <1>12

-----------------------------------------------------------------------------
(* Types *)

LEMMA BatchType ==
  ASSUME TypeOK, NEW b \in Batches
  PROVE  /\ DOMAIN b \subseteq DOMAIN seen
         /\ DOMAIN b \subseteq Places
         /\ \A p \in DOMAIN b : b[p] \in Values
<1>1. DOMAIN seen \subseteq Places
  BY DEF TypeOK, AsksOK
<1>2. PICK ps \in SUBSET DOMAIN seen : b \in [ps -> Values]
  BY DEF Batches
<1> QED
  BY <1>1, <1>2

LEMMA WantedType ==
  ASSUME TypeOK, NEW b \in Batches
  PROVE  Wanted(b) \in [Places -> Values \cup {None}]
<1>1. \A p \in DOMAIN b : b[p] \in Values
  BY BatchType
<1>2. \A p : Answers(b, [q \in DOMAIN b |-> q], KeyOf(p)) \subseteq DOMAIN b
  BY DEF Answers
<1>3. wanted \in [Places -> Values \cup {None}]
  BY DEF TypeOK
<1> QED
  BY <1>1, <1>2, <1>3 DEF Wanted

(* Every variable keeps its type, whatever the layout, the taxonomy and the *)
(* outcomes of the ports.                                                   *)
THEOREM Typed == Spec => []TypeOK
<1>1. Init => TypeOK
  <2> SUFFICES ASSUME Init PROVE TypeOK
    OBVIOUS
  <2>1. AsksOK(seen)
    BY DEF Init, AsksOK
  <2> QED
    BY <2>1, BoundAssumption DEF Init, TypeOK
<1>2. TypeOK /\ [Next]_vars => TypeOK'
  <2> SUFFICES ASSUME TypeOK, [Next]_vars PROVE TypeOK'
    OBVIOUS
  <2>1. CASE MapLayout
    <3>1. mapping' \in Mappings
      <4>1. PICK ranked \in BOOLEAN, asked \in SUBSET Places :
              \E picks \in [asked -> ConceptIds \cup {None}] :
                mapping' = [rows |-> Result(ranked, picks), ranked |-> ranked]
        BY <2>1, MapLayoutResult
      <4>2. PICK picks \in [asked -> ConceptIds \cup {None}] :
              mapping' = [rows |-> Result(ranked, picks), ranked |-> ranked]
        BY <4>1
      <4> QED
        BY <4>2, ResultType DEF Mappings
    <3> QED
      BY <2>1, <3>1 DEF MapLayout, TypeOK
  <2>2. CASE ComposeReport
    BY <2>2, ComposeResult DEF ComposeReport, TypeOK
  <2>3. CASE Download
    BY <2>3 DEF Download, TypeOK, ReportOK
  <2>4. ASSUME NEW b \in Batches, Answer(b)
        PROVE  TypeOK'
    <3> DEFINE to == [p \in DOMAIN b |-> Found(Asks(mapping), p)]
               keys == {k \in Keys : Answers(b, to, k) # {}}
    <3>1. PICK last \in [keys -> DOMAIN b] :
            /\ glossary' = Merge(b, last)
            /\ astray' = (astray \ keys) \cup {k \in keys : KeyOf(last[k]) # k}
      BY <2>4 DEF Answer, Take
    <3>2. glossary' \in [Keys -> Values \cup {None}]
      BY <3>1, BatchType DEF Merge, TypeOK
    <3>3. astray' \in SUBSET Keys
      BY <3>1 DEF TypeOK
    <3>4. wanted' \in [Places -> Values \cup {None}]
      BY <2>4, WantedType DEF Answer
    <3> QED
      BY <2>4, <3>2, <3>3, <3>4 DEF Answer, TypeOK
  <2>5. ASSUME NEW k \in Keys, NEW c \in Values, AnswerElsewhere(k, c)
        PROVE  TypeOK'
    BY <2>5, BoundAssumption DEF AnswerElsewhere, TypeOK
  <2>6. CASE UNCHANGED vars
    BY <2>6 DEF vars, TypeOK
  <2> QED
    BY <2>1, <2>2, <2>3, <2>4, <2>5, <2>6 DEF Next
<1> QED
  BY <1>1, <1>2, PTL DEF Spec

-----------------------------------------------------------------------------
(* No GMV row is ever mapped to revenue, also where the taxonomy has no     *)
(* concept for GMV and the ports are asked about the row.                   *)
THEOREM GmvKept == Spec => []GmvNotRevenue
<1>1. Init => GmvNotRevenue
  BY DEF Init, GmvNotRevenue
<1>2. GmvNotRevenue /\ [Next]_vars => GmvNotRevenue'
  <2> SUFFICES ASSUME GmvNotRevenue, [Next]_vars PROVE GmvNotRevenue'
    OBVIOUS
  <2>1. CASE MapLayout
    <3>1. PICK ranked \in BOOLEAN, asked \in SUBSET Places :
            \E picks \in [asked -> ConceptIds \cup {None}] :
              mapping' = [rows |-> Result(ranked, picks), ranked |-> ranked]
      BY <2>1, MapLayoutResult
    <3>2. PICK picks \in [asked -> ConceptIds \cup {None}] :
            mapping' = [rows |-> Result(ranked, picks), ranked |-> ranked]
      BY <3>1
    <3> QED
      BY <3>2, ResultNotRevenue DEF GmvNotRevenue, IsGmv
  <2>2. CASE ComposeReport
    BY <2>2 DEF ComposeReport, GmvNotRevenue, IsGmv
  <2>3. CASE Download
    BY <2>3 DEF Download, GmvNotRevenue, IsGmv
  <2>4. ASSUME NEW b \in Batches, Answer(b)
        PROVE  GmvNotRevenue'
    BY <2>4 DEF Answer, GmvNotRevenue
  <2>5. ASSUME NEW k \in Keys, NEW c \in Values, AnswerElsewhere(k, c)
        PROVE  GmvNotRevenue'
    BY <2>5 DEF AnswerElsewhere, GmvNotRevenue, IsGmv
  <2>6. CASE UNCHANGED vars
    BY <2>6 DEF vars, GmvNotRevenue, IsGmv
  <2> QED
    BY <2>1, <2>2, <2>3, <2>4, <2>5, <2>6 DEF Next
<1> QED
  BY <1>1, <1>2, PTL DEF Spec

-----------------------------------------------------------------------------
(* The report and the mapping it was composed from *)

Composed ==
  report # NoFile => mapping # NoFile /\ report.asks = Asks(mapping)

LEMMA ComposedKept ==
  ASSUME Composed, NoQuestionLost, mapping' = mapping, report' = report
  PROVE  Composed' /\ NoQuestionLost'
<1>1. Asks(mapping)' = Asks(mapping) /\ Lacking(mapping)' = Lacking(mapping)
  BY DEF Asks, Lacking, Book, Unmapped
<1>2. report # NoFile => Unmapped(mapping.rows)' = Unmapped(mapping.rows)
  BY DEF Unmapped
<1> QED
  BY <1>1, <1>2 DEF Composed, NoQuestionLost

LEMMA ComposedInv == Spec => [](Composed /\ NoQuestionLost)
<1>1. Init => Composed /\ NoQuestionLost
  BY DEF Init, Composed, NoQuestionLost
<1>2. TypeOK /\ Composed /\ NoQuestionLost /\ [Next]_vars => (Composed /\ NoQuestionLost)'
  <2> SUFFICES ASSUME TypeOK, Composed, NoQuestionLost, [Next]_vars
               PROVE  Composed' /\ NoQuestionLost'
    OBVIOUS
  <2>1. CASE MapLayout
    <3>1. report = NoFile
      BY <2>1 DEF MapLayout, Composed
    <3> QED
      BY <2>1, <3>1 DEF MapLayout, Composed, NoQuestionLost
  <2>2. CASE ComposeReport
    <3>1. mapping' = mapping /\ mapping # NoFile
      BY <2>2 DEF ComposeReport
    <3>2. /\ Asks(mapping)' = Asks(mapping) /\ Lacking(mapping)' = Lacking(mapping)
          /\ Unmapped(mapping.rows)' = Unmapped(mapping.rows)
      BY <3>1 DEF Asks, Lacking, Book, Unmapped
    <3>3. DOMAIN Asks(mapping) = Unmapped(mapping.rows)
      BY <3>1, AsksType
    <3> QED
      BY <2>2, <3>1, <3>2, <3>3, ComposeResult DEF Composed, NoQuestionLost
  <2>3. CASE Download
    BY <2>3, ComposedKept DEF Download
  <2>4. ASSUME NEW b \in Batches, Answer(b)
        PROVE  Composed' /\ NoQuestionLost'
    BY <2>4 DEF Answer, Composed, NoQuestionLost
  <2>5. ASSUME NEW k \in Keys, NEW c \in Values, AnswerElsewhere(k, c)
        PROVE  Composed' /\ NoQuestionLost'
    BY <2>5, ComposedKept DEF AnswerElsewhere
  <2>6. CASE UNCHANGED vars
    BY <2>6, ComposedKept DEF vars
  <2> QED
    BY <2>1, <2>2, <2>3, <2>4, <2>5, <2>6 DEF Next
<1> QED
  BY <1>1, <1>2, Typed, PTL DEF Spec

(* Whatever the layout, the identities and the findings: the report asks    *)
(* about every row without a concept and keeps a question of every origin   *)
(* that has one, for each finding its own, and a report that is not         *)
(* needs_input rests on a mapping without holes.  Questions are dropped     *)
(* only for one of their own kind that cites the same cells, and labels of  *)
(* different rows are different cells.                                      *)
THEOREM QuestionsKept == Spec => []NoQuestionLost
<1> QED
  BY ComposedInv, PTL

-----------------------------------------------------------------------------
(* Answers *)

LEMMA CitedSelf ==
  ASSUME NEW p \in Places
  PROVE  Cited(p) = p
BY RowAssumption DEF Cited, Places

(* Answers to the report that is there are taken for the rows they are for. *)
LEMMA FoundSelf ==
  ASSUME TypeOK, mapping # NoFile, seen = Asks(mapping), NEW p \in DOMAIN seen
  PROVE  Found(Asks(mapping), p) = p
<1> DEFINE left == Unmapped(mapping.rows)
<1>1. left \in SUBSET Places /\ DOMAIN Asks(mapping) = left
  BY DEF Unmapped, Asks
<1>2. \A q \in left : Asks(mapping)[q].id = Number(left, q)
  BY DEF Asks
<1>3. \A q \in left : Asks(mapping)[q].id = Asks(mapping)[p].id => q = p
  BY <1>1, <1>2, NumberInjective
<1> QED
  BY <1>1, <1>3 DEF Found

LEMMA AnswerStep ==
  ASSUME TypeOK, Composed, ~StaleAnswers, NEW b \in Batches, Answer(b)
  PROVE  Take(b, [p \in DOMAIN b |-> p])
<1>1. mapping # NoFile /\ Asks(mapping) = seen
  BY DEF Answer, Composed
<1>2. [p \in DOMAIN b |-> Found(Asks(mapping), p)] = [p \in DOMAIN b |-> p]
  BY <1>1, BatchType, FoundSelf
<1> QED
  BY <1>2 DEF Answer

(* As long as the answers are to the report that is there, the glossary     *)
(* holds what was asked for each row, and only answers about its own rows.  *)
Held == \A p \in Places : wanted[p] # None => glossary[KeyOf(p)] = wanted[p]

LEMMA HeldInv ==
  ASSUME ~StaleAnswers
  PROVE  Spec => [](Held /\ AnswersMeanTheirRows)
<1>1. Init => Held /\ AnswersMeanTheirRows
  BY DEF Init, Held, AnswersMeanTheirRows
<1>2. TypeOK /\ Composed /\ Held /\ AnswersMeanTheirRows /\ [Next]_vars
      => (Held /\ AnswersMeanTheirRows)'
  <2> SUFFICES ASSUME TypeOK, Composed, Held, AnswersMeanTheirRows, [Next]_vars
               PROVE  (Held /\ AnswersMeanTheirRows)'
    OBVIOUS
  <2>1. CASE MapLayout
    BY <2>1 DEF MapLayout, Held, AnswersMeanTheirRows, KeyOf
  <2>2. CASE ComposeReport
    BY <2>2 DEF ComposeReport, Held, AnswersMeanTheirRows, KeyOf
  <2>3. CASE Download
    BY <2>3 DEF Download, Held, AnswersMeanTheirRows, KeyOf
  <2>4. ASSUME NEW b \in Batches, Answer(b)
        PROVE  (Held /\ AnswersMeanTheirRows)'
    <3> DEFINE own == [p \in DOMAIN b |-> p]
               keys == {k \in Keys : Answers(b, own, k) # {}}
    <3>1. PICK last \in [keys -> DOMAIN b] :
            /\ \A k \in keys : last[k] \in Answers(b, own, k)
            /\ glossary' = Merge(b, last)
            /\ astray' = (astray \ keys) \cup {k \in keys : KeyOf(last[k]) # k}
      BY <2>4, AnswerStep DEF Take
    <3>2. \A k \in keys : KeyOf(last[k]) = k
      BY <3>1, CitedSelf, BatchType DEF Answers
    <3>3. AnswersMeanTheirRows'
      BY <3>1, <3>2 DEF AnswersMeanTheirRows
    <3>4. ASSUME NEW p \in Places, wanted'[p] # None
          PROVE  glossary'[KeyOf(p)] = wanted'[p]
      <4> DEFINE k == KeyOf(p)
                 said == Answers(b, own, k)
      <4>1. k \in Keys /\ wanted' = Wanted(b)
        BY <2>4 DEF Keys, Answer
      <4>2. CASE said = {}
        BY <3>1, <3>4, <4>1, <4>2 DEF Wanted, Merge, Held
      <4>3. CASE said # {}
        <5>1. p \in said /\ wanted'[p] = b[p] /\ \A q \in said : b[q] = b[p]
          BY <3>4, <4>1, <4>3 DEF Wanted
        <5>2. k \in keys /\ last[k] \in said
          BY <3>1, <4>1, <4>3
        <5> QED
          BY <3>1, <4>1, <5>1, <5>2 DEF Merge
      <4> QED
        BY <4>2, <4>3
    <3> QED
      BY <3>3, <3>4 DEF Held, KeyOf
  <2>5. ASSUME NEW k \in Keys, NEW c \in Values, AnswerElsewhere(k, c)
        PROVE  (Held /\ AnswersMeanTheirRows)'
    <3>1. glossary \in [Keys -> Values \cup {None}] /\ \A p \in Places : KeyOf(p) \in Keys
      BY DEF TypeOK, Keys
    <3> QED
      BY <2>5, <3>1 DEF AnswerElsewhere, Held, AnswersMeanTheirRows, KeyOf
  <2>6. CASE UNCHANGED vars
    BY <2>6 DEF vars, Held, AnswersMeanTheirRows, KeyOf
  <2> QED
    BY <2>1, <2>2, <2>3, <2>4, <2>5, <2>6 DEF Next
<1> QED
  BY <1>1, <1>2, Typed, ComposedInv, PTL DEF Spec

(* Every entry answers a question about a row of its own key, as long as    *)
(* answers are given to the report that is there.                           *)
THEOREM OwnRows ==
  ASSUME ~StaleAnswers
  PROVE  Spec => []AnswersMeanTheirRows
<1> QED
  BY HeldInv, PTL

(* What the analyst asked for a row is what every later round maps it to,   *)
(* whatever the embedding and the chat answer then.                         *)
THEOREM Honoured ==
  ASSUME ~StaleAnswers
  PROVE  Spec => []AnswersHonoured
<1>1. Init => AnswersHonoured
  BY DEF Init, AnswersHonoured
<1>2. Held /\ AnswersHonoured /\ [Next]_vars => AnswersHonoured'
  <2> SUFFICES ASSUME Held, AnswersHonoured, [Next]_vars PROVE AnswersHonoured'
    OBVIOUS
  <2>1. CASE MapLayout
    <3>1. PICK ranked \in BOOLEAN, asked \in SUBSET Places :
            \E picks \in [asked -> ConceptIds \cup {None}] :
              /\ mapping' = [rows |-> Result(ranked, picks), ranked |-> ranked]
              /\ \A p \in asked : (IF ranked THEN Embedded([q \in Places |-> Collected(q)])
                                   ELSE [q \in Places |-> Collected(q)])[p].concept = None
      BY <2>1, MapLayoutResult
    <3>2. PICK picks \in [asked -> ConceptIds \cup {None}] :
              /\ mapping' = [rows |-> Result(ranked, picks), ranked |-> ranked]
              /\ \A p \in asked : (IF ranked THEN Embedded([q \in Places |-> Collected(q)])
                                   ELSE [q \in Places |-> Collected(q)])[p].concept = None
      BY <3>1
    <3>3. ASSUME NEW p \in Places, wanted[p] # None, ~(IsGmv(p) /\ wanted[p] = Revenue)
          PROVE  mapping'.rows[p].concept = wanted[p]
      <4>1. Collected(p).concept = wanted[p]
        BY <3>3, GuardKeeps DEF Held, Collected
      <4>2. Result(ranked, picks)[p].concept = wanted[p]
        BY <3>2, <3>3, <4>1, SettledStays
      <4> QED
        BY <3>2, <4>2
    <3> QED
      BY <2>1, <3>3 DEF MapLayout, AnswersHonoured, IsGmv
  <2>2. CASE ComposeReport
    BY <2>2 DEF ComposeReport, AnswersHonoured, IsGmv
  <2>3. CASE Download
    BY <2>3 DEF Download, AnswersHonoured, IsGmv
  <2>4. ASSUME NEW b \in Batches, Answer(b)
        PROVE  AnswersHonoured'
    BY <2>4 DEF Answer, AnswersHonoured
  <2>5. ASSUME NEW k \in Keys, NEW c \in Values, AnswerElsewhere(k, c)
        PROVE  AnswersHonoured'
    BY <2>5 DEF AnswerElsewhere, AnswersHonoured, IsGmv
  <2>6. CASE UNCHANGED vars
    BY <2>6 DEF vars, AnswersHonoured, IsGmv
  <2> QED
    BY <2>1, <2>2, <2>3, <2>4, <2>5, <2>6 DEF Next
<1> QED
  BY <1>1, <1>2, HeldInv, PTL DEF Spec
===============================================================================
