-------------------------- MODULE PipelineRunProofs ---------------------------
(***************************************************************************)
(* Theorems of PipelineRun for any number of requests, answers and         *)
(* restarts of every kind: types; what parse, compile and layout have      *)
(* finished stays finished; and, unless answers were applied beside a job  *)
(* or a kill has hit apply_hitl, what the files and the report say.        *)
(***************************************************************************)
EXTENDS PipelineRun, FiniteSetTheorems, SequenceTheorems, TLAPS

-----------------------------------------------------------------------------
(* The stages and their files *)

LEMMA StageNames ==
  /\ Stages[1] = "parse" /\ Stages[2] = "compile" /\ Stages[3] = "layout"
  /\ Stages[4] = "series" /\ Stages[5] = "mapping" /\ Stages[6] = "check"
  /\ Stages[7] = "frs" /\ Stages[8] = "lineage" /\ Stages[9] = "explain"
BY DEF Stages

LEMMA StageFiles ==
  /\ Writes["parse"] = <<"rawCells", "rawBook">>
  /\ Writes["compile"] = <<"irCells", "irEdges">>
  /\ Writes["layout"] = <<"layout">>
  /\ Writes["series"] = <<>>
  /\ Writes["mapping"] = <<"mapping">>
  /\ Writes["check"] = <<"candidates">>
  /\ Writes["frs"] = <<"frs">>
  /\ Writes["lineage"] = <<"lineage">>
  /\ Writes["explain"] = <<"report", "integrity", "meta">>
BY DEF Writes

LEMMA StagePresent ==
  /\ Present("parse") <=> "rawCells" \in files /\ "rawBook" \in files
  /\ Present("compile") <=> "irCells" \in files /\ "irEdges" \in files
  /\ Present("layout") <=> "layout" \in files
  /\ ~Present("series")
  /\ Present("mapping") <=> "mapping" \in files
  /\ Present("check") <=> "candidates" \in files
  /\ Present("frs") <=> "frs" \in files
  /\ Present("lineage") <=> "lineage" \in files
  /\ Present("explain") <=> "report" \in files /\ "integrity" \in files /\ "meta" \in files
BY StageFiles DEF Present, SeqSet

(* The file a stage writes last *)
LastFile(n, f) ==
  \/ n = 1 /\ f = "rawBook"
  \/ n = 2 /\ f = "irEdges"
  \/ n = 3 /\ f = "layout"
  \/ n = 5 /\ f = "mapping"
  \/ n = 6 /\ f = "candidates"
  \/ n = 7 /\ f = "frs"
  \/ n = 8 /\ f = "lineage"
  \/ n = 9 /\ f = "meta"

LEMMA LastFiles ==
  /\ LastFile(1, "rawBook") /\ LastFile(2, "irEdges") /\ LastFile(3, "layout")
  /\ LastFile(5, "mapping") /\ LastFile(6, "candidates") /\ LastFile(7, "frs")
  /\ LastFile(8, "lineage") /\ LastFile(9, "meta")
BY DEF LastFile

LEMMA FileNames ==
  /\ "rawCells" \in Files /\ "rawBook" \in Files /\ "irCells" \in Files /\ "irEdges" \in Files
  /\ "layout" \in Files /\ "mapping" \in Files /\ "candidates" \in Files /\ "frs" \in Files
  /\ "lineage" \in Files /\ "report" \in Files /\ "integrity" \in Files /\ "meta" \in Files
BY Zenon DEF Files

(* The nth stage, which has yet to write the files s, writes f next and     *)
(* then has the files r left.                                               *)
Renames(n, s, f, r) ==
  \/ LastFile(n, f) /\ s = <<f>> /\ r = <<>>
  \/ n = 1 /\ f = "rawCells" /\ s = <<f, "rawBook">> /\ r = <<"rawBook">>
  \/ n = 2 /\ f = "irCells" /\ s = <<f, "irEdges">> /\ r = <<"irEdges">>
  \/ n = 9 /\ f = "integrity" /\ s = <<f, "meta">> /\ r = <<"meta">>
  \/ n = 9 /\ f = "report" /\ s = <<f, "integrity", "meta">> /\ r = <<"integrity", "meta">>

(* What the stage at hand has left to write is due. *)
LeftDue ==
  /\ worker = "write" <=> left # <<>>
  /\ left # <<>> => \E f \in Files : \E r : Renames(stage, left, f, r)

LEMMA Tails ==
  /\ \A x : Head(<<x>>) = x /\ Tail(<<x>>) = <<>> /\ Len(<<x>>) = 1
  /\ \A x, y : Head(<<x, y>>) = x /\ Tail(<<x, y>>) = <<y>> /\ Len(<<x, y>>) = 2
  /\ \A x, y, z : Head(<<x, y, z>>) = x /\ Tail(<<x, y, z>>) = <<y, z>> /\ Len(<<x, y, z>>) = 3
<1>1. ASSUME NEW x PROVE Head(<<x>>) = x /\ Tail(<<x>>) = <<>> /\ Len(<<x>>) = 1
  OBVIOUS
<1>2. ASSUME NEW x, NEW y
      PROVE  Head(<<x, y>>) = x /\ Tail(<<x, y>>) = <<y>> /\ Len(<<x, y>>) = 2
  OBVIOUS
<1>3. ASSUME NEW x, NEW y, NEW z
      PROVE  Head(<<x, y, z>>) = x /\ Tail(<<x, y, z>>) = <<y, z>> /\ Len(<<x, y, z>>) = 3
  OBVIOUS
<1> QED
  BY <1>1, <1>2, <1>3, Zenon

(* A rename is the last one when nothing is left after it; else the next    *)
(* one is of the same stage.                                                *)
LEMMA RenamesOne ==
  ASSUME NEW n, NEW s, NEW f, NEW r, Renames(n, s, f, r)
  PROVE  /\ s # <<>> /\ f = Head(s) /\ r = Tail(s)
         /\ Len(s) = 1 <=> r = <<>>
<1>1. CASE s = <<f>> /\ r = <<>>
  BY <1>1, Tails
<1>2. ASSUME NEW x, s = <<f, x>>, r = <<x>>
      PROVE  s # <<>> /\ f = Head(s) /\ r = Tail(s) /\ (Len(s) = 1 <=> r = <<>>)
  BY <1>2, Tails
<1>3. CASE s = <<f, "integrity", "meta">> /\ r = <<"integrity", "meta">>
  BY <1>3, Tails
<1> QED
  BY <1>1, <1>2, <1>3 DEF Renames

LEMMA RenamesRest ==
  ASSUME NEW n, NEW s, NEW f, NEW r, Renames(n, s, f, r), r # <<>>
  PROVE  \E g \in Files : \E q : Renames(n, r, g, q)
<1>1. ASSUME NEW g \in Files, r = <<g>>, LastFile(n, g)
      PROVE  \E h \in Files : \E q : Renames(n, r, h, q)
  <2>1. Renames(n, r, g, <<>>)
    BY <1>1 DEF Renames
  <2> QED
    BY <2>1
<1>2. CASE n = 9 /\ r = <<"integrity", "meta">>
  <2>1. Renames(n, r, "integrity", <<"meta">>)
    BY <1>2 DEF Renames
  <2> QED
    BY <2>1 DEF Files
<1>3. CASE n = 1 /\ r = <<"rawBook">>
  <2>1. "rawBook" \in Files /\ LastFile(n, "rawBook")
    BY <1>3, FileNames, LastFiles
  <2> QED
    BY <1>1, <1>3, <2>1
<1>4. CASE n = 2 /\ r = <<"irEdges">>
  <2>1. "irEdges" \in Files /\ LastFile(n, "irEdges")
    BY <1>4, FileNames, LastFiles
  <2> QED
    BY <1>1, <1>4, <2>1
<1>5. CASE n = 9 /\ r = <<"meta">>
  <2>1. "meta" \in Files /\ LastFile(n, "meta")
    BY <1>5, FileNames, LastFiles
  <2> QED
    BY <1>1, <1>5, <2>1
<1> QED
  BY <1>2, <1>3, <1>4, <1>5 DEF Renames

LEMMA RenamesAll ==
  ASSUME NEW n \in 1..9, n # 4
  PROVE  \E f \in Files : \E r : Renames(n, Writes[Stages[n]], f, r)
<1>1. CASE n = 1
  <2>1. Renames(n, <<"rawCells", "rawBook">>, "rawCells", <<"rawBook">>)
    BY <1>1 DEF Renames
  <2> QED
    BY <1>1, <2>1, StageNames, StageFiles DEF Files
<1>2. CASE n = 2
  <2>1. Renames(n, <<"irCells", "irEdges">>, "irCells", <<"irEdges">>)
    BY <1>2 DEF Renames
  <2> QED
    BY <1>2, <2>1, StageNames, StageFiles DEF Files
<1>3. CASE n = 9
  <2>1. Renames(n, <<"report", "integrity", "meta">>, "report", <<"integrity", "meta">>)
    BY <1>3 DEF Renames
  <2> QED
    BY <1>3, <2>1, StageNames, StageFiles DEF Files
<1>4. CASE n \in {3, 5, 6, 7, 8}
  <2>1. ASSUME NEW g \in Files, LastFile(n, g)
        PROVE  \E f \in Files : \E r : Renames(n, <<g>>, f, r)
    <3>1. Renames(n, <<g>>, g, <<>>)
      BY <2>1 DEF Renames
    <3> QED
      BY <3>1
  <2>2. CASE n = 3
    <3>1. "layout" \in Files /\ LastFile(n, "layout") /\ Writes[Stages[n]] = <<"layout">>
      BY <2>2, StageNames, StageFiles, FileNames, LastFiles
    <3> QED
      BY <2>1, <3>1
  <2>3. CASE n = 5
    <3>1. "mapping" \in Files /\ LastFile(n, "mapping") /\ Writes[Stages[n]] = <<"mapping">>
      BY <2>3, StageNames, StageFiles, FileNames, LastFiles
    <3> QED
      BY <2>1, <3>1
  <2>4. CASE n = 6
    <3>1. "candidates" \in Files /\ LastFile(n, "candidates") /\ Writes[Stages[n]] = <<"candidates">>
      BY <2>4, StageNames, StageFiles, FileNames, LastFiles
    <3> QED
      BY <2>1, <3>1
  <2>5. CASE n = 7
    <3>1. "frs" \in Files /\ LastFile(n, "frs") /\ Writes[Stages[n]] = <<"frs">>
      BY <2>5, StageNames, StageFiles, FileNames, LastFiles
    <3> QED
      BY <2>1, <3>1
  <2>6. CASE n = 8
    <3>1. "lineage" \in Files /\ LastFile(n, "lineage") /\ Writes[Stages[n]] = <<"lineage">>
      BY <2>6, StageNames, StageFiles, FileNames, LastFiles
    <3> QED
      BY <2>1, <3>1
  <2> QED
    BY <1>4, <2>2, <2>3, <2>4, <2>5, <2>6
<1> QED
  BY <1>1, <1>2, <1>3, <1>4

(* What is due is a tail of what a stage writes. *)
Part(s) == \E t \in Names, k \in 1..4 : s = FilesFrom(t, k)

LEMMA RenamesPart ==
  ASSUME NEW n, NEW s, NEW f, NEW r, Renames(n, s, f, r)
  PROVE  Part(s)
<1>1. /\ "parse" \in Names /\ "compile" \in Names /\ "layout" \in Names /\ "mapping" \in Names
      /\ "check" \in Names /\ "frs" \in Names /\ "lineage" \in Names /\ "explain" \in Names
  BY StageNames DEF Names
<1>2. ASSUME NEW t \in Names, Writes[t] \in Seq(Files), Writes[t] # <<>>
      PROVE  Part(Writes[t]) /\ Part(Tail(Writes[t]))
  <2>1. /\ Writes[t] = SubSeq(Writes[t], 1, Len(Writes[t]))
        /\ Tail(Writes[t]) = SubSeq(Writes[t], 2, Len(Writes[t]))
    BY <1>2, SubSeqFull, TailIsSubSeq
  <2>2. Writes[t] = FilesFrom(t, 1) /\ Tail(Writes[t]) = FilesFrom(t, 2)
    BY <2>1 DEF FilesFrom
  <2> QED
    BY <2>2 DEF Part
<1>3. Part(<<"rawCells", "rawBook">>) /\ Part(<<"rawBook">>)
  <2>1. Writes["parse"] = <<"rawCells", "rawBook">>
    BY StageFiles
  <2>2. Writes["parse"] \in Seq(Files) /\ Writes["parse"] # <<>>
    BY <2>1 DEF Files
  <2>3. Part(Writes["parse"]) /\ Part(Tail(Writes["parse"]))
    BY <1>1, <1>2, <2>2
  <2> QED
    BY <2>1, <2>3, Tails
<1>4. Part(<<"irCells", "irEdges">>) /\ Part(<<"irEdges">>)
  <2>1. Writes["compile"] = <<"irCells", "irEdges">>
    BY StageFiles
  <2>2. Writes["compile"] \in Seq(Files) /\ Writes["compile"] # <<>>
    BY <2>1 DEF Files
  <2>3. Part(Writes["compile"]) /\ Part(Tail(Writes["compile"]))
    BY <1>1, <1>2, <2>2
  <2> QED
    BY <2>1, <2>3, Tails
<1>5. Part(<<"layout">>) /\ Part(<<"mapping">>) /\ Part(<<"candidates">>)
  <2>1. \A g \in Files : <<g>> \in Seq(Files) /\ <<g>> # <<>>
    OBVIOUS
  <2> QED
    BY <1>1, <1>2, <2>1, StageFiles DEF Files
<1>6. Part(<<"frs">>) /\ Part(<<"lineage">>)
  <2>1. \A g \in Files : <<g>> \in Seq(Files) /\ <<g>> # <<>>
    OBVIOUS
  <2> QED
    BY <1>1, <1>2, <2>1, StageFiles DEF Files
<1>7. /\ Part(<<"report", "integrity", "meta">>)
      /\ Part(<<"integrity", "meta">>)
      /\ Part(<<"meta">>)
  <2> DEFINE e == <<"report", "integrity", "meta">>
  <2>1. e \in Seq(Files) /\ Len(e) = 3 /\ e # <<>> /\ e = Writes["explain"]
    BY StageFiles DEF Files
  <2>2. Part(e) /\ Part(Tail(e))
    BY <1>1, <1>2, <2>1
  <2>3. SubSeq(e, 2, 3) = Tail(e)
    BY <2>1, TailIsSubSeq
  <2>7. Tail(SubSeq(e, 2, 3)) = SubSeq(e, 3, 3)
    <3>1. 2 \in 1..Len(e) /\ 3 \in 2..Len(e)
      BY <2>1
    <3> HIDE DEF e
    <3> QED
      BY <2>1, <3>1, HeadTailOfSubSeq
  <2>4. Tail(e) = <<"integrity", "meta">> /\ Tail(Tail(e)) = <<"meta">>
    BY Tails
  <2>5. SubSeq(Writes["explain"], 3, Len(Writes["explain"])) = <<"meta">>
    BY <2>1, <2>3, <2>4, <2>7
  <2>6. Part(<<"meta">>)
    <3>1. 3 \in 1..4
      OBVIOUS
    <3> QED
      BY <1>1, <2>5, <3>1, Zenon DEF Part, FilesFrom
  <2> QED
    BY <2>2, <2>4, <2>6
<1>8. \/ s = <<"rawCells", "rawBook">> \/ s = <<"rawBook">>
      \/ s = <<"irCells", "irEdges">> \/ s = <<"irEdges">>
      \/ s = <<"layout">> \/ s = <<"mapping">> \/ s = <<"candidates">>
      \/ s = <<"frs">> \/ s = <<"lineage">>
      \/ s = <<"report", "integrity", "meta">> \/ s = <<"integrity", "meta">> \/ s = <<"meta">>
  BY DEF Renames, LastFile
<1> QED
  BY <1>3, <1>4, <1>5, <1>6, <1>7, <1>8

LEMMA EmptyPart == Part(<<>>)
<1>1. "parse" \in Names
  BY StageNames DEF Names
<1>2. Len(Writes["parse"]) = 2
  BY StageFiles
<1>3. SubSeq(Writes["parse"], 4, Len(Writes["parse"])) = <<>>
  BY <1>2, SubSeqEmpty
<1>4. 4 \in 1..4
  OBVIOUS
<1> QED
  BY <1>1, <1>3, <1>4, Zenon DEF Part, FilesFrom

(* The same without sequences: the files of the nth stage, and what it      *)
(* writes after f.                                                          *)
FileOf(n, f) ==
  \/ LastFile(n, f)
  \/ n = 1 /\ f = "rawCells"
  \/ n = 2 /\ f = "irCells"
  \/ n = 9 /\ f = "report"
  \/ n = 9 /\ f = "integrity"

Follows(f, g) ==
  \/ f = "rawCells" /\ g = "rawBook"
  \/ f = "irCells" /\ g = "irEdges"
  \/ f = "report" /\ g = "integrity"
  \/ f = "integrity" /\ g = "meta"

LEMMA RenamesFlat ==
  ASSUME NEW n, NEW s, NEW f, NEW r, Renames(n, s, f, r)
  PROVE  /\ FileOf(n, f)
         /\ r = <<>> <=> LastFile(n, f)
         /\ r # <<>> => Follows(f, Head(r))
<1>1. CASE LastFile(n, f) /\ r = <<>>
  BY <1>1 DEF FileOf
<1>2. CASE n = 1 /\ f = "rawCells" /\ r = <<"rawBook">>
  BY <1>2, Tails DEF FileOf, Follows, LastFile
<1>3. CASE n = 2 /\ f = "irCells" /\ r = <<"irEdges">>
  BY <1>3, Tails DEF FileOf, Follows, LastFile
<1>4. CASE n = 9 /\ f = "integrity" /\ r = <<"meta">>
  BY <1>4, Tails DEF FileOf, Follows, LastFile
<1>5. CASE n = 9 /\ f = "report" /\ r = <<"integrity", "meta">>
  BY <1>5, Tails DEF FileOf, Follows, LastFile
<1> QED
  BY <1>1, <1>2, <1>3, <1>4, <1>5 DEF Renames

-----------------------------------------------------------------------------
(* The invariant that holds whatever answers, failures and restarts do *)

(* Outside a stage the thread stands at the first one. *)
Rests == worker \notin {"mark", "read", "write"} => stage = 1

(* A job is acknowledged when it has ended. *)
Busy == worker \notin {"idle", "srem"} => queued

(* apply_hitl is run by one request at a time. *)
Handling ==
  /\ Answering => \E r \in Requests : request[r] = "unlink"
  /\ \A r \in Requests :
       request[r] = "unlink" => Answering /\ \A s \in Requests : request[s] = "unlink" => s = r

(* Of two files of a stage the second stands beside the first, and the      *)
(* stage is not complete while it has one left to write.                    *)
BaseOrder ==
  /\ "rawBook" \in files => "rawCells" \in files
  /\ "irEdges" \in files => "irCells" \in files
  /\ left # <<>> =>
       /\ Head(left) = "rawBook" => "rawCells" \in files
       /\ Head(left) = "irEdges" => "irCells" \in files
       /\ stage = 1 => "rawBook" \notin files
       /\ stage = 2 => "irEdges" \notin files
       /\ stage = 3 => "layout" \notin files

(* Files of parse, compile and layout are removed by nothing, written by    *)
(* the stage at hand only, and do not depend on the glossary.               *)
BaseFiles == {"rawCells", "rawBook", "irCells", "irEdges", "layout"}

BaseFrom ==
  /\ \A f \in BaseFiles : from[f] = {}
  /\ left # <<>> /\ stage \in 1..3 => reads = {}

(* What apply_hitl has unlinked stays away until it is done, unless there   *)
(* is a job beside it.                                                      *)
Unlinked == Answering /\ ~Running => \A i \in 1..(unlink - 1) : HitlTail[i] \notin files

Base == TypeOK /\ LeftDue /\ Rests /\ Busy /\ Handling /\ BaseOrder /\ BaseFrom /\ Unlinked

(* The invariant of a directory in which answers have not crossed a job *)

(* The stages that the pipeline has passed are complete. *)
Passed ==
  /\ stage \in 2..9 => "rawBook" \in files
  /\ stage \in 3..9 => "irEdges" \in files
  /\ stage \in 4..9 => "layout" \in files
  /\ stage \in 6..9 => "mapping" \in files
  /\ stage \in 7..9 => "candidates" \in files
  /\ stage \in 8..9 => "frs" \in files
  /\ stage = 9 => "lineage" \in files
  /\ left # <<>> /\ Head(left) \in {"integrity", "meta"} => "report" \in files
  /\ left # <<>> /\ Head(left) = "meta" => "integrity" \in files

(* The files that depend on the glossary *)
Derived == {"mapping", "candidates", "frs", "lineage", "report"}

(* They are computed from the present edition, and so is what is at hand. *)
Uniform ==
  /\ \A f \in Derived : f \in files => from[f] = {edition}
  /\ left # <<>> /\ stage \notin 1..3 => reads = {edition}
  /\ worker = "read" /\ stage = 5 => reads = {edition}

(* The report is one of a whole set that apply_hitl has begun to remove. *)
Entire == Cardinality(from["report"]) = 1

(* A kill in apply_hitl has left the report: only answers go on from there. *)
Halted ==
  /\ cut
  /\ "report" \in files
  /\ Entire
  /\ ~queued
  /\ \A r \in Requests : request[r] \in {"idle", "apply"}

(* apply_hitl at work, without a job beside it: it has unlinked the report  *)
(* by its sixth step.                                                       *)
Withdrawing ==
  /\ ~Running
  /\ "report" \in files <=> unlink \in 1..6
  /\ "report" \in files => Entire

Apart ==
  ~crossed => /\ Passed
              /\ IF Answering THEN Withdrawing ELSE Uniform \/ Halted

(* The commit marker, and the report with the mapping it follows from *)
Committed ==
  Orderly => /\ Ready => files = Files
             /\ "report" \in files => "mapping" \in files

Whole == Base /\ Apart /\ Committed

-----------------------------------------------------------------------------
(* The steps *)

(* Steps that leave files, glossary and stage alone *)
Calm ==
  \/ StartRun \/ Mark \/ SetTerminal \/ Acknowledge \/ ForgetPending \/ Refuse \/ LockExpires
  \/ \E r \in Requests :
       \/ StartUpload(r) \/ StartAnswers(r)
       \/ ReadStatus(r) \/ WriteQueued(r) \/ AddPending(r) \/ AppendEntry(r)
  \/ UNCHANGED vars

Thread == Skip \/ Compute \/ Write \/ Fail

Restarted == Stop \/ Kill \/ PodLost

LEMMA StepCases ==
  ASSUME [Next]_vars
  PROVE  \/ Calm
         \/ Thread
         \/ \E r \in Requests : MergeAnswers(r)
         \/ \E r \in Requests : Unlink(r)
         \/ Restarted
BY DEF Next, Worker, Pipeline, Goes, Calm, Thread, Restarted

LEMMA CalmSteps ==
  ASSUME Calm
  PROVE  UNCHANGED <<files, from, failed, edition, unlink, crossed, cut, stage, left, restarts>>
<1>1. CASE StartRun \/ Mark \/ SetTerminal \/ Acknowledge \/ ForgetPending \/ Refuse \/ LockExpires
  BY <1>1 DEF StartRun, Mark, SetTerminal, Acknowledge, ForgetPending, Refuse, LockExpires,
              disk, hitl, thread, bounds
<1>2. ASSUME NEW r \in Requests,
             \/ StartUpload(r) \/ StartAnswers(r)
             \/ ReadStatus(r) \/ WriteQueued(r) \/ AddPending(r) \/ AppendEntry(r)
      PROVE  UNCHANGED <<files, from, failed, edition, unlink, crossed, cut, stage, left, restarts>>
  BY <1>2 DEF StartUpload, StartAnswers, ReadStatus, WriteQueued, AddPending, AppendEntry,
              disk, hitl, thread, bounds
<1>3. CASE UNCHANGED vars
  BY <1>3 DEF vars, disk, hitl, thread, bounds
<1> QED
  BY <1>1, <1>2, <1>3 DEF Calm

(* The event loop does nothing else while apply_hitl is at work. *)
LEMMA CalmAnswering ==
  ASSUME Calm, Answering
  PROVE  UNCHANGED vars
BY DEF Calm, StartRun, Mark, SetTerminal, Acknowledge, ForgetPending, Refuse, LockExpires,
       StartUpload, StartAnswers, ReadStatus, WriteQueued, AddPending, AppendEntry, Proceeds

(* What the steps of the event loop do to the worker *)
LEMMA CalmWorker ==
  ASSUME Calm
  PROVE  \/ UNCHANGED <<worker, reads, queued>>
         \/ UNCHANGED <<worker, reads>> /\ queued' = TRUE
         \/ worker = "idle" /\ queued /\ worker' \in {"mark", "xack"} /\ UNCHANGED <<reads, queued>>
         \/ /\ worker = "mark" /\ worker' = "read" /\ UNCHANGED queued
            /\ reads' = IF Stages[stage] = "mapping" THEN {edition} ELSE {}
         \/ worker \in {"settle", "fail"} /\ worker' = "xack" /\ UNCHANGED <<reads, queued>>
         \/ worker = "xack" /\ worker' = "srem" /\ UNCHANGED reads /\ queued' = FALSE
         \/ worker = "srem" /\ worker' = "idle" /\ UNCHANGED <<reads, queued>>
<1> USE DEF thread, Goto
<1>1. CASE StartRun \/ Mark \/ SetTerminal
  BY <1>1 DEF StartRun, Mark, SetTerminal
<1>2. CASE Acknowledge \/ ForgetPending \/ Refuse \/ LockExpires
  BY <1>2 DEF Acknowledge, ForgetPending, Refuse, LockExpires, redis
<1>3. ASSUME NEW r \in Requests,
             StartUpload(r) \/ StartAnswers(r) \/ ReadStatus(r) \/ WriteQueued(r) \/ AddPending(r)
      PROVE  UNCHANGED <<worker, reads, queued>>
  BY <1>3 DEF StartUpload, StartAnswers, ReadStatus, WriteQueued, AddPending, redis
<1>4. ASSUME NEW r \in Requests, AppendEntry(r)
      PROVE  UNCHANGED <<worker, reads>> /\ queued' = TRUE
  BY <1>4 DEF AppendEntry
<1>5. CASE UNCHANGED vars
  BY <1>5 DEF vars, redis
<1> QED
  BY <1>1, <1>2, <1>3, <1>4, <1>5 DEF Calm

(* A job runs beside its entry in the stream. *)
LEMMA ThreadSteps ==
  ASSUME Thread
  PROVE  /\ worker \in {"read", "write"}
         /\ worker' \in {"mark", "write", "settle", "fail"}
         /\ UNCHANGED <<status, queued, pending, locked, edition, unlink, crossed, cut, request,
                        answers, restarts>>
<1>1. CASE Skip
  BY <1>1 DEF Skip, Leaves, redis, hitl, bounds
<1>2. CASE Compute
  BY <1>2 DEF Compute, Leaves, redis, hitl, bounds
<1>3. CASE Write
  BY <1>3 DEF Write, Leaves, redis, hitl, bounds
<1>4. CASE Fail
  BY <1>4 DEF Fail, Goto, redis, hitl, bounds
<1> QED
  BY <1>1, <1>2, <1>3, <1>4 DEF Thread

LEMMA MergeSteps ==
  ASSUME NEW r \in Requests, MergeAnswers(r)
  PROVE  /\ ~Answering /\ request[r] = "apply"
         /\ request' = [request EXCEPT ![r] = "unlink"]
         /\ edition' = (IF "mapping" \in files THEN edition + 1 ELSE edition)
         /\ unlink' = 1
         /\ crossed' = (crossed \/ Running \/ "report" \notin files)
         /\ UNCHANGED <<files, from, failed, status, queued, pending, locked, worker, stage, left,
                        reads, cut, answers, restarts>>
BY DEF MergeAnswers, Proceeds, disk, redis, thread, bounds

(* A restart keeps the directory.  It brings the job back only when there   *)
(* is neither report nor commit marker.                                     *)
LEMMA RestartSteps ==
  ASSUME TypeOK, Handling, Restarted
  PROVE  /\ worker' = "idle" /\ stage' = 1 /\ left' = <<>> /\ reads' = {} /\ unlink' = 0
         /\ request' = [r \in Requests |-> "idle"]
         /\ cut' = (cut \/ Answering)
         /\ restarts < MaxRestarts /\ restarts' = restarts + 1
         /\ UNCHANGED <<files, from, failed, edition, answers>>
         /\ crossed' \in BOOLEAN /\ (crossed => crossed') /\ (~Answering => crossed' = crossed)
         /\ "report" \in files /\ (~queued \/ (Answering /\ ~crossed')) => ~queued'
<1> USE DEF Restart, Reconciled, disk
<1>1. crossed \in BOOLEAN
  BY DEF TypeOK
<1>2. CASE Stop
  <2>1. ~Answering
    BY <1>2 DEF Stop, Handling
  <2> QED
    BY <1>1, <1>2, <2>1 DEF Stop
<1>3. CASE Kill
  BY <1>1, <1>3 DEF Kill
<1>4. CASE PodLost
  BY <1>1, <1>4 DEF PodLost
<1> QED
  BY <1>2, <1>3, <1>4 DEF Restarted

(* The stage at hand renames f: its last file, or another one follows. *)
Wrote(f) ==
  /\ left # <<>> /\ Head(left) = f /\ FileOf(stage, f)
  /\ files' = files \cup {f}
  /\ from' = [from EXCEPT ![f] = reads]
  /\ failed' = (failed /\ f # "meta")
  /\ \/ LastFile(stage, f) /\ Leaves
     \/ /\ ~LastFile(stage, f) /\ left' # <<>> /\ Follows(f, Head(left'))
        /\ UNCHANGED <<worker, stage, reads>>

LEMMA WriteWrote ==
  ASSUME LeftDue, Write
  PROVE  (\E f \in Files : Wrote(f)) /\ LeftDue'
<1>1. worker = "write" /\ left # <<>>
  BY DEF Write, LeftDue
<1>2. PICK f, r : f \in Files /\ Renames(stage, left, f, r)
  BY <1>1 DEF LeftDue
<1>3. Head(left) = f /\ Tail(left) = r /\ (Len(left) = 1 <=> r = <<>>)
  BY <1>2, RenamesOne
<1>4. FileOf(stage, f) /\ (r = <<>> <=> LastFile(stage, f)) /\ (r # <<>> => Follows(f, Head(r)))
  BY <1>2, RenamesFlat
<1>5. CASE r = <<>>
  <2>1. Leaves
    BY <1>3, <1>5 DEF Write
  <2>2. Wrote(f)
    BY <1>1, <1>3, <1>4, <1>5, <2>1 DEF Write, Wrote
  <2> QED
    BY <1>2, <2>1, <2>2 DEF Leaves, LeftDue
<1>6. CASE r # <<>>
  <2>1. left' = r /\ UNCHANGED <<worker, stage, reads>>
    BY <1>3, <1>6 DEF Write
  <2>2. Wrote(f)
    BY <1>1, <1>3, <1>4, <1>6, <2>1 DEF Write, Wrote
  <2>3. \E g \in Files : \E q : Renames(stage, r, g, q)
    BY <1>2, <1>6, RenamesRest
  <2> QED
    BY <1>1, <1>2, <1>6, <2>1, <2>2, <2>3 DEF LeftDue
<1> QED
  BY <1>5, <1>6

(* The stage at hand computes what it is going to write. *)
Computed(n, f) ==
  /\ n = stage /\ n # 4 /\ left' = Writes[Stages[n]] /\ left' # <<>> /\ Head(left') = f
  /\ worker' = "write"
  /\ FileOf(n, f) /\ f \notin {"rawBook", "irEdges", "integrity", "meta"}
  /\ reads' = IF n = 5 THEN reads
               ELSE UNION {from[g] : g \in Needs[Stages[n]] \cup (Uses[Stages[n]] \cap files)}
  /\ UNCHANGED <<stage, files, from, failed>>

LEMMA FirstFiles ==
  ASSUME NEW n \in 1..9, n # 4
  PROVE  /\ Writes[Stages[n]] # <<>>
         /\ FileOf(n, Head(Writes[Stages[n]]))
         /\ Head(Writes[Stages[n]]) \notin {"rawBook", "irEdges", "integrity", "meta"}
         /\ \E f \in Files : \E r : Renames(n, Writes[Stages[n]], f, r)
<1>1. PICK f, r : f \in Files /\ Renames(n, Writes[Stages[n]], f, r)
  BY RenamesAll
<1>2. Writes[Stages[n]] # <<>> /\ f = Head(Writes[Stages[n]]) /\ FileOf(n, f)
  BY <1>1, RenamesOne, RenamesFlat
<1>3. Head(Writes[Stages[n]]) \notin {"rawBook", "irEdges", "integrity", "meta"}
  <2>1. CASE n = 1 \/ n = 2 \/ n = 3
    BY <2>1, StageNames, StageFiles, Tails
  <2>2. CASE n = 5 \/ n = 6 \/ n = 7
    BY <2>2, StageNames, StageFiles, Tails
  <2>3. CASE n = 8 \/ n = 9
    BY <2>3, StageNames, StageFiles, Tails
  <2> QED
    BY <2>1, <2>2, <2>3
<1> QED
  BY <1>1, <1>2, <1>3

LEMMA ComputeComputed ==
  ASSUME stage \in 1..9, Compute
  PROVE  \/ stage # 4 /\ LeftDue' /\ Computed(stage, Head(Writes[Stages[stage]]))
         \/ stage = 4 /\ Leaves /\ UNCHANGED <<files, from, failed>>
<1>2. CASE stage = 4
  <2>1. Writes[Stages[stage]] = <<>>
    BY <1>2, StageNames, StageFiles
  <2> QED
    BY <1>2, <2>1 DEF Compute, disk
<1>3. CASE stage # 4
  <2>1. /\ Writes[Stages[stage]] # <<>>
        /\ FileOf(stage, Head(Writes[Stages[stage]]))
        /\ Head(Writes[Stages[stage]]) \notin {"rawBook", "irEdges", "integrity", "meta"}
        /\ \E f \in Files : \E r : Renames(stage, Writes[Stages[stage]], f, r)
    BY <1>3, FirstFiles
  <2>2. Stages[stage] = "mapping" <=> stage = 5
    BY StageNames
  <2>3. /\ left' = Writes[Stages[stage]]
        /\ worker' = "write"
        /\ UNCHANGED <<stage, files, from, failed>>
        /\ reads' = IF stage = 5 THEN reads
             ELSE UNION {from[g] : g \in Needs[Stages[stage]] \cup (Uses[Stages[stage]] \cap files)}
    BY <2>1, <2>2 DEF Compute, disk
  <2> QED
    BY <1>3, <2>1, <2>3 DEF Computed, LeftDue
<1> QED
  BY <1>2, <1>3

LEMMA InputFiles ==
  ASSUME NEW n \in 1..9
  PROVE  Needs[Stages[n]] \subseteq Files /\ Uses[Stages[n]] \subseteq Files
<1>1. CASE n \in {1, 2, 3}
  BY <1>1, StageNames DEF Needs, Uses, Files
<1>2. CASE n \in {4, 5, 6}
  BY <1>2, StageNames DEF Needs, Uses, Files
<1>3. CASE n \in {7, 8, 9}
  BY <1>3, StageNames DEF Needs, Uses, Files
<1> QED
  BY <1>1, <1>2, <1>3

LEMMA TailFiles ==
  /\ Len(HitlTail) = 7
  /\ HitlTail[1] = "mapping" /\ HitlTail[2] = "candidates" /\ HitlTail[3] = "lineage"
  /\ HitlTail[4] = "frs" /\ HitlTail[5] = "integrity" /\ HitlTail[6] = "report"
  /\ HitlTail[7] = "meta"
BY DEF HitlTail

(* One unlink removes a file of the tail; the last one ends apply_hitl. *)
LEMMA UnlinkFile ==
  ASSUME TypeOK, Handling, NEW r \in Requests, Unlink(r)
  PROVE  /\ Answering /\ unlink \in 1..7
         /\ \E f \in Files : /\ f = HitlTail[unlink]
                             /\ f \notin BaseFiles
                             /\ files' = files \ {f}
                             /\ from' = [from EXCEPT ![f] = {}]
                             /\ failed' = (failed /\ f # "meta")
         /\ unlink < 7 => unlink' = unlink + 1 /\ UNCHANGED <<request, crossed, cut>>
         /\ unlink = 7 => /\ unlink' = 0 /\ crossed' = Running /\ cut' = FALSE
                          /\ request' = [request EXCEPT ![r] = "replace"]
         /\ UNCHANGED <<status, queued, pending, locked, worker, stage, left, reads, edition,
                        answers, restarts>>
<1>1. Answering /\ unlink \in 1..7
  BY TailFiles DEF Unlink, Answering, TypeOK, Handling
<1>2. /\ HitlTail[unlink] \in Files
      /\ HitlTail[unlink] \notin BaseFiles
  BY <1>1, TailFiles, FileNames DEF BaseFiles
<1>3. \E f \in Files : /\ f = HitlTail[unlink]
                       /\ f \notin BaseFiles
                       /\ files' = files \ {f}
                       /\ from' = [from EXCEPT ![f] = {}]
                       /\ failed' = (failed /\ f # "meta")
  BY <1>2 DEF Unlink
<1>4. unlink < 7 => unlink' = unlink + 1 /\ UNCHANGED <<request, crossed, cut>>
  BY <1>1, TailFiles DEF Unlink, TypeOK
<1>5. unlink = 7 => /\ unlink' = 0 /\ crossed' = Running /\ cut' = FALSE
                    /\ request' = [request EXCEPT ![r] = "replace"]
  BY <1>1, TailFiles DEF Unlink
<1> QED
  BY <1>1, <1>3, <1>4, <1>5 DEF Unlink, redis, thread, bounds

-----------------------------------------------------------------------------
(* Types, and the stages that are kept *)

LeftTypes == {FilesFrom(t, k) : t \in Names, k \in 1..4}

LEMMA LeftTyped == LeftDue' => left' \in LeftTypes
<1> SUFFICES ASSUME LeftDue' PROVE left' \in LeftTypes
  OBVIOUS
<1>1. \A s : Part(s) => s \in LeftTypes
  BY DEF Part, LeftTypes
<1>2. CASE left' = <<>>
  BY <1>1, <1>2, EmptyPart
<1>3. CASE left' # <<>>
  <2>1. PICK f, r : f \in Files /\ Renames(stage', left', f, r)
    BY <1>3 DEF LeftDue
  <2> QED
    BY <1>1, <2>1, RenamesPart
<1> QED
  BY <1>2, <1>3

LEMMA InitBase == Init => Base
<1> SUFFICES ASSUME Init PROVE Base
  OBVIOUS
<1>1. left \in LeftTypes
  <2>1. Part(<<>>)
    BY EmptyPart
  <2> QED
    BY <2>1 DEF Init, Part, LeftTypes
<1>2. answers \in 0..MaxAnswers /\ restarts \in 0..MaxRestarts /\ edition \in Nat
  BY BoundAssumption DEF Init
<1>3. files \in SUBSET Files /\ from \in [Files -> SUBSET Nat] /\ reads \in SUBSET Nat
  BY DEF Init
<1>4. stage \in 1..9 /\ unlink \in 0..Len(HitlTail)
  BY TailFiles DEF Init
<1>5. /\ failed \in BOOLEAN /\ queued \in BOOLEAN /\ pending \in BOOLEAN /\ locked \in BOOLEAN
      /\ crossed \in BOOLEAN /\ cut \in BOOLEAN
  BY Zenon DEF Init
<1>6. status \in Statuses /\ worker \in WorkerSteps /\ request \in [Requests -> RequestSteps]
  BY DEF Init, Statuses, WorkerSteps, RequestSteps
<1>7. TypeOK
  BY <1>1, <1>2, <1>3, <1>4, <1>5, <1>6 DEF TypeOK, LeftTypes
<1>8. LeftDue /\ Rests /\ Busy /\ Handling /\ BaseOrder /\ Unlinked
  BY DEF Init, LeftDue, Rests, Busy, Handling, BaseOrder, Unlinked, Answering
<1>9. BaseFrom
  BY FileNames DEF Init, BaseFrom, BaseFiles
<1> QED
  BY <1>7, <1>8, <1>9 DEF Base

(* The inputs of a stage, as far as they go into what it computes, are      *)
(* editions.                                                                *)
LEMMA ReadsTyped ==
  ASSUME TypeOK, NEW n \in 1..9
  PROVE  /\ UNION {from[g] : g \in Needs[Stages[n]] \cup (Uses[Stages[n]] \cap files)} \in SUBSET Nat
         /\ {edition} \in SUBSET Nat
<1>1. Needs[Stages[n]] \cup (Uses[Stages[n]] \cap files) \subseteq Files
  BY InputFiles
<1>2. \A g \in Files : from[g] \in SUBSET Nat
  BY DEF TypeOK
<1> QED
  BY <1>1, <1>2 DEF TypeOK

(* The types of what the event loop changes *)
LoopTyped ==
  /\ status \in Statuses
  /\ queued \in BOOLEAN /\ pending \in BOOLEAN /\ locked \in BOOLEAN
  /\ request \in [Requests -> RequestSteps]
  /\ answers \in 0..MaxAnswers

LEMMA CalmTyped ==
  ASSUME TypeOK, Calm
  PROVE  LoopTyped'
<1>0. LoopTyped
  BY DEF TypeOK, LoopTyped
<1> USE DEF LoopTyped, redis, bounds
<1>1. CASE StartRun \/ Mark \/ SetTerminal
  <2>1. status' \in Statuses
    BY <1>1 DEF StartRun, Mark, SetTerminal, Statuses
  <2>2. UNCHANGED <<queued, pending, locked, request, answers>>
    BY <1>1 DEF StartRun, Mark, SetTerminal
  <2> QED
    BY <1>0, <2>1, <2>2
<1>2. CASE Acknowledge \/ ForgetPending \/ Refuse \/ LockExpires
  <2>1. UNCHANGED <<status, request, answers>>
    BY <1>2 DEF Acknowledge, ForgetPending, Refuse, LockExpires
  <2>2. queued' \in {queued, FALSE} /\ pending' \in {pending, FALSE} /\ locked' \in {locked, FALSE}
    BY <1>2 DEF Acknowledge, ForgetPending, Refuse, LockExpires
  <2> QED
    BY <1>0, <2>1, <2>2
<1>3. ASSUME NEW r \in Requests, StartUpload(r) \/ StartAnswers(r)
      PROVE  LoopTyped'
  <2>1. UNCHANGED <<status, queued, pending, locked>>
    BY <1>3 DEF StartUpload, StartAnswers
  <2>2. answers' \in 0..MaxAnswers
    BY <1>0, <1>3, BoundAssumption DEF StartUpload, StartAnswers
  <2>3. request' = [request EXCEPT ![r] = "hget"] \/ request' = [request EXCEPT ![r] = "apply"]
    BY <1>3 DEF StartUpload, StartAnswers, Proceeds
  <2>4. request' \in [Requests -> RequestSteps]
    BY <1>0, <2>3 DEF RequestSteps
  <2> QED
    BY <1>0, <2>1, <2>2, <2>4
<1>4. ASSUME NEW r \in Requests, ReadStatus(r) \/ WriteQueued(r)
      PROVE  LoopTyped'
  <2>1. UNCHANGED <<queued, pending, locked, answers>>
    BY <1>4 DEF ReadStatus, WriteQueued
  <2>2. status' \in {status, "queued"}
    BY <1>4 DEF ReadStatus, WriteQueued
  <2>3. \E step \in {"sadd", "hset"} : request' = [request EXCEPT ![r] = step]
    BY <1>4 DEF ReadStatus, WriteQueued, Proceeds
  <2>4. request' \in [Requests -> RequestSteps]
    BY <1>0, <2>3 DEF RequestSteps
  <2> QED
    BY <1>0, <2>1, <2>2, <2>4 DEF Statuses
<1>5. ASSUME NEW r \in Requests, AddPending(r) \/ AppendEntry(r)
      PROVE  LoopTyped'
  <2>1. UNCHANGED <<status, locked, answers>>
    BY <1>5 DEF AddPending, AppendEntry
  <2>2. queued' \in {queued, TRUE} /\ pending' \in {pending, TRUE}
    BY <1>5 DEF AddPending, AppendEntry
  <2>3. \E step \in {"idle", "xadd"} : request' = [request EXCEPT ![r] = step]
    BY <1>5 DEF AddPending, AppendEntry, Proceeds
  <2>4. request' \in [Requests -> RequestSteps]
    BY <1>0, <2>3 DEF RequestSteps
  <2> QED
    BY <1>0, <2>1, <2>2, <2>4
<1>6. CASE UNCHANGED vars
  BY <1>0, <1>6 DEF vars
<1> QED
  BY <1>1, <1>2, <1>3, <1>4, <1>5, <1>6 DEF Calm

(* The types of what the thread changes *)
ThreadTyped ==
  /\ files \in SUBSET Files /\ from \in [Files -> SUBSET Nat] /\ failed \in BOOLEAN
  /\ worker \in WorkerSteps /\ stage \in 1..9 /\ reads \in SUBSET Nat

LEMMA ThreadTypes ==
  ASSUME TypeOK, LeftDue, Thread
  PROVE  ThreadTyped' /\ LeftDue'
<1>1. worker' \in WorkerSteps
  BY ThreadSteps DEF WorkerSteps
<1>2. SUFFICES /\ LeftDue'
               /\ files' \in SUBSET Files /\ from' \in [Files -> SUBSET Nat]
               /\ failed' \in BOOLEAN /\ stage' \in 1..9 /\ reads' \in SUBSET Nat
  BY <1>1 DEF ThreadTyped
<1>3. CASE Skip
  BY <1>3 DEF Skip, Leaves, TypeOK, LeftDue, disk
<1>4. CASE Compute
  <2>1. stage \in 1..9 /\ UNCHANGED <<files, from, failed>>
    BY <1>4 DEF Compute, TypeOK, disk
  <2>2. CASE stage = 4 /\ Leaves
    BY <2>1, <2>2 DEF Leaves, TypeOK, LeftDue
  <2>3. CASE LeftDue' /\ Computed(stage, Head(Writes[Stages[stage]]))
    BY <2>1, <2>3, ReadsTyped DEF Computed, TypeOK
  <2> QED
    BY <1>4, <2>1, <2>2, <2>3, ComputeComputed
<1>5. CASE Write
  <2>2. PICK f \in Files : Wrote(f)
    BY <1>5, WriteWrote
  <2>3. from' \in [Files -> SUBSET Nat] /\ files' \in SUBSET Files /\ failed' \in BOOLEAN
    BY <2>2 DEF Wrote, TypeOK
  <2>1. Leaves \/ UNCHANGED <<stage, reads>>
    BY <2>2 DEF Wrote
  <2>4. stage' \in 1..9 /\ reads' \in SUBSET Nat
    <3>1. stage \in 1..9 /\ reads \in SUBSET Nat
      BY DEF TypeOK
    <3>2. CASE Leaves
      BY <3>1, <3>2 DEF Leaves
    <3>3. CASE UNCHANGED <<stage, reads>>
      BY <3>1, <3>3
    <3> QED
      BY <2>1, <3>2, <3>3
  <2>5. LeftDue'
    BY <1>5, WriteWrote
  <2> QED
    BY <2>3, <2>4, <2>5
<1>6. CASE Fail
  <2>1. files' \in SUBSET Files /\ from' \in [Files -> SUBSET Nat]
    BY <1>6, FileNames DEF Fail, TypeOK
  <2>2. failed' = TRUE /\ stage' = 1 /\ left' = <<>> /\ reads' = {} /\ worker' = "fail"
    BY <1>6 DEF Fail, Goto
  <2>3. failed' \in BOOLEAN
    BY <2>2, Zenon
  <2> QED
    BY <2>1, <2>2, <2>3 DEF LeftDue
<1> QED
  BY <1>3, <1>4, <1>5, <1>6 DEF Thread

LEMMA StepTyped ==
  ASSUME TypeOK, LeftDue, Handling, [Next]_vars
  PROVE  TypeOK' /\ LeftDue'
<1>1. CASE Calm
  <2>1. UNCHANGED <<files, from, failed, edition, unlink, crossed, cut, stage, left, restarts>>
    BY <1>1, CalmSteps
  <2>2. worker' \in WorkerSteps
    <3>1. worker' = worker \/ worker' \in {"mark", "read", "xack", "srem", "idle"}
      BY <1>1, CalmWorker
    <3> QED
      BY <3>1 DEF WorkerSteps, TypeOK
  <2>3. worker' = "write" <=> worker = "write"
    <3>1. worker' = worker \/ (worker # "write" /\ worker' # "write")
      BY <1>1, CalmWorker
    <3> QED
      BY <3>1
  <2>4. reads' \in SUBSET Nat
    <3>1. reads' \in {reads, {edition}, {}}
      BY <1>1, CalmWorker
    <3> QED
      BY <3>1 DEF TypeOK
  <2>5. LoopTyped'
    BY <1>1, CalmTyped
  <2> QED
    BY <2>1, <2>2, <2>3, <2>4, <2>5 DEF TypeOK, LoopTyped, LeftDue
<1>2. CASE Thread
  <2>1. UNCHANGED <<status, queued, pending, locked, edition, unlink, crossed, cut, request,
                    answers, restarts>>
    BY <1>2, ThreadSteps
  <2>2. ThreadTyped' /\ LeftDue' /\ left' \in LeftTypes
    BY <1>2, ThreadTypes, LeftTyped
  <2> QED
    BY <2>1, <2>2 DEF TypeOK, ThreadTyped, LeftTypes
<1>3. ASSUME NEW r \in Requests, MergeAnswers(r)
      PROVE  TypeOK' /\ LeftDue'
  <2>1. request' \in [Requests -> RequestSteps]
    BY <1>3, MergeSteps DEF TypeOK, RequestSteps
  <2>2. edition' \in Nat
    BY <1>3, MergeSteps DEF TypeOK
  <2>3. unlink' \in 0..Len(HitlTail)
    BY <1>3, MergeSteps, TailFiles
  <2>4. crossed' \in BOOLEAN
    BY <1>3, MergeSteps, Zenon DEF TypeOK
  <2>5. UNCHANGED <<files, from, failed, status, queued, pending, locked, worker, stage, left,
                    reads, cut, answers, restarts>>
    BY <1>3, MergeSteps
  <2> QED
    BY <2>1, <2>2, <2>3, <2>4, <2>5 DEF TypeOK, LeftDue
<1>4. ASSUME NEW r \in Requests, Unlink(r)
      PROVE  TypeOK' /\ LeftDue'
  <2>1. UNCHANGED <<status, queued, pending, locked, worker, stage, left, reads, edition,
                    answers, restarts>>
    BY <1>4, UnlinkFile
  <2>2. unlink \in 1..7
    BY <1>4, UnlinkFile
  <2>3. PICK f \in Files : /\ files' = files \ {f} /\ from' = [from EXCEPT ![f] = {}]
                           /\ failed' = (failed /\ f # "meta")
    BY <1>4, UnlinkFile
  <2>4. files' \in SUBSET Files /\ from' \in [Files -> SUBSET Nat] /\ failed' \in BOOLEAN
    BY <2>3 DEF TypeOK
  <2>5. CASE unlink < 7
    <3>1. unlink' = unlink + 1 /\ UNCHANGED <<request, crossed, cut>>
      BY <1>4, <2>5, UnlinkFile
    <3>2. unlink' \in 0..7
      BY <2>2, <2>5, <3>1
    <3> QED
      BY <2>1, <2>4, <3>1, <3>2, TailFiles DEF TypeOK, LeftDue
  <2>6. CASE unlink = 7
    <3>1. /\ unlink' = 0 /\ crossed' = Running /\ cut' = FALSE
          /\ request' = [request EXCEPT ![r] = "replace"]
      BY <1>4, <2>6, UnlinkFile
    <3>2. crossed' \in BOOLEAN /\ cut' \in BOOLEAN
      BY <3>1, Zenon DEF Running
    <3>3. request' \in [Requests -> RequestSteps]
      BY <3>1 DEF TypeOK, RequestSteps
    <3> QED
      BY <2>1, <2>4, <3>1, <3>2, <3>3, TailFiles DEF TypeOK, LeftDue
  <2> QED
    BY <2>2, <2>5, <2>6
<1>5. CASE Restarted
  <2>1. /\ worker' = "idle" /\ stage' = 1 /\ left' = <<>> /\ reads' = {} /\ unlink' = 0
        /\ request' = [r \in Requests |-> "idle"]
        /\ cut' = (cut \/ Answering)
        /\ restarts < MaxRestarts /\ restarts' = restarts + 1
        /\ UNCHANGED <<files, from, failed, edition, answers>>
        /\ crossed' \in BOOLEAN
    BY <1>5, RestartSteps
  <2>2. LeftDue' /\ left' \in LeftTypes
    BY <2>1, LeftTyped DEF LeftDue
  <2>3. status' \in Statuses /\ queued' \in BOOLEAN /\ pending' \in BOOLEAN /\ locked' \in BOOLEAN
    <3> USE DEF Reconciled, Statuses
    <3>1. CASE Stop
      BY <3>1 DEF Stop, TypeOK
    <3>2. CASE Kill
      BY <3>2 DEF Kill, TypeOK
    <3>3. CASE PodLost
      BY <3>3 DEF PodLost, TypeOK
    <3> QED
      BY <1>5, <3>1, <3>2, <3>3 DEF Restarted
  <2>4. cut' \in BOOLEAN
    BY <2>1, Zenon DEF TypeOK
  <2>5. restarts' \in 0..MaxRestarts
    BY <2>1, BoundAssumption DEF TypeOK
  <2>6. request' \in [Requests -> RequestSteps] /\ worker' \in WorkerSteps
    BY <2>1 DEF RequestSteps, WorkerSteps
  <2> QED
    BY <2>1, <2>2, <2>3, <2>4, <2>5, <2>6, TailFiles DEF TypeOK, LeftTypes
<1> QED
  BY <1>1, <1>2, <1>3, <1>4, <1>5, StepCases

LEMMA StepRests ==
  ASSUME TypeOK, LeftDue, Handling, Rests, Busy, [Next]_vars
  PROVE  Rests' /\ Busy'
<1>1. CASE Calm
  <2>1. stage' = stage
    BY <1>1, CalmSteps
  <2>2. worker \in {"mark", "read", "write"} => worker' \in {"mark", "read", "write"}
    BY <1>1, CalmWorker
  <2>3. worker' \notin {"idle", "srem"} => queued'
    BY <1>1, CalmWorker DEF Busy
  <2> QED
    BY <2>1, <2>2, <2>3 DEF Rests, Busy
<1>2. CASE Thread
  <2>1. queued'
    BY <1>2, ThreadSteps DEF Busy
  <2>2. worker' \in {"settle", "fail"} => stage' = 1
    <3>1. CASE Skip
      BY <3>1 DEF Skip, Leaves
    <3>2. CASE Compute
      BY <3>2 DEF Compute, Leaves
    <3>3. CASE Write
      BY <3>3 DEF Write, Leaves
    <3>4. CASE Fail
      BY <3>4 DEF Fail
    <3> QED
      BY <1>2, <3>1, <3>2, <3>3, <3>4 DEF Thread
  <2>3. worker' \in {"mark", "write", "settle", "fail"}
    BY <1>2, ThreadSteps
  <2> QED
    BY <2>1, <2>2, <2>3 DEF Rests, Busy
<1>3. ASSUME NEW r \in Requests, MergeAnswers(r) \/ Unlink(r)
      PROVE  Rests' /\ Busy'
  <2>1. UNCHANGED <<worker, stage, queued>>
    BY <1>3, MergeSteps, UnlinkFile
  <2> QED
    BY <2>1 DEF Rests, Busy
<1>4. CASE Restarted
  BY <1>4, RestartSteps DEF Rests, Busy
<1> QED
  BY <1>1, <1>2, <1>3, <1>4, StepCases

(* Requests of the event loop do not begin apply_hitl but at MergeAnswers. *)
LEMMA CalmRequests ==
  ASSUME TypeOK, Calm
  PROVE  \A r \in Requests : request'[r] = "unlink" => request[r] = "unlink"
<1>1. CASE UNCHANGED request
  BY <1>1
<1>2. ASSUME NEW r \in Requests,
             \/ StartUpload(r) \/ StartAnswers(r)
             \/ ReadStatus(r) \/ WriteQueued(r) \/ AddPending(r) \/ AppendEntry(r)
      PROVE  \E step \in RequestSteps : step # "unlink" /\ request' = [request EXCEPT ![r] = step]
  <2>1. CASE StartUpload(r) \/ StartAnswers(r)
    BY <2>1 DEF StartUpload, StartAnswers, Proceeds, RequestSteps
  <2>2. CASE ReadStatus(r) \/ WriteQueued(r)
    BY <2>2 DEF ReadStatus, WriteQueued, Proceeds, RequestSteps
  <2>3. CASE AddPending(r) \/ AppendEntry(r)
    BY <2>3 DEF AddPending, AppendEntry, Proceeds, RequestSteps
  <2> QED
    BY <1>2, <2>1, <2>2, <2>3
<1>3. ASSUME NEW r \in Requests, NEW step \in RequestSteps, step # "unlink",
             request' = [request EXCEPT ![r] = step]
      PROVE  \A q \in Requests : request'[q] = "unlink" => request[q] = "unlink"
  BY <1>3 DEF TypeOK
<1>4. UNCHANGED request \/ \E r \in Requests :
        \/ StartUpload(r) \/ StartAnswers(r)
        \/ ReadStatus(r) \/ WriteQueued(r) \/ AddPending(r) \/ AppendEntry(r)
  BY DEF Calm, StartRun, Mark, SetTerminal, Acknowledge, ForgetPending, Refuse, LockExpires, vars
<1> QED
  BY <1>1, <1>2, <1>3, <1>4

LEMMA StepHandling ==
  ASSUME TypeOK, Handling, [Next]_vars
  PROVE  Handling'
<1>1. CASE Calm
  <2>1. CASE Answering
    <3>1. UNCHANGED <<unlink, request>>
      BY <1>1, <2>1, CalmAnswering DEF vars, hitl
    <3> QED
      BY <3>1 DEF Handling, Answering
  <2>2. CASE ~Answering
    <3>1. unlink' = unlink
      BY <1>1, CalmSteps
    <3> QED
      BY <1>1, <2>2, <3>1, CalmRequests DEF Handling, Answering
  <2> QED
    BY <2>1, <2>2
<1>2. CASE Thread
  BY <1>2, ThreadSteps DEF Handling, Answering
<1>3. ASSUME NEW r \in Requests, MergeAnswers(r)
      PROVE  Handling'
  <2>1. \A q \in Requests : request[q] # "unlink"
    BY <1>3, MergeSteps DEF Handling
  <2>2. request' = [request EXCEPT ![r] = "unlink"] /\ unlink' = 1
    BY <1>3, MergeSteps
  <2>3. \A q \in Requests : request'[q] = "unlink" => q = r
    BY <2>1, <2>2 DEF TypeOK
  <2>4. request'[r] = "unlink"
    BY <2>2 DEF TypeOK
  <2> QED
    BY <2>2, <2>3, <2>4 DEF Handling, Answering
<1>4. ASSUME NEW r \in Requests, Unlink(r)
      PROVE  Handling'
  <2>1. unlink \in 1..7 /\ request[r] = "unlink"
    BY <1>4, UnlinkFile DEF Unlink
  <2>2. CASE unlink < 7
    <3>1. unlink' = unlink + 1 /\ request' = request
      BY <1>4, <2>2, UnlinkFile
    <3>2. Answering'
      BY <2>1, <3>1 DEF Answering
    <3> QED
      BY <2>1, <3>1, <3>2 DEF Handling
  <2>3. CASE unlink = 7
    <3>1. request' = [request EXCEPT ![r] = "replace"]
      BY <1>4, <2>3, UnlinkFile
    <3>2. \A q \in Requests : request'[q] # "unlink"
      BY <2>1, <3>1 DEF Handling, TypeOK
    <3>3. ~Answering'
      BY <1>4, <2>3, UnlinkFile DEF Answering
    <3> QED
      BY <3>2, <3>3 DEF Handling
  <2> QED
    BY <2>1, <2>2, <2>3
<1>5. CASE Restarted
  BY <1>5, RestartSteps DEF Handling, Answering
<1> QED
  BY <1>1, <1>2, <1>3, <1>4, <1>5, StepCases

LEMMA BaseFilesKept ==
  ASSUME TypeOK, LeftDue, Handling, [Next]_vars
  PROVE  /\ \A f \in BaseFiles : f \in files => f \in files'
         /\ ~Write => \A f \in BaseFiles : f \in files' => f \in files
<1>1. CASE Write
  <2>1. PICK f \in Files : Wrote(f)
    BY <1>1, WriteWrote
  <2> QED
    BY <1>1, <2>1 DEF Wrote
<1>2. ASSUME NEW r \in Requests, Unlink(r)
      PROVE  \A g \in BaseFiles : g \in files <=> g \in files'
  <2>1. PICK f \in Files : f \notin BaseFiles /\ files' = files \ {f}
    BY <1>2, UnlinkFile
  <2> QED
    BY <2>1
<1>3. CASE Fail
  BY <1>3 DEF Fail, BaseFiles
<1>4. Calm \/ Skip \/ Compute \/ (\E r \in Requests : MergeAnswers(r)) \/ Restarted => UNCHANGED files
  BY CalmSteps, MergeSteps, RestartSteps DEF Skip, Compute, disk
<1> QED
  BY <1>1, <1>2, <1>3, <1>4, StepCases DEF Thread

LEMMA StepOrdersBase == Base /\ [Next]_vars => BaseOrder'
<1> SUFFICES ASSUME Base, [Next]_vars PROVE BaseOrder'
  OBVIOUS
<1> USE DEF BaseOrder
<1>0. TypeOK /\ LeftDue /\ Handling /\ BaseOrder
  BY DEF Base
<1>1. CASE Write
  <2>1. PICK f \in Files : Wrote(f)
    BY <1>0, <1>1, WriteWrote
  <2>2. CASE LastFile(stage, f)
    <3>1. left' = <<>> /\ files' = files \cup {f} /\ Head(left) = f /\ left # <<>>
      BY <2>1, <2>2 DEF Wrote, Leaves, LastFile
    <3> QED
      BY <1>0, <3>1
  <2>3. CASE ~LastFile(stage, f)
    <3>1. /\ Follows(f, Head(left')) /\ stage' = stage /\ files' = files \cup {f}
          /\ left # <<>> /\ Head(left) = f /\ FileOf(stage, f)
      BY <2>1, <2>3 DEF Wrote
    <3>2. f \notin {"rawBook", "irEdges", "layout"}
      BY <2>3, <3>1 DEF FileOf
    <3> QED
      BY <1>0, <3>1, <3>2 DEF Follows
  <2> QED
    BY <2>2, <2>3
<1>2. CASE Compute
  <2>0. stage \in 1..9
    BY <1>0 DEF TypeOK
  <2>1. CASE stage # 4 /\ Computed(stage, Head(Writes[Stages[stage]]))
    <3>1. ~Present(Stages[stage]) /\ files' = files /\ stage' = stage
      BY <1>2, <2>1 DEF Compute, Computed
    <3>2. /\ stage = 1 => "rawBook" \notin files
          /\ stage = 2 => "irEdges" \notin files
          /\ stage = 3 => "layout" \notin files
      BY <1>0, <3>1, StageNames, StagePresent
    <3>3. Head(left') # "rawBook" /\ Head(left') # "irEdges"
      BY <2>1 DEF Computed
    <3> QED
      BY <1>0, <3>1, <3>2, <3>3
  <2>2. CASE stage = 4 /\ Leaves /\ UNCHANGED files
    BY <1>0, <2>2 DEF Leaves
  <2> QED
    BY <1>2, <2>0, <2>1, <2>2, ComputeComputed
<1>3. CASE left' = <<>> /\ ~Write
  BY <1>0, <1>3, BaseFilesKept DEF BaseFiles
<1>4. CASE UNCHANGED <<left, stage>> /\ ~Write
  BY <1>0, <1>4, BaseFilesKept DEF BaseFiles
<1>5. left' = <<>> \/ UNCHANGED <<left, stage>> \/ Write \/ Compute
  <2>1. Calm => UNCHANGED <<left, stage>>
    BY CalmSteps
  <2>2. Skip \/ Fail \/ Restarted => left' = <<>>
    BY <1>0, RestartSteps DEF Skip, Fail, Leaves
  <2>3. ASSUME NEW r \in Requests, MergeAnswers(r) \/ Unlink(r) PROVE UNCHANGED <<left, stage>>
    BY <1>0, <2>3, MergeSteps, UnlinkFile
  <2> QED
    BY <2>1, <2>2, <2>3, StepCases DEF Thread
<1> QED
  BY <1>1, <1>2, <1>3, <1>4, <1>5

(* The inputs of the stages from check on are the mapping and what else was *)
(* computed from it.                                                        *)
LEMMA InputsOfStages ==
  /\ \A n \in 1..3 : Needs[Stages[n]] \cup Uses[Stages[n]] \subseteq BaseFiles
  /\ \A n \in 6..9 :
       /\ "mapping" \in Needs[Stages[n]]
       /\ Needs[Stages[n]] \cup Uses[Stages[n]] \subseteq
            BaseFiles \cup {"mapping", "candidates", "frs", "lineage"}
<1>1. \A n \in 1..3 : Needs[Stages[n]] \cup Uses[Stages[n]] \subseteq BaseFiles
  BY StageNames DEF Needs, Uses, BaseFiles
<1>2. ASSUME NEW n \in {6, 7}
      PROVE  /\ "mapping" \in Needs[Stages[n]]
             /\ Needs[Stages[n]] \cup Uses[Stages[n]] \subseteq
                  BaseFiles \cup {"mapping", "candidates", "frs", "lineage"}
  BY <1>2, StageNames DEF Needs, Uses, BaseFiles
<1>3. ASSUME NEW n \in {8, 9}
      PROVE  /\ "mapping" \in Needs[Stages[n]]
             /\ Needs[Stages[n]] \cup Uses[Stages[n]] \subseteq
                  BaseFiles \cup {"mapping", "candidates", "frs", "lineage"}
  BY <1>3, StageNames DEF Needs, Uses, BaseFiles
<1> QED
  BY <1>1, <1>2, <1>3

LEMMA StepBaseFrom ==
  ASSUME Base, [Next]_vars
  PROVE  BaseFrom'
<1>0. TypeOK /\ LeftDue /\ Handling /\ BaseFrom /\ BaseFiles \subseteq Files
  BY FileNames DEF Base, BaseFiles
<1>1. CASE Calm
  <2>1. UNCHANGED <<from, left, stage>>
    BY <1>1, CalmSteps
  <2>2. worker = "write" => reads' = reads
    BY <1>1, CalmWorker
  <2> QED
    BY <1>0, <2>1, <2>2 DEF BaseFrom, LeftDue
<1>2. CASE Skip \/ Fail
  <2>1. left' = <<>>
    BY <1>2 DEF Skip, Fail, Leaves
  <2>2. \A f \in BaseFiles : from'[f] = from[f]
    BY <1>0, <1>2 DEF Skip, Fail, disk, TypeOK, BaseFiles
  <2> QED
    BY <1>0, <2>1, <2>2 DEF BaseFrom
<1>3. CASE Compute
  <2>0. stage \in 1..9
    BY <1>0 DEF TypeOK
  <2>1. CASE Computed(stage, Head(Writes[Stages[stage]]))
    <3>1. UNCHANGED <<from, stage>>
      BY <2>1 DEF Computed
    <3>2. CASE stage \in 1..3
      <4>1. \A g \in Needs[Stages[stage]] \cup (Uses[Stages[stage]] \cap files) : from[g] = {}
        BY <1>0, <3>2, InputsOfStages DEF BaseFrom
      <4>2. UNION {from[g] : g \in Needs[Stages[stage]] \cup (Uses[Stages[stage]] \cap files)} = {}
        BY <4>1
      <4>3. reads' = UNION {from[g] : g \in Needs[Stages[stage]] \cup (Uses[Stages[stage]] \cap files)}
        BY <2>1, <3>2 DEF Computed
      <4>4. reads' = {}
        BY <4>2, <4>3
      <4> QED
        BY <1>0, <3>1, <4>4 DEF BaseFrom
    <3> QED
      BY <1>0, <3>1, <3>2 DEF BaseFrom
  <2>2. CASE Leaves /\ UNCHANGED from
    BY <1>0, <2>2 DEF Leaves, BaseFrom
  <2> QED
    BY <1>3, <2>0, <2>1, <2>2, ComputeComputed
<1>4. CASE Write
  <2>1. PICK f \in Files : Wrote(f)
    BY <1>0, <1>4, WriteWrote
  <2>2. /\ left # <<>> /\ FileOf(stage, f) /\ from' = [from EXCEPT ![f] = reads]
        /\ left' = <<>> \/ UNCHANGED <<stage, reads>>
    BY <2>1 DEF Wrote, Leaves
  <2>3. f \in BaseFiles => stage \in 1..3
    BY <2>2 DEF FileOf, LastFile, BaseFiles
  <2>4. f \in BaseFiles => reads = {}
    BY <1>0, <2>2, <2>3 DEF BaseFrom
  <2>5. \A g \in BaseFiles : from'[g] = {}
    <3>1. \A g \in Files : from'[g] = IF g = f THEN reads ELSE from[g]
      BY <1>0, <2>2 DEF TypeOK
    <3>2. \A g \in BaseFiles : from[g] = {}
      BY <1>0 DEF BaseFrom
    <3> QED
      BY <1>0, <2>4, <3>1, <3>2
  <2> QED
    BY <1>0, <2>2, <2>5 DEF BaseFrom
<1>5. ASSUME NEW r \in Requests, MergeAnswers(r)
      PROVE  BaseFrom'
  BY <1>0, <1>5, MergeSteps DEF BaseFrom
<1>6. ASSUME NEW r \in Requests, Unlink(r)
      PROVE  BaseFrom'
  <2>1. PICK f \in Files : f \notin BaseFiles /\ from' = [from EXCEPT ![f] = {}]
    BY <1>0, <1>6, UnlinkFile
  <2>2. UNCHANGED <<left, stage, reads>>
    BY <1>0, <1>6, UnlinkFile
  <2> QED
    BY <1>0, <2>1, <2>2 DEF BaseFrom, TypeOK
<1>7. CASE Restarted
  BY <1>0, <1>7, RestartSteps DEF BaseFrom
<1> QED
  BY <1>1, <1>2, <1>3, <1>4, <1>5, <1>6, <1>7, StepCases DEF Thread

LEMMA StepUnlinked ==
  ASSUME Base, [Next]_vars
  PROVE  Unlinked'
<1>0. TypeOK /\ Handling /\ Busy /\ Unlinked
  BY DEF Base
<1>1. CASE Calm
  <2>1. CASE Answering
    BY <1>0, <1>1, <2>1, CalmAnswering DEF Unlinked, Answering, Running, vars, disk, thread, hitl
  <2>2. CASE ~Answering
    BY <1>1, <2>2, CalmSteps DEF Unlinked, Answering
  <2> QED
    BY <2>1, <2>2
<1>2. CASE Thread
  BY <1>2, ThreadSteps DEF Unlinked, Running
<1>3. ASSUME NEW r \in Requests, MergeAnswers(r)
      PROVE  Unlinked'
  BY <1>3, MergeSteps DEF Unlinked
<1>4. ASSUME NEW r \in Requests, Unlink(r)
      PROVE  Unlinked'
  <2>1. PICK f \in Files : f = HitlTail[unlink] /\ files' = files \ {f}
    BY <1>0, <1>4, UnlinkFile
  <2>2. unlink \in 1..7 /\ Answering /\ Running' = Running
    BY <1>0, <1>4, UnlinkFile DEF Running
  <2>3. CASE unlink < 7
    <3>1. unlink' = unlink + 1
      BY <1>0, <1>4, <2>3, UnlinkFile
    <3> QED
      BY <1>0, <2>1, <2>2, <3>1 DEF Unlinked
  <2>4. CASE unlink = 7
    <3>1. unlink' = 0
      BY <1>0, <1>4, <2>4, UnlinkFile
    <3> QED
      BY <3>1 DEF Unlinked, Answering
  <2> QED
    BY <2>2, <2>3, <2>4
<1>5. CASE Restarted
  BY <1>0, <1>5, RestartSteps DEF Unlinked, Answering
<1> QED
  BY <1>1, <1>2, <1>3, <1>4, <1>5, StepCases

LEMMA StepBase == Base /\ [Next]_vars => Base'
BY StepTyped, StepRests, StepHandling, StepOrdersBase, StepBaseFrom, StepUnlinked DEF Base

LEMMA BaseKept == Spec => []Base
BY InitBase, StepBase, PTL DEF Spec

(* The variables keep their types, whatever interleaving of pipeline,       *)
(* requests and restarts happens.                                           *)
THEOREM Typed == Spec => []TypeOK
<1>1. Base => TypeOK
  BY DEF Base
<1> QED
  BY <1>1, BaseKept, PTL

LEMMA StagePresentNext ==
  /\ Present("parse")' <=> "rawCells" \in files' /\ "rawBook" \in files'
  /\ Present("compile")' <=> "irCells" \in files' /\ "irEdges" \in files'
  /\ Present("layout")' <=> "layout" \in files'
BY StageFiles DEF Present, SeqSet

LEMMA BaseStageFiles ==
  /\ SeqSet(Writes["parse"]) = {"rawCells", "rawBook"}
  /\ SeqSet(Writes["compile"]) = {"irCells", "irEdges"}
  /\ SeqSet(Writes["layout"]) = {"layout"}
BY StageFiles DEF SeqSet

(* What is left to write is never of a complete stage. *)
LeftOfIncomplete ==
  \A s \in {"parse", "compile", "layout"} :
    Present(s) /\ left # <<>> => Head(left) \notin SeqSet(Writes[s])

LEMMA LeftIncomplete == Base => LeftOfIncomplete
<1> SUFFICES ASSUME Base, NEW s \in {"parse", "compile", "layout"}, Present(s), left # <<>>
             PROVE  Head(left) \notin SeqSet(Writes[s])
  BY DEF LeftOfIncomplete
<1>1. PICK f, r : f \in Files /\ Renames(stage, left, f, r)
  BY DEF Base, LeftDue
<1>2. FileOf(stage, f) /\ f = Head(left)
  BY <1>1, RenamesFlat, RenamesOne
<1>3. /\ s = "parse" => stage # 1
      /\ s = "compile" => stage # 2
      /\ s = "layout" => stage # 3
  BY StagePresent DEF Base, BaseOrder
<1> QED
  BY <1>2, <1>3, BaseStageFiles DEF FileOf, LastFile

(* What parse, compile and layout have finished is never written again,     *)
(* whatever answers, failures and restarts come in between: the pipeline    *)
(* only enters a stage whose files are missing, and no answers remove them. *)
THEOREM StagesKept == Spec => StageKept
<1>1. Base => LeftOfIncomplete
  BY LeftIncomplete
<1>2. Base /\ LeftOfIncomplete' /\ [Next]_vars =>
        [\A s \in {"parse", "compile", "layout"} :
           Present(s) => /\ Present(s)'
                         /\ left' # <<>> => Head(left') \notin SeqSet(Writes[s])]_vars
  <2> SUFFICES ASSUME Base, LeftOfIncomplete', [Next]_vars,
                      NEW s \in {"parse", "compile", "layout"}, Present(s)
               PROVE  /\ Present(s)'
                      /\ left' # <<>> => Head(left') \notin SeqSet(Writes[s])
    OBVIOUS
  <2>1. \A f \in BaseFiles : f \in files => f \in files'
    BY BaseFilesKept DEF Base
  <2>2. Present(s)'
    BY <2>1, StagePresent, StagePresentNext DEF BaseFiles
  <2> QED
    BY <2>2 DEF LeftOfIncomplete
<1> QED
  BY <1>1, <1>2, BaseKept, PTL DEF Spec, StageKept

-----------------------------------------------------------------------------
(* Answers that do not cross a job *)

LEMMA InitWhole == Init => Whole
<1> SUFFICES ASSUME Init PROVE Whole
  OBVIOUS
<1>1. Base
  BY InitBase
<1>2. Passed
  BY DEF Init, Passed
<1>3. Uniform
  BY DEF Init, Uniform
<1>4. Committed
  BY DEF Init, Committed, Ready
<1> QED
  BY <1>1, <1>2, <1>3, <1>4 DEF Whole, Apart, Init, Answering

LEMMA StepPassed ==
  ASSUME Base, Passed, Calm \/ Thread
  PROVE  Passed'
<1>0. TypeOK /\ LeftDue /\ BaseOrder /\ stage \in 1..9
  BY DEF Base, TypeOK
<1>1. CASE Calm
  BY <1>1, CalmSteps DEF Passed
<1>2. CASE stage' = 1 /\ left' = <<>>
  BY <1>2 DEF Passed
<1>3. CASE Skip
  <2>1. CASE stage = 9
    BY <1>2, <1>3, <2>1 DEF Skip, Leaves
  <2>2. CASE stage # 9
    <3>1. /\ Present(Stages[stage]) /\ files' = files
          /\ stage' = stage + 1 /\ left' = <<>>
      BY <1>3, <2>2 DEF Skip, Leaves, disk
    <3>2. /\ stage # 4
          /\ stage = 1 => "rawBook" \in files
          /\ stage = 2 => "irEdges" \in files
          /\ stage = 3 => "layout" \in files
      BY <3>1, StageNames, StagePresent
    <3>3. /\ stage = 5 => "mapping" \in files
          /\ stage = 6 => "candidates" \in files
          /\ stage = 7 => "frs" \in files
          /\ stage = 8 => "lineage" \in files
      BY <3>1, StageNames, StagePresent
    <3> QED
      BY <1>0, <2>2, <3>1, <3>2, <3>3 DEF Passed
  <2> QED
    BY <2>1, <2>2
<1>4. CASE Compute
  <2>1. CASE Computed(stage, Head(Writes[Stages[stage]]))
    BY <1>0, <2>1 DEF Computed, Passed
  <2>2. CASE stage = 4 /\ Leaves /\ files' = files
    BY <1>0, <2>2 DEF Leaves, Passed
  <2> QED
    BY <1>0, <1>4, <2>1, <2>2, ComputeComputed
<1>5. CASE Write
  <2>1. PICK f \in Files : Wrote(f)
    BY <1>0, <1>5, WriteWrote
  <2>2. files' = files \cup {f}
    BY <2>1 DEF Wrote
  <2>3. CASE LastFile(stage, f) /\ stage = 9
    BY <1>2, <2>1, <2>3 DEF Wrote, Leaves
  <2>4. CASE LastFile(stage, f) /\ stage # 9
    <3>1. stage' = stage + 1 /\ left' = <<>>
      BY <2>1, <2>4 DEF Wrote, Leaves
    <3>2. /\ stage # 4
          /\ stage = 1 => "rawBook" \in files'
          /\ stage = 2 => "irEdges" \in files'
          /\ stage = 3 => "layout" \in files'
      BY <2>2, <2>4 DEF LastFile
    <3>3. /\ stage = 5 => "mapping" \in files'
          /\ stage = 6 => "candidates" \in files'
          /\ stage = 7 => "frs" \in files'
          /\ stage = 8 => "lineage" \in files'
      BY <2>2, <2>4 DEF LastFile
    <3> QED
      BY <1>0, <2>2, <2>4, <3>1, <3>2, <3>3 DEF Passed
  <2>5. CASE ~LastFile(stage, f)
    <3>1. stage' = stage /\ Follows(f, Head(left')) /\ Head(left) = f /\ left # <<>>
      BY <2>1, <2>5 DEF Wrote
    <3> QED
      BY <1>0, <2>2, <3>1 DEF Passed, Follows
  <2> QED
    BY <2>3, <2>4, <2>5
<1>6. CASE Fail
  BY <1>2, <1>6 DEF Fail
<1> QED
  BY <1>1, <1>3, <1>4, <1>5, <1>6 DEF Thread

(* The thread writes from one edition of the glossary. *)
LEMMA ComputeUniform ==
  ASSUME Base, Uniform, Compute, Computed(stage, Head(Writes[Stages[stage]])), stage \notin 1..3
  PROVE  reads' = {edition}
<1>0. stage \in 5..9 /\ worker = "read"
  BY DEF Base, TypeOK, Compute, Computed
<1> DEFINE inputs == Needs[Stages[stage]] \cup (Uses[Stages[stage]] \cap files)
<1>1. reads' = IF stage = 5 THEN reads ELSE UNION {from[g] : g \in inputs}
  BY DEF Computed
<1>2. CASE stage = 5
  BY <1>0, <1>1, <1>2 DEF Uniform
<1>3. CASE stage \in 6..9
  <2>1. Needs[Stages[stage]] \subseteq files
    BY DEF Compute
  <2>2. /\ "mapping" \in inputs /\ inputs \subseteq BaseFiles \cup files
        /\ inputs \subseteq BaseFiles \cup {"mapping", "candidates", "frs", "lineage"}
    BY <1>3, <2>1, InputsOfStages
  <2>3. "mapping" \in files
    BY <1>3, <2>1, InputsOfStages
  <2>4. from["mapping"] = {edition}
    BY <2>3 DEF Uniform, Derived
  <2>5. \A g \in inputs : from[g] = {} \/ from[g] = {edition}
    <3> SUFFICES ASSUME NEW g \in inputs PROVE from[g] = {} \/ from[g] = {edition}
      OBVIOUS
    <3>1. CASE g \in BaseFiles
      BY <3>1 DEF Base, BaseFrom
    <3>2. CASE g \notin BaseFiles
      <4>1. g \in Derived /\ g \in files
        BY <2>2, <3>2 DEF Derived
      <4> QED
        BY <4>1 DEF Uniform
    <3> QED
      BY <3>1, <3>2
  <2> HIDE DEF inputs
  <2>6. UNION {from[g] : g \in inputs} = {edition}
    BY <2>2, <2>4, <2>5
  <2>7. reads' = UNION {from[g] : g \in inputs}
    BY <1>1, <1>3
  <2> QED
    BY <2>6, <2>7
<1> QED
  BY <1>0, <1>2, <1>3

LEMMA StepUniform ==
  ASSUME Base, Uniform, Calm \/ Thread
  PROVE  Uniform'
<1>0. TypeOK /\ LeftDue /\ stage \in 1..9 /\ Derived \subseteq Files
  BY FileNames DEF Base, TypeOK, Derived
<1>1. CASE Calm
  <2>1. UNCHANGED <<files, from, edition, left, stage>>
    BY <1>1, CalmSteps
  <2>2. \A f \in Derived : f \in files' => from'[f] = {edition'}
    BY <2>1 DEF Uniform
  <2>3. left' # <<>> /\ stage' \notin 1..3 => reads' = {edition'}
    <3>1. left # <<>> => reads' = reads
      BY <1>0, <1>1, CalmWorker DEF LeftDue
    <3> QED
      BY <2>1, <3>1 DEF Uniform
  <2>4. worker' = "read" /\ stage' = 5 => reads' = {edition'}
    <3>1. worker' = "read" => \/ worker = "read" /\ reads' = reads
                              \/ reads' = IF Stages[stage] = "mapping" THEN {edition} ELSE {}
      BY <1>1, CalmWorker
    <3>2. Stages[5] = "mapping"
      BY StageNames
    <3> QED
      BY <2>1, <3>1, <3>2 DEF Uniform
  <2> QED
    BY <2>2, <2>3, <2>4 DEF Uniform
<1>2. edition' = edition \/ Calm
  BY ThreadSteps
<1>3. Thread => worker' # "read"
  BY ThreadSteps
<1>4. CASE Skip \/ Fail
  <2>1. left' = <<>> /\ edition' = edition /\ worker' # "read"
    BY <1>3, <1>4, ThreadSteps DEF Skip, Fail, Leaves, Thread
  <2>2. \A f \in Derived : (f \in files' <=> f \in files) /\ from'[f] = from[f]
    BY <1>0, <1>4 DEF Skip, Fail, disk, TypeOK, Derived
  <2> QED
    BY <2>1, <2>2 DEF Uniform
<1>5. CASE Compute
  <2>1. edition' = edition /\ worker' # "read" /\ UNCHANGED <<files, from>>
    BY <1>3, <1>5, ThreadSteps DEF Thread, Compute, disk
  <2>2. left' # <<>> /\ stage' \notin 1..3 => reads' = {edition}
    <3>1. CASE Leaves
      BY <3>1 DEF Leaves
    <3>2. CASE Computed(stage, Head(Writes[Stages[stage]]))
      <4>1. stage' = stage
        BY <3>2 DEF Computed
      <4> QED
        BY <1>5, <3>2, <4>1, ComputeUniform
    <3> QED
      BY <1>0, <1>5, <3>1, <3>2, ComputeComputed
  <2> QED
    BY <2>1, <2>2 DEF Uniform
<1>6. CASE Write
  <2>1. PICK f \in Files : Wrote(f)
    BY <1>0, <1>6, WriteWrote
  <2>2. edition' = edition /\ worker' # "read"
    BY <1>3, <1>6, ThreadSteps DEF Thread
  <2>3. /\ left # <<>> /\ FileOf(stage, f) /\ files' = files \cup {f}
        /\ from' = [from EXCEPT ![f] = reads]
        /\ left' = <<>> \/ UNCHANGED <<stage, reads>>
    BY <2>1 DEF Wrote, Leaves
  <2>4. f \in Derived => stage \notin 1..3
    BY <2>3 DEF FileOf, LastFile, Derived
  <2>5. stage \notin 1..3 => reads = {edition}
    BY <2>3 DEF Uniform
  <2>6. \A g \in Derived : g \in files' => from'[g] = {edition}
    <3>1. \A g \in Files : from'[g] = IF g = f THEN reads ELSE from[g]
      BY <1>0, <2>3 DEF TypeOK
    <3>2. \A g \in Derived : g \in files => from[g] = {edition}
      BY DEF Uniform
    <3> QED
      BY <1>0, <2>3, <2>4, <2>5, <3>1, <3>2
  <2>7. left' # <<>> /\ stage' \notin 1..3 => reads' = {edition}
    BY <2>3, <2>5
  <2> QED
    BY <2>2, <2>6, <2>7 DEF Uniform
<1> QED
  BY <1>1, <1>4, <1>5, <1>6 DEF Thread

(* From a halted directory only answers go on. *)
LEMMA StepHalted ==
  ASSUME Base, Halted, Calm \/ Thread
  PROVE  Calm /\ Halted'
<1>0. TypeOK /\ Busy /\ ~queued
  BY DEF Base, Halted
<1>1. ~Thread
  BY <1>0, ThreadSteps DEF Busy
<1>2. Calm /\ UNCHANGED <<files, from, cut>>
  BY <1>1, CalmSteps
<1>3. ~queued' /\ \A q \in Requests : request'[q] \in {"idle", "apply"}
  <2>1. CASE \/ StartRun \/ Mark \/ SetTerminal \/ Acknowledge \/ ForgetPending \/ Refuse
             \/ LockExpires \/ UNCHANGED vars
    <3>1. UNCHANGED request
      BY <2>1 DEF StartRun, Mark, SetTerminal, Acknowledge, ForgetPending, Refuse, LockExpires, vars
    <3>2. queued' = queued \/ queued' = FALSE
      BY <2>1 DEF StartRun, Mark, SetTerminal, Acknowledge, ForgetPending, Refuse, LockExpires,
                  vars, redis
    <3> QED
      BY <1>0, <3>1, <3>2 DEF Halted
  <2>2. ASSUME NEW r \in Requests,
               \/ StartUpload(r) \/ StartAnswers(r)
               \/ ReadStatus(r) \/ WriteQueued(r) \/ AddPending(r) \/ AppendEntry(r)
        PROVE  ~queued' /\ \A q \in Requests : request'[q] \in {"idle", "apply"}
    <3>1. request[r] \in {"idle", "apply"} /\ "report" \in files
      BY DEF Halted
    <3>2. StartAnswers(r)
      BY <2>2, <3>1 DEF StartUpload, ReadStatus, WriteQueued, AddPending, AppendEntry, Proceeds
    <3>3. queued' = queued /\ request' = [request EXCEPT ![r] = "apply"]
      BY <3>2 DEF StartAnswers, Proceeds, redis
    <3> QED
      BY <1>0, <3>3 DEF Halted, TypeOK
  <2> QED
    BY <1>2, <2>1, <2>2 DEF Calm
<1> QED
  BY <1>2, <1>3 DEF Halted, Entire

(* apply_hitl beside no job is alone with the directory. *)
LEMMA StepWithdrawing ==
  ASSUME Base, Withdrawing, Answering, Calm \/ Thread
  PROVE  UNCHANGED vars
<1>1. ~Thread
  BY ThreadSteps DEF Running, Withdrawing
<1> QED
  BY <1>1, CalmAnswering

LEMMA MergeApart ==
  ASSUME Base, Apart, NEW r \in Requests, MergeAnswers(r)
  PROVE  Apart'
<1>1. SUFFICES ASSUME ~crossed' PROVE Passed' /\ Withdrawing' /\ Answering'
  BY DEF Apart
<1>2. ~crossed /\ ~Running /\ "report" \in files /\ ~Answering
  BY <1>1, MergeSteps
<1>3. Passed /\ (Uniform \/ Halted)
  BY <1>2 DEF Apart
<1>4. Entire
  <2>1. CASE Uniform
    <3>1. from["report"] = {edition}
      BY <1>2, <2>1 DEF Uniform, Derived
    <3> QED
      BY <3>1, FS_Singleton DEF Entire
  <2>2. CASE Halted
    BY <2>2 DEF Halted
  <2> QED
    BY <1>3, <2>1, <2>2
<1>5. UNCHANGED <<files, from, worker, stage, left>> /\ unlink' = 1
  BY MergeSteps
<1> QED
  BY <1>2, <1>3, <1>4, <1>5 DEF Passed, Withdrawing, Entire, Running, Answering

(* The last unlink finds all of the tail gone. *)
LEMMA UnlinkedAll ==
  ASSUME Unlinked, Answering, ~Running, unlink = 7
  PROVE  \A f \in {"mapping", "candidates", "lineage", "frs", "integrity", "report"} : f \notin files
BY TailFiles DEF Unlinked

(* After it, with no job beside it, nothing is left of an earlier edition.  *)
LEMMA LastUnlink ==
  ASSUME Base, NEW r \in Requests, Unlink(r), unlink = 7, ~Running
  PROVE  /\ files' \cap (Derived \cup {"meta"}) = {}
         /\ Passed' /\ Uniform'
<1>0. TypeOK /\ Handling /\ LeftDue /\ Rests /\ Unlinked
  BY DEF Base
<1>1. PICK f \in Files : f = HitlTail[unlink] /\ files' = files \ {f}
  BY <1>0, UnlinkFile
<1>2. f = "meta" /\ Answering
  BY <1>0, <1>1, UnlinkFile, TailFiles
<1>3. files' \cap (Derived \cup {"meta"}) = {}
  BY <1>0, <1>1, <1>2, UnlinkedAll DEF Derived
<1>4. worker \in {"idle", "xack", "srem"}
  BY DEF Running
<1>5. stage = 1 /\ left = <<>>
  BY <1>0, <1>4 DEF Rests, LeftDue
<1>6. stage' = 1 /\ left' = <<>> /\ worker' = worker
  BY <1>0, <1>5, UnlinkFile
<1>7. Passed'
  BY <1>6 DEF Passed
<1>8. Uniform'
  BY <1>3, <1>4, <1>6 DEF Uniform
<1> QED
  BY <1>3, <1>7, <1>8

LEMMA UnlinkApart ==
  ASSUME Base, Apart, NEW r \in Requests, Unlink(r)
  PROVE  Apart'
<1>0. TypeOK /\ Handling /\ Unlinked
  BY DEF Base
<1>1. Answering /\ unlink \in 1..7 /\ UNCHANGED <<queued, stage, left, edition, reads, worker>>
  BY <1>0, UnlinkFile
<1>2. PICK f \in Files : /\ f = HitlTail[unlink] /\ f \notin BaseFiles
                         /\ files' = files \ {f} /\ from' = [from EXCEPT ![f] = {}]
  BY <1>0, UnlinkFile
<1>3. SUFFICES ASSUME ~crossed'
               PROVE  Passed' /\ IF Answering' THEN Withdrawing' ELSE Uniform' \/ Halted'
  BY DEF Apart
<1>4. CASE unlink < 7
  <2>1. unlink' = unlink + 1 /\ crossed' = crossed
    BY <1>0, <1>4, UnlinkFile
  <2>2. ~crossed /\ Withdrawing /\ Answering'
    BY <1>1, <1>3, <2>1 DEF Apart, Answering
  <2>3. stage = 1 /\ left = <<>>
    <3>1. worker \in {"idle", "xack", "srem"}
      BY <2>2 DEF Running, Withdrawing
    <3> QED
      BY <3>1 DEF Base, Rests, LeftDue
  <2>4. Passed'
    BY <1>1, <2>3 DEF Passed
  <2>5. "report" \in files' <=> unlink' \in 1..6
    <3>1. CASE unlink = 6
      <4>1. f = "report"
        BY <1>2, <3>1, TailFiles
      <4> QED
        BY <1>2, <2>1, <3>1, <4>1
    <3>2. CASE unlink \in 1..5
      <4>1. f # "report"
        BY <1>2, <3>2, TailFiles
      <4>2. "report" \in files /\ unlink' \in 1..6
        BY <2>1, <2>2, <3>2 DEF Withdrawing
      <4> QED
        BY <1>2, <4>1, <4>2
    <3> QED
      BY <1>1, <1>4, <3>1, <3>2
  <2>6. "report" \in files' => Entire'
    <3>1. "report" \in files' => f # "report" /\ "report" \in files
      BY <1>2
    <3>2. f # "report" => from'["report"] = from["report"]
      BY <1>0, <1>2, FileNames DEF TypeOK
    <3> QED
      BY <2>2, <3>1, <3>2 DEF Withdrawing, Entire
  <2> QED
    BY <1>1, <2>2, <2>4, <2>5, <2>6 DEF Withdrawing, Running
<1>5. CASE unlink = 7
  <2>1. unlink' = 0 /\ crossed' = Running
    BY <1>0, <1>5, UnlinkFile
  <2> QED
    BY <1>3, <1>5, <2>1, LastUnlink DEF Answering
<1> QED
  BY <1>1, <1>4, <1>5

LEMMA RestartApart ==
  ASSUME Base, Apart, Restarted
  PROVE  Apart'
<1>0. TypeOK /\ Handling /\ Unlinked
  BY DEF Base
<1>1. /\ worker' = "idle" /\ stage' = 1 /\ left' = <<>> /\ unlink' = 0
      /\ request' = [r \in Requests |-> "idle"]
      /\ UNCHANGED <<files, from, failed, edition>>
      /\ crossed => crossed'
  BY <1>0, RestartSteps
<1>2. SUFFICES ASSUME ~crossed, ~crossed' PROVE Uniform' \/ Halted'
  BY <1>1 DEF Apart, Passed, Answering
<1>3. CASE Answering
  <2>1. Withdrawing /\ cut'
    BY <1>0, <1>2, <1>3, RestartSteps DEF Apart
  <2>2. CASE "report" \in files
    <3>1. Entire /\ ~queued'
      BY <1>0, <1>2, <1>3, <2>1, <2>2, RestartSteps DEF Withdrawing
    <3> QED
      BY <1>1, <2>1, <2>2, <3>1 DEF Halted, Entire
  <2>3. CASE "report" \notin files
    <3>1. unlink = 7 /\ ~Running
      BY <1>0, <1>3, <2>1, <2>3, TailFiles DEF Withdrawing, TypeOK, Answering
    <3>2. \A f \in Derived : f \notin files
      BY <1>0, <1>3, <3>1, UnlinkedAll DEF Derived
    <3> QED
      BY <1>1, <3>2 DEF Uniform
  <2> QED
    BY <2>2, <2>3
<1>4. CASE ~Answering /\ Uniform
  BY <1>1, <1>4 DEF Uniform
<1>5. CASE ~Answering /\ Halted
  <2>1. cut /\ ~queued /\ "report" \in files
    BY <1>5 DEF Halted
  <2>2. ~queued' /\ cut'
    <3>1. ~queued'
      BY <1>0, <2>1, RestartSteps
    <3>2. cut' = (cut \/ Answering)
      BY <1>0, RestartSteps
    <3> QED
      BY <2>1, <3>1, <3>2
  <2> QED
    BY <1>1, <1>5, <2>2 DEF Halted, Entire
<1> QED
  BY <1>2, <1>3, <1>4, <1>5 DEF Apart

LEMMA StepApart ==
  ASSUME Base, Apart, [Next]_vars
  PROVE  Apart'
<1>1. CASE Calm \/ Thread
  <2>1. UNCHANGED <<crossed, cut, unlink>>
    BY <1>1, CalmSteps, ThreadSteps
  <2>2. SUFFICES ASSUME ~crossed
                 PROVE  Passed' /\ IF Answering THEN Withdrawing' ELSE Uniform' \/ Halted'
    BY <2>1 DEF Apart, Answering
  <2>3. Passed' /\ (Answering => Withdrawing) /\ (~Answering => Uniform \/ Halted)
    BY <1>1, <2>2, StepPassed DEF Apart
  <2>4. CASE Answering
    <3>1. UNCHANGED vars
      BY <1>1, <2>3, <2>4, StepWithdrawing
    <3> QED
      BY <2>3, <2>4, <3>1 DEF Withdrawing, Entire, Running, vars, disk, thread, hitl
  <2>5. CASE ~Answering
    BY <1>1, <2>3, <2>5, StepUniform, StepHalted
  <2> QED
    BY <2>3, <2>4, <2>5
<1> QED
  BY <1>1, MergeApart, UnlinkApart, RestartApart, StepCases

LEMMA OrderlyUniform ==
  ASSUME Apart, Orderly
  PROVE  Passed /\ Uniform
BY DEF Apart, Orderly, Halted

LEMMA StepCommitted ==
  ASSUME Whole, [Next]_vars
  PROVE  Committed'
<1>0. Base /\ TypeOK /\ LeftDue /\ Handling /\ BaseOrder /\ Apart /\ Committed
  BY DEF Whole, Base
<1>1. SUFFICES ASSUME Orderly'
               PROVE  /\ Ready' => files' = Files
                      /\ "report" \in files' => "mapping" \in files'
  BY DEF Committed
<1>2. CASE Calm \/ Skip \/ Compute
  <2>1. UNCHANGED <<files, failed, crossed, cut, unlink>>
    BY <1>2, CalmSteps, ThreadSteps DEF Thread, Skip, Compute, disk
  <2> QED
    BY <1>0, <1>1, <2>1 DEF Committed, Orderly, Ready, Answering
<1>3. CASE Fail
  <2>1. UNCHANGED <<crossed, cut, unlink>>
    BY <1>3, ThreadSteps DEF Thread
  <2>2. Orderly
    BY <1>1, <2>1 DEF Orderly, Answering
  <2>3. ~Ready' /\ ("report" \in files' <=> "report" \in files) /\ files \subseteq files'
    BY <1>3 DEF Fail, Ready
  <2> QED
    BY <1>0, <2>2, <2>3 DEF Committed
<1>4. CASE Write
  <2>1. PICK f \in Files : Wrote(f)
    BY <1>0, <1>4, WriteWrote
  <2>2. UNCHANGED <<crossed, cut, unlink>>
    BY <1>4, ThreadSteps DEF Thread
  <2>3. Orderly /\ Passed
    BY <1>0, <1>1, <2>2, OrderlyUniform DEF Orderly, Answering
  <2>4. /\ files' = files \cup {f} /\ left # <<>> /\ Head(left) = f /\ FileOf(stage, f)
        /\ failed' = (failed /\ f # "meta")
    BY <2>1 DEF Wrote
  <2>5. "report" \in files' => "mapping" \in files'
    <3>1. CASE f = "report"
      <4>1. stage = 9
        BY <2>4, <3>1 DEF FileOf, LastFile
      <4> QED
        BY <2>3, <2>4, <4>1 DEF Passed
    <3>2. CASE f # "report"
      BY <1>0, <2>3, <2>4, <3>2 DEF Committed
    <3> QED
      BY <3>1, <3>2
  <2>6. Ready' => files' = Files
    <3>1. CASE f = "meta"
      <4>1. stage = 9
        BY <2>4, <3>1 DEF FileOf, LastFile
      <4>2. /\ "meta" \in files' /\ "integrity" \in files /\ "report" \in files /\ "lineage" \in files
            /\ "frs" \in files /\ "candidates" \in files /\ "mapping" \in files
            /\ "layout" \in files /\ "irEdges" \in files /\ "rawBook" \in files
        BY <2>3, <2>4, <3>1, <4>1 DEF Passed
      <4>3. "irCells" \in files /\ "rawCells" \in files
        BY <1>0, <4>2 DEF BaseOrder
      <4>4. Files \subseteq files'
        BY <2>4, <4>2, <4>3 DEF Files
      <4>5. files' \subseteq Files
        BY <1>0, <2>4 DEF TypeOK
      <4> QED
        BY <4>4, <4>5, Zenon
    <3>2. CASE f # "meta"
      <4>1. Ready' => Ready
        BY <2>4, <3>2 DEF Ready
      <4>2. Ready => files = Files
        BY <1>0, <2>3 DEF Committed
      <4> QED
        BY <2>4, <4>1, <4>2
    <3> QED
      BY <3>1, <3>2
  <2> QED
    BY <2>5, <2>6
<1>5. ASSUME NEW r \in Requests, MergeAnswers(r)
      PROVE  FALSE
  BY <1>1, <1>5, MergeSteps DEF Orderly, Answering
<1>6. ASSUME NEW r \in Requests, Unlink(r)
      PROVE  files' \cap (Derived \cup {"meta"}) = {}
  <2>1. unlink \in 1..7
    BY <1>0, <1>6, UnlinkFile
  <2>2. CASE unlink < 7
    <3>1. unlink' = unlink + 1
      BY <1>0, <1>6, <2>2, UnlinkFile
    <3> QED
      BY <1>1, <2>1, <3>1 DEF Orderly, Answering
  <2>3. CASE unlink = 7
    <3>1. crossed' = Running
      BY <1>0, <1>6, <2>3, UnlinkFile
    <3>2. ~Running
      BY <1>1, <3>1 DEF Orderly
    <3> QED
      BY <1>0, <1>6, <2>3, <3>2, LastUnlink
  <2> QED
    BY <2>1, <2>2, <2>3
<1>7. CASE Restarted
  <2>1. /\ cut' = (cut \/ Answering) /\ UNCHANGED <<files, failed>>
        /\ crossed => crossed'
    BY <1>0, <1>7, RestartSteps
  <2>2. Orderly
    BY <1>1, <2>1 DEF Orderly
  <2> QED
    BY <1>0, <2>1, <2>2 DEF Committed, Ready
<1>8. files' \cap (Derived \cup {"meta"}) = {} => ~Ready' /\ "report" \notin files'
  BY DEF Ready, Derived
<1> QED
  BY <1>2, <1>3, <1>4, <1>5, <1>6, <1>7, <1>8, StepCases DEF Thread

LEMMA WholeKept == Spec => []Whole
<1>1. Init => Whole
  BY InitWhole
<1>2. Whole /\ [Next]_vars => Whole'
  BY StepBase, StepApart, StepCommitted DEF Whole
<1> QED
  BY <1>1, <1>2, PTL DEF Spec

-----------------------------------------------------------------------------
(* What the invariant means for the report *)

(* A report never mixes what was computed from different editions of the    *)
(* glossary, although stages are skipped by the mere existence of a file,   *)
(* as long as no answers are applied beside a job: whatever requests come   *)
(* together, and wherever a kill cuts apply_hitl short.                     *)
THEOREM OneEditionKept == Spec => []OneEdition
<1>1. Whole => OneEdition
  <2> SUFFICES ASSUME Whole, "report" \in files, ~crossed PROVE Cardinality(from["report"]) = 1
    BY DEF OneEdition
  <2>1. CASE Answering
    BY <2>1 DEF Whole, Apart, Withdrawing, Entire
  <2>2. CASE ~Answering /\ Uniform
    <3>1. from["report"] = {edition}
      BY <2>2 DEF Uniform, Derived
    <3> QED
      BY <3>1, FS_Singleton
  <2>3. CASE Halted
    BY <2>3 DEF Halted, Entire
  <2> QED
    BY <2>1, <2>2, <2>3 DEF Whole, Apart
<1> QED
  BY <1>1, WholeKept, PTL

(* meta.json tells the truth: one that does not say failed stands beside a  *)
(* whole set of files, unless apply_hitl is at work, was cut short by a     *)
(* kill, or was applied beside a job since answers were last in order.      *)
THEOREM CommitMarkerTold == Spec => []CommitMarker
<1>1. Whole => CommitMarker
  BY DEF Whole, Committed, CommitMarker
<1> QED
  BY <1>1, WholeKept, PTL

(* In the same directories the report follows from the glossary with all    *)
(* the answers merged so far.                                               *)
THEOREM AnswersAreUsed == Spec => []AnswersUsed
<1>1. Whole => AnswersUsed
  BY OrderlyUniform DEF Whole, AnswersUsed, Uniform, Derived
<1> QED
  BY <1>1, WholeKept, PTL

-----------------------------------------------------------------------------
(* The pipeline implements Publication *)

(* In an orderly directory the report is the promised one. *)
Shown ==
  /\ Downloaded # -1 => "report" \in files /\ ~Answering
  /\ Orderly => Downloaded = IF "report" \in files THEN edition ELSE -1

LEMMA DownloadedIs == Whole => Shown
<1> SUFFICES ASSUME Whole PROVE Shown
  OBVIOUS
<1>1. edition \in Nat
  BY DEF Whole, Base, TypeOK
<1>2. Orderly /\ "report" \in files => from["report"] = {edition}
  BY OrderlyUniform DEF Whole, Uniform, Derived
<1> QED
  BY <1>1, <1>2 DEF Shown, Downloaded, Outdated, Orderly

LEMMA StepPublishes ==
  ASSUME Whole, Shown, Shown', [Next]_vars
  PROVE  [Promise!Next]_<<edition, Downloaded, crossed \/ cut>>
<1>0. TypeOK /\ LeftDue /\ Handling /\ Unlinked /\ Committed
  BY DEF Whole, Base
<1> USE DEF Promise!Next, Promise!NoReport
<1>1. CASE Calm \/ Skip \/ Compute
  <2>1. UNCHANGED <<files, from, edition, crossed, cut, unlink>>
    BY <1>1, CalmSteps, ThreadSteps DEF Thread, Skip, Compute, disk
  <2> QED
    BY <2>1 DEF Downloaded, Answering
<1>2. CASE Fail
  <2>1. UNCHANGED <<edition, crossed, cut, unlink>>
    BY <1>2, ThreadSteps DEF Thread
  <2>2. ("report" \in files' <=> "report" \in files) /\ from'["report"] = from["report"]
    BY <1>0, <1>2, FileNames DEF Fail, TypeOK
  <2> QED
    BY <2>1, <2>2 DEF Downloaded, Answering
<1>3. CASE Write
  <2>1. PICK f \in Files : Wrote(f)
    BY <1>0, <1>3, WriteWrote
  <2>2. UNCHANGED <<edition, crossed, cut, unlink>> /\ files \subseteq files'
    BY <1>3, <2>1, ThreadSteps DEF Thread, Wrote
  <2>3. CASE Answering
    BY <2>2, <2>3 DEF Downloaded, Answering
  <2>4. CASE crossed \/ cut
    BY <2>2, <2>4 DEF Promise!Upset
  <2>5. CASE Orderly
    <3>1. Orderly'
      BY <2>2, <2>5 DEF Orderly, Answering
    <3>2. /\ Downloaded = IF "report" \in files THEN edition ELSE -1
          /\ Downloaded' = IF "report" \in files' THEN edition ELSE -1
      BY <2>2, <2>5, <3>1 DEF Shown
    <3> QED
      BY <2>2, <3>2 DEF Promise!Publish
  <2> QED
    BY <2>3, <2>4, <2>5 DEF Orderly
<1>4. ASSUME NEW r \in Requests, MergeAnswers(r)
      PROVE  Promise!Accept
  <2>1. ~Answering /\ Answering' /\ edition' = (IF "mapping" \in files THEN edition + 1 ELSE edition)
    BY <1>4, MergeSteps DEF Answering
  <2>2. Downloaded' = -1
    BY <2>1 DEF Downloaded
  <2>3. Downloaded # -1 /\ ~(crossed \/ cut) => edition' = edition + 1
    <3>1. Downloaded # -1 /\ ~(crossed \/ cut) => "report" \in files /\ Orderly
      BY <2>1 DEF Shown, Orderly
    <3>2. Downloaded # -1 /\ ~(crossed \/ cut) => "mapping" \in files
      BY <1>0, <3>1 DEF Committed
    <3> QED
      BY <2>1, <3>2
  <2>4. (crossed \/ cut)' \in BOOLEAN
    BY Zenon
  <2> QED
    BY <2>1, <2>2, <2>3, <2>4 DEF Promise!Accept
<1>5. ASSUME NEW r \in Requests, Unlink(r)
      PROVE  [Promise!Next]_<<edition, Downloaded, crossed \/ cut>>
  <2>1. Answering /\ unlink \in 1..7 /\ edition' = edition /\ Downloaded = -1
    BY <1>0, <1>5, UnlinkFile DEF Downloaded
  <2>2. CASE unlink < 7
    <3>1. unlink' = unlink + 1 /\ UNCHANGED <<crossed, cut>>
      BY <1>0, <1>5, <2>2, UnlinkFile
    <3>2. Downloaded' = -1
      BY <2>1, <3>1 DEF Downloaded, Answering
    <3> QED
      BY <2>1, <3>1, <3>2
  <2>3. CASE unlink = 7 /\ Running
    <3>1. crossed'
      BY <1>0, <1>5, <2>3, UnlinkFile
    <3> QED
      BY <2>1, <3>1 DEF Promise!Upset
  <2>4. CASE unlink = 7 /\ ~Running
    <3>1. files' \cap (Derived \cup {"meta"}) = {}
      BY <1>5, <2>4, LastUnlink DEF Whole
    <3>2. Downloaded' = -1
      BY <3>1 DEF Downloaded, Derived
    <3>3. (crossed \/ cut)' \in BOOLEAN
      BY Zenon
    <3>4. Promise!Accept
      BY <2>1, <3>2, <3>3 DEF Promise!Accept
    <3> QED
      BY <3>4
  <2> QED
    BY <2>1, <2>2, <2>3, <2>4
<1>6. CASE Restarted
  <2>1. /\ cut' = (cut \/ Answering) /\ unlink' = 0 /\ UNCHANGED <<files, from, edition>>
        /\ ~Answering => crossed' = crossed
    BY <1>0, <1>6, RestartSteps
  <2>2. CASE Answering
    BY <2>1, <2>2 DEF Promise!Upset
  <2>3. CASE ~Answering
    <3>1. Downloaded' = Downloaded
      BY <2>1, <2>3 DEF Downloaded, Answering
    <3>2. crossed' = crossed /\ cut' = cut
      BY <1>0, <2>1, <2>3 DEF TypeOK
    <3> QED
      BY <2>1, <3>1, <3>2
  <2> QED
    BY <2>2, <2>3
<1> QED
  BY <1>1, <1>2, <1>3, <1>4, <1>5, <1>6, StepCases DEF Thread

(* The pipeline, which skips stages by the existence of their files,        *)
(* implements Publication: whatever requests come together and whatever     *)
(* restarts and failures hit it, the report that can be downloaded follows  *)
(* from all answers merged by then and only answers withdraw it, unless     *)
(* answers applied beside a job or a kill in apply_hitl have upset the      *)
(* directory, and again from the next answers applied in order.             *)
THEOREM PromiseKept == Spec => KeepsPromise
<1>1. Init => Promise!Init
  BY DEF Init, Downloaded, Promise!Init, Promise!NoReport
<1>2. Whole => Shown
  BY DownloadedIs
<1>3. Whole /\ Shown /\ Shown' /\ [Next]_vars =>
        [Promise!Next]_<<edition, Downloaded, crossed \/ cut>>
  BY StepPublishes
<1> QED
  BY <1>1, <1>2, <1>3, WholeKept, PTL DEF Spec, KeepsPromise, Promise!Spec
=============================================================================
