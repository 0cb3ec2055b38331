------------------------ MODULE PaperPipelineProofs ------------------------
(***************************************************************************)
(* Theorems about PaperPipeline, for any papers, runs, filter workers and  *)
(* queue sizes.  The core of the inductive invariant is that inside a run  *)
(* a paper is in one place: in a queue, with the converter or with one     *)
(* worker (OnePlace).  What a run has counted then adds up with what is    *)
(* still between the two counts (Accounted), and a paper whose verdict is  *)
(* still to come has no row yet (Unjudged).                                *)
(***************************************************************************)
EXTENDS PaperPipeline, FiniteSetTheorems, SequenceTheorems, TLAPS

USE PipelineAssumption

-----------------------------------------------------------------------------
(* Queues *)

In(x, q) == \E i \in 1..Len(q) : q[i] = x

Distinct(q) == \A i, j \in 1..Len(q) : q[i] = q[j] => i = j

PillAtEnd(q) == \A i \in 1..Len(q) : q[i] = Pill => i = Len(q)

LEMMA AppendedIs ==
  ASSUME NEW S, NEW q \in Seq(S), NEW x \in S
  PROVE  /\ Append(q, x) \in Seq(S) /\ Len(Append(q, x)) = Len(q) + 1
         /\ \A y : In(y, Append(q, x)) <=> In(y, q) \/ y = x
         /\ Distinct(q) /\ ~In(x, q) => Distinct(Append(q, x))
         /\ ~In(Pill, q) => PillAtEnd(Append(q, x))
<1>1. Append(q, x) \in Seq(S) /\ Len(Append(q, x)) = Len(q) + 1
  OBVIOUS
<1>2. /\ Append(q, x)[Len(q) + 1] = x
      /\ \A i \in 1..Len(q) : i \in 1..Len(Append(q, x)) /\ Append(q, x)[i] = q[i]
      /\ \A i \in 1..Len(Append(q, x)) : i \in 1..Len(q) \/ i = Len(q) + 1
  BY <1>1
<1>3. Len(q) + 1 \in 1..Len(Append(q, x))
  BY <1>1
<1>4. \A y : In(y, Append(q, x)) <=> In(y, q) \/ y = x
  BY <1>2, <1>3 DEF In
<1>5. Distinct(q) /\ ~In(x, q) => Distinct(Append(q, x))
  BY <1>2 DEF In, Distinct
<1>6. ~In(Pill, q) => PillAtEnd(Append(q, x))
  BY <1>1, <1>2 DEF In, PillAtEnd
<1>7. QED BY <1>1, <1>4, <1>5, <1>6

LEMMA TakenIs ==
  ASSUME NEW S, NEW q \in Seq(S), q # <<>>
  PROVE  /\ Tail(q) \in Seq(S) /\ Len(Tail(q)) = Len(q) - 1 /\ Head(q) \in S
         /\ \A y : In(y, q) <=> In(y, Tail(q)) \/ y = Head(q)
         /\ Distinct(q) => Distinct(Tail(q)) /\ ~In(Head(q), Tail(q))
         /\ PillAtEnd(q) => PillAtEnd(Tail(q)) /\ (Head(q) = Pill => Tail(q) = <<>>)
<1>1. Tail(q) \in Seq(S) /\ Len(Tail(q)) = Len(q) - 1 /\ Head(q) \in S /\ Len(q) \in Nat \ {0}
  OBVIOUS
<1>2. /\ Head(q) = q[1] /\ 1 \in 1..Len(q)
      /\ \A i \in 1..Len(Tail(q)) : i + 1 \in 1..Len(q) /\ Tail(q)[i] = q[i + 1]
      /\ \A i \in 1..Len(q) :
           i = 1 \/ (i - 1 \in 1..Len(Tail(q)) /\ Tail(q)[i - 1] = q[i])
  BY <1>1
<1>3. \A y : In(y, q) <=> In(y, Tail(q)) \/ y = Head(q)
  BY <1>2 DEF In
<1>4. Distinct(q) => Distinct(Tail(q))
  BY <1>1, <1>2 DEF Distinct
<1>5. Distinct(q) => ~In(Head(q), Tail(q))
  BY <1>1, <1>2 DEF In, Distinct
<1>6. ASSUME PillAtEnd(q), NEW i \in 1..Len(Tail(q)), Tail(q)[i] = Pill
      PROVE  i = Len(Tail(q))
  <2>1. i + 1 = Len(q) /\ i \in Nat BY <1>2, <1>6 DEF PillAtEnd
  <2>2. \A k, m, n \in Nat : k + 1 = n /\ m = n - 1 => k = m OBVIOUS
  <2>3. Len(Tail(q)) \in Nat /\ Len(q) \in Nat BY <1>1
  <2>4. QED BY ONLY <1>1, <2>1, <2>2, <2>3
<1>7. PillAtEnd(q) /\ Head(q) = Pill => Len(q) = 1
  BY <1>2 DEF PillAtEnd
<1>8. Len(q) = 1 => Tail(q) = <<>>
  <2>1. Len(q) = 1 => Len(Tail(q)) = 0 BY <1>1
  <2>2. QED BY <1>1, <2>1, EmptySeq
<1>9. QED BY <1>1, <1>3, <1>4, <1>5, <1>6, <1>7, <1>8 DEF PillAtEnd

LEMMA EmptyIs ==
  ASSUME NEW S
  PROVE  /\ <<>> \in Seq(S) /\ Len(<<>>) = 0 /\ Distinct(<<>>) /\ PillAtEnd(<<>>)
         /\ \A y : ~In(y, <<>>)
BY DEF In, Distinct, PillAtEnd

-----------------------------------------------------------------------------
(* The inductive invariant: inside a run *)

\* Where a worker has a paper whose verdict or error is not counted yet.
AtFilter == {"reading", "writing", "routing", "auditing", "counting", "failing"}

Converting(r, p) == conv[r].at \in {"converting", "putting"} /\ conv[r].paper = p
Putting(r, p) == conv[r].at = "putting" /\ conv[r].paper = p
Holding(r, w, p) == work[r][w].at \in AtFilter /\ work[r][w].paper = p

\* Nothing of a run that has not started has moved.
NotStarted(r) ==
  main[r] = "idle" =>
    /\ record[r] = [p \in Papers |-> "no"] /\ down[r] = "fetching"
    /\ conv[r] = Idle("init") /\ work[r] = [w \in Workers |-> Free("init")]
    /\ pdfQueue[r] = <<>> /\ mdQueue[r] = <<>>
    /\ ingested[r] = 0 /\ total[r] = 0 /\ errors[r] = 0

\* Who is busy is busy with a paper.
InHand(r) ==
  /\ conv[r].at \in {"converting", "putting"} => conv[r].paper \in Papers
  /\ \A w \in Workers : work[r][w].at \in AtFilter => work[r][w].paper \in Papers

\* The pill is the last thing a queue gets, and what it makes stop stays stopped.
PillsEnd(r) ==
  /\ PillAtEnd(pdfQueue[r]) /\ PillAtEnd(mdQueue[r])
  /\ In(Pill, pdfQueue[r]) => down[r] = "stopped"
  /\ In(Pill, mdQueue[r]) => conv[r].at = "stopped"
  /\ down[r] = "stopped" => DownloadsOver(r)
  /\ conv[r].at \in {"closing", "stopped"} => down[r] = "stopped" /\ pdfQueue[r] = <<>>
  /\ \A w \in Workers : work[r][w].at = "stopped" =>
       mdQueue[r] # <<>> /\ Head(mdQueue[r]) = Pill

\* A paper is in one place of the run, and was downloaded to get there.
OnePlace(r) ==
  /\ Distinct(pdfQueue[r]) /\ Distinct(mdQueue[r])
  /\ \A p \in Papers :
       /\ In(p, pdfQueue[r]) =>
            /\ record[r][p] = "queued"
            /\ ~Converting(r, p) /\ ~In(p, mdQueue[r])
            /\ \A w \in Workers : ~Holding(r, w, p)
       /\ Converting(r, p) =>
            /\ record[r][p] = "queued"
            /\ ~In(p, mdQueue[r]) /\ \A w \in Workers : ~Holding(r, w, p)
       /\ In(p, mdQueue[r]) =>
            /\ record[r][p] = "queued"
            /\ \A w \in Workers : ~Holding(r, w, p)
       /\ \A w \in Workers : Holding(r, w, p) =>
            /\ record[r][p] = "queued"
            /\ \A v \in Workers : Holding(r, v, p) => v = w

\* The papers between the count of the converter and that of the filter.
Pending(r) ==
  {p \in Papers : Putting(r, p) \/ In(p, mdQueue[r]) \/ \E w \in Workers : Holding(r, w, p)}

Accounted(r) ==
  /\ IsFiniteSet(Pending(r))
  /\ ingested[r] = total[r] + errors[r] + Cardinality(Pending(r))

RunInv(r) ==
  NotStarted(r) /\ InHand(r) /\ PillsEnd(r) /\ OnePlace(r) /\ Accounted(r)
  /\ (main[r] = "ok" => GatherDone(r))

-----------------------------------------------------------------------------
(* ... and what runs leave in the files *)

\* What a worker is about to tell the audit log has happened.
RoutedIsTrue ==
  \A r \in Runs, w \in Workers :
    LET p == work[r][w].paper IN
      /\ work[r][w].at = "auditing" => "filtered" \in md[p]
      /\ work[r][w].at \in {"routing", "auditing"} /\ work[r][w].verdict = "keep" => p \in note

OneProcess == ~server => \A q, r \in Runs : main[q] = "running" /\ main[r] = "running" => q = r

\* A run may still write a row for p.
ToJudge(r, p) ==
  \/ record[r][p] = "pending" /\ p \notin seen[r]
  \/ record[r][p] \in {"waiting", "writing", "ready"}
  \/ In(p, pdfQueue[r]) \/ Converting(r, p) \/ In(p, mdQueue[r])
  \/ \E w \in Workers : Holding(r, w, p) /\ work[r][w].at # "counting"

Unjudged ==
  ~server /\ blind = {} =>
    \A r \in Runs, p \in Papers : main[r] = "running" /\ ToJudge(r, p) => audit[p] = <<>>

IInv ==
  /\ TypeOK
  /\ \A r \in Runs : RunInv(r)
  /\ RoutedIsTrue /\ AuditIsTrue
  /\ OneProcess /\ Unjudged /\ AuditedOnce

-----------------------------------------------------------------------------
(* Types *)

LEMMA NamesDiffer == Pill \notin Papers /\ Item = Papers \cup {Pill} /\ NoPaper \in Item
BY DEF Pill, NoPaper, Item

LEMMA IdleTypes ==
  /\ \A at \in ConvertState : Idle(at) \in [at : ConvertState, paper : Item]
  /\ \A at \in WorkState : Free(at) \in [at : WorkState, paper : Item, verdict : Verdict]
BY NamesDiffer DEF Idle, Free, Verdict

\* TypeOK by the groups of variables that actions leave alone together.
FilesTyped ==
  /\ pdf \subseteq Papers
  /\ md \in [Papers -> SUBSET {"clean", "filtered", "failed"}]
  /\ note \subseteq Papers
  /\ audit \in [Papers -> Seq(Verdict)]

StartTyped ==
  /\ main \in [Runs -> {"idle", "running", "ok", "failed", "crashed"}]
  /\ seen \in [Runs -> SUBSET Papers] /\ blind \subseteq Runs /\ server \in BOOLEAN

RecordTyped == record \in [Runs -> [Papers -> RecordState]]

DownTyped == down \in [Runs -> {"fetching", "stopped"}]

ConvTyped == conv \in [Runs -> [at : ConvertState, paper : Item]]

WorkTyped == work \in [Runs -> [Workers -> [at : WorkState, paper : Item, verdict : Verdict]]]

QueueTyped(q) == q \in [Runs -> Seq(Item)] /\ \A r \in Runs : Len(q[r]) <= QueueCap

CountsTyped ==
  /\ downloaded \in [Runs -> Nat] /\ ingested \in [Runs -> Nat]
  /\ total \in [Runs -> Nat] /\ errors \in [Runs -> Nat]

Typed ==
  /\ FilesTyped /\ StartTyped /\ RecordTyped /\ DownTyped /\ ConvTyped /\ WorkTyped
  /\ QueueTyped(pdfQueue) /\ QueueTyped(mdQueue) /\ CountsTyped

LEMMA TypeOKIsTyped == TypeOK <=> Typed
BY DEF TypeOK, Typed, FilesTyped, StartTyped, RecordTyped, DownTyped, ConvTyped, WorkTyped,
       QueueTyped, CountsTyped

LEMMA UnchangedIsTyped ==
  ASSUME Typed
  PROVE  /\ UNCHANGED files => FilesTyped'
         /\ UNCHANGED start => StartTyped'
         /\ UNCHANGED record => RecordTyped'
         /\ UNCHANGED down => DownTyped'
         /\ UNCHANGED download => RecordTyped' /\ DownTyped'
         /\ UNCHANGED conv => ConvTyped'
         /\ UNCHANGED work => WorkTyped'
         /\ UNCHANGED pdfQueue => QueueTyped(pdfQueue)'
         /\ UNCHANGED mdQueue => QueueTyped(mdQueue)'
         /\ UNCHANGED queues => QueueTyped(pdfQueue)' /\ QueueTyped(mdQueue)'
         /\ UNCHANGED counts => CountsTyped'
<1>1. UNCHANGED files => FilesTyped'
  BY DEF Typed, FilesTyped, files
<1>2. UNCHANGED start => StartTyped'
  BY DEF Typed, StartTyped, start
<1>3. UNCHANGED record => RecordTyped'
  BY DEF Typed, RecordTyped
<1>4. UNCHANGED down => DownTyped'
  BY DEF Typed, DownTyped
<1>5. UNCHANGED conv => ConvTyped'
  BY DEF Typed, ConvTyped
<1>6. UNCHANGED work => WorkTyped'
  BY DEF Typed, WorkTyped
<1>7. UNCHANGED pdfQueue => QueueTyped(pdfQueue)'
  BY DEF Typed, QueueTyped
<1>8. UNCHANGED mdQueue => QueueTyped(mdQueue)'
  BY DEF Typed, QueueTyped
<1>9. UNCHANGED counts => CountsTyped'
  BY DEF Typed, CountsTyped, counts
<1>10. (UNCHANGED download => UNCHANGED <<record, down>>)
       /\ (UNCHANGED queues => UNCHANGED <<pdfQueue, mdQueue>>)
  BY DEF download, queues
<1>11. QED
  BY <1>1, <1>2, <1>3, <1>4, <1>5, <1>6, <1>7, <1>8, <1>9, <1>10

LEMMA RecordedTypes ==
  ASSUME RecordTyped, NEW r \in Runs, NEW p \in Papers, NEW from, NEW to \in RecordState,
         Recorded(r, p, from, to)
  PROVE  RecordTyped'
BY DEF RecordTyped, Recorded

LEMMA ConverterTypes ==
  ASSUME ConvTyped, NEW r \in Runs, NEW from, NEW to \in [at : ConvertState, paper : Item],
         Converter(r, from, to)
  PROVE  ConvTyped'
BY DEF ConvTyped, Converter

LEMMA WorkerTypes ==
  ASSUME WorkTyped, NEW r \in Runs, NEW w \in Workers, NEW from,
         NEW to \in [at : WorkState, paper : Item, verdict : Verdict],
         Worker(r, w, from, to)
  PROVE  WorkTyped'
BY DEF WorkTyped, Worker

LEMMA GoesTypes ==
  ASSUME WorkTyped, NEW r \in Runs, NEW w \in Workers, NEW from, NEW to \in WorkState,
         Goes(r, w, from, to)
  PROVE  WorkTyped'
<1>1. work[r][w] \in [at : WorkState, paper : Item, verdict : Verdict]
  BY DEF WorkTyped
<1>2. [work[r][w] EXCEPT !.at = to] \in [at : WorkState, paper : Item, verdict : Verdict]
  BY <1>1
<1>3. QED BY <1>2, WorkerTypes DEF Goes

LEMMA PutTypes ==
  ASSUME NEW q, NEW q1, QueueTyped(q), NEW r \in Runs, NEW x \in Item, HasRoom(q[r]),
         q1 = [q EXCEPT ![r] = Append(@, x)]
  PROVE  QueueTyped(q1)
<1>1. q[r] \in Seq(Item) /\ Len(q[r]) < QueueCap /\ Len(q[r]) \in Nat
  BY DEF QueueTyped, HasRoom
<1>2. Append(q[r], x) \in Seq(Item) /\ Len(Append(q[r], x)) <= QueueCap
  BY <1>1, AppendedIs
<1>3. QED BY <1>2 DEF QueueTyped

LEMMA TakeTypes ==
  ASSUME NEW q, NEW q1, QueueTyped(q), NEW r \in Runs, q[r] # <<>>,
         q1 = [q EXCEPT ![r] = Tail(@)]
  PROVE  QueueTyped(q1) /\ Head(q[r]) \in Item
<1>1. q[r] \in Seq(Item) /\ Len(q[r]) <= QueueCap /\ Len(q[r]) \in Nat
  BY DEF QueueTyped
<1>2. Tail(q[r]) \in Seq(Item) /\ Len(Tail(q[r])) <= QueueCap /\ Head(q[r]) \in Item
  BY <1>1, TakenIs
<1>3. QED BY <1>2 DEF QueueTyped

LEMMA CountTypes ==
  ASSUME NEW n, n \in [Runs -> Nat], NEW r \in Runs
  PROVE  [n EXCEPT ![r] = @ + 1] \in [Runs -> Nat]
OBVIOUS

LEMMA DownloadTypes ==
  ASSUME Typed, NEW r \in Runs, RunInv(r), DownloadStep(r)
  PROVE  Typed'
<1>0. FilesTyped /\ RecordTyped /\ DownTyped /\ QueueTyped(pdfQueue) /\ CountsTyped /\ Pill \in Item
  BY NamesDiffer DEF Typed
<1>1. ASSUME NEW p \in Papers, CheckRecord(r, p) PROVE Typed'
  <2>1. RecordTyped'
    BY <1>0, <1>1, RecordedTypes DEF CheckRecord, RecordState
  <2>2. QED BY <1>1, <2>1, UnchangedIsTyped DEF CheckRecord, Typed
<1>2. ASSUME NEW p \in Papers, OpenPdf(r, p) PROVE Typed'
  <2>1. RecordTyped'
    BY <1>0, <1>2, RecordedTypes DEF OpenPdf, RecordState
  <2>2. FilesTyped'
    BY <1>0, <1>2 DEF OpenPdf, FilesTyped
  <2>3. QED BY <1>2, <2>1, <2>2, UnchangedIsTyped DEF OpenPdf, Typed
<1>3. ASSUME NEW p \in Papers, ClosePdf(r, p) PROVE Typed'
  <2>1. RecordTyped'
    BY <1>0, <1>3, RecordedTypes DEF ClosePdf, RecordState
  <2>2. QED BY <1>3, <2>1, UnchangedIsTyped DEF ClosePdf, Typed
<1>4. ASSUME NEW p \in Papers, EnqueuePdf(r, p) PROVE Typed'
  <2>1. RecordTyped'
    BY <1>0, <1>4, RecordedTypes DEF EnqueuePdf, RecordState
  <2>2. QueueTyped(pdfQueue')
    BY <1>0, <1>4, PutTypes, NamesDiffer DEF EnqueuePdf
  <2>3. CountsTyped'
    BY <1>0, <1>4 DEF EnqueuePdf, CountsTyped
  <2>4. QED BY <1>4, <2>1, <2>2, <2>3, UnchangedIsTyped DEF EnqueuePdf, Typed
<1>5. CASE NoPdfDirectory(r)
  <2>1. RecordTyped'
    BY <1>0, <1>5 DEF NoPdfDirectory, RecordTyped, RecordState
  <2>2. DownTyped'
    BY <1>0, <1>5 DEF NoPdfDirectory, DownTyped
  <2>3. HasRoom(pdfQueue[r])
    <3>1. \A x \in Item : ~In(x, pdfQueue[r])
      BY <1>5, NamesDiffer DEF NoPdfDirectory, RunInv, PillsEnd, OnePlace
    <3>2. pdfQueue[r] \in Seq(Item)
      BY <1>0 DEF QueueTyped
    <3>3. pdfQueue[r] # <<>> => In(Head(pdfQueue[r]), pdfQueue[r]) /\ Head(pdfQueue[r]) \in Item
      BY <3>2, TakenIs
    <3>4. QED BY <3>1, <3>3, EmptyIs DEF HasRoom
  <2>4. QueueTyped(pdfQueue')
    BY <1>0, <1>5, <2>3, PutTypes DEF NoPdfDirectory
  <2>5. QED BY <1>5, <2>1, <2>2, <2>4, UnchangedIsTyped DEF NoPdfDirectory, Typed
<1>6. CASE CloseDownload(r)
  <2>1. DownTyped'
    BY <1>0, <1>6 DEF CloseDownload, DownTyped
  <2>2. QueueTyped(pdfQueue')
    BY <1>0, <1>6, PutTypes DEF CloseDownload
  <2>3. QED BY <1>6, <2>1, <2>2, UnchangedIsTyped DEF CloseDownload, Typed
<1>7. QED BY <1>1, <1>2, <1>3, <1>4, <1>5, <1>6 DEF DownloadStep

LEMMA ConvertTypes ==
  ASSUME Typed, NEW r \in Runs, RunInv(r), ConvertStep(r)
  PROVE  Typed'
<1>0. FilesTyped /\ ConvTyped /\ QueueTyped(pdfQueue) /\ QueueTyped(mdQueue) /\ CountsTyped
      /\ Pill \in Item
  BY NamesDiffer DEF Typed
<1>1. CASE ConvertInit(r) \/ ConvertFails(r)
  <2>1. ConvTyped'
    <3>1. /\ Idle("get") \in [at : ConvertState, paper : Item]
          /\ Idle("dead") \in [at : ConvertState, paper : Item]
      BY IdleTypes DEF ConvertState
    <3>2. QED BY <1>0, <1>1, <3>1, ConverterTypes DEF ConvertInit, ConvertFails
  <2>2. QED BY <1>1, <2>1, UnchangedIsTyped DEF ConvertInit, ConvertFails, Typed
<1>2. CASE ConvertTakes(r)
  <2>1. QueueTyped(pdfQueue') /\ Head(pdfQueue[r]) \in Item
    BY <1>0, <1>2, TakeTypes DEF ConvertTakes
  <2>2. /\ Idle("get") \in [at : ConvertState, paper : Item]
        /\ Idle("closing") \in [at : ConvertState, paper : Item]
        /\ [at |-> "converting", paper |-> Head(pdfQueue[r])] \in [at : ConvertState, paper : Item]
    BY <2>1, IdleTypes DEF ConvertState
  <2>3. ConvTyped'
    BY <1>0, <1>2, <2>2, ConverterTypes DEF ConvertTakes
  <2>4. QED BY <1>2, <2>1, <2>3, UnchangedIsTyped DEF ConvertTakes, Typed
<1>3. CASE ConvertOk(r)
  <2>1. conv[r] \in [at : ConvertState, paper : Item]
    BY <1>0 DEF ConvTyped
  <2>2. [conv[r] EXCEPT !.at = "putting"] \in [at : ConvertState, paper : Item]
    BY <2>1 DEF ConvertState
  <2>3. ConvTyped'
    BY <1>0, <1>3, <2>2, ConverterTypes DEF ConvertOk
  <2>4. FilesTyped'
    BY <1>0, <1>3 DEF ConvertOk, FilesTyped
  <2>5. CountsTyped'
    BY <1>0, <1>3 DEF ConvertOk, CountsTyped
  <2>6. QED BY <1>3, <2>3, <2>4, <2>5, UnchangedIsTyped DEF ConvertOk, Typed
<1>4. CASE ConvertPuts(r) \/ ConvertCloses(r)
  <2>1. ConvTyped'
    <3>1. /\ Idle("get") \in [at : ConvertState, paper : Item]
          /\ Idle("stopped") \in [at : ConvertState, paper : Item]
      BY IdleTypes DEF ConvertState
    <3>2. QED BY <1>0, <1>4, <3>1, ConverterTypes DEF ConvertPuts, ConvertCloses
  <2>2. conv[r].paper \in Item
    BY <1>0 DEF ConvTyped
  <2>3. QueueTyped(mdQueue')
    BY <1>0, <1>4, <2>2, PutTypes DEF ConvertPuts, ConvertCloses
  <2>4. QED BY <1>4, <2>1, <2>3, UnchangedIsTyped DEF ConvertPuts, ConvertCloses, Typed
<1>5. QED BY <1>1, <1>2, <1>3, <1>4 DEF ConvertStep

LEMMA FilterTypes ==
  ASSUME Typed, NEW r \in Runs, NEW w \in Workers, RunInv(r), FilterStep(r, w)
  PROVE  Typed'
<1>0. FilesTyped /\ WorkTyped /\ QueueTyped(mdQueue) /\ CountsTyped
  BY DEF Typed
<1>a. Free("get") \in [at : WorkState, paper : Item, verdict : Verdict]
  BY IdleTypes DEF WorkState
<1>b. work[r][w].paper \in Item /\ work[r][w].verdict \in Verdict
  BY <1>0 DEF WorkTyped
<1>1. CASE FilterInit(r, w) \/ TakePill(r, w)
  <2>1. WorkTyped'
    BY <1>0, <1>1, GoesTypes DEF FilterInit, TakePill, WorkState
  <2>2. QED BY <1>1, <2>1, UnchangedIsTyped DEF FilterInit, TakePill, Typed
<1>2. CASE FilterTakes(r, w)
  <2>1. QueueTyped(mdQueue') /\ Head(mdQueue[r]) \in Item
    BY <1>0, <1>2, TakeTypes DEF FilterTakes
  <2>2. [at |-> "reading", paper |-> Head(mdQueue[r]), verdict |-> "reject"]
          \in [at : WorkState, paper : Item, verdict : Verdict]
    BY <2>1 DEF WorkState, Verdict
  <2>3. WorkTyped'
    BY <1>0, <1>2, <2>2, WorkerTypes DEF FilterTakes
  <2>4. QED BY <1>2, <2>1, <2>3, UnchangedIsTyped DEF FilterTakes, Typed
<1>3. CASE Evaluate(r, w)
  <2>1. \A v \in Verdict :
          [at |-> IF v = "keep" THEN "writing" ELSE "routing", paper |-> work[r][w].paper,
           verdict |-> v] \in [at : WorkState, paper : Item, verdict : Verdict]
    BY <1>b DEF WorkState
  <2>2. WorkTyped'
    <3>1. CASE Goes(r, w, "reading", "failing")
      BY <1>0, <3>1, GoesTypes DEF WorkState
    <3>2. CASE \E v \in Verdict :
                 Worker(r, w, "reading",
                   [at |-> IF v = "keep" THEN "writing" ELSE "routing",
                    paper |-> work[r][w].paper, verdict |-> v])
      BY <1>0, <2>1, <3>2, WorkerTypes
    <3>3. QED BY <1>3, <3>1, <3>2 DEF Evaluate
  <2>3. QED BY <1>3, <2>2, UnchangedIsTyped DEF Evaluate, Typed
<1>4. CASE WriteNote(r, w)
  <2>1. WorkTyped'
    BY <1>0, <1>4, GoesTypes DEF WriteNote, WorkState
  <2>2. work[r][w].at = "writing" => work[r][w].paper \in Papers
    BY DEF RunInv, InHand, AtFilter
  <2>3. FilesTyped'
    BY <1>0, <1>4, <2>2 DEF WriteNote, FilesTyped, Goes, Worker
  <2>4. QED BY <1>4, <2>1, <2>3, UnchangedIsTyped DEF WriteNote, Typed
<1>5. CASE RouteFiles(r, w)
  <2>1. WorkTyped'
    BY <1>0, <1>5, GoesTypes DEF RouteFiles, WorkState
  <2>2. FilesTyped'
    BY <1>0, <1>5 DEF RouteFiles, FilesTyped, Moved
  <2>3. QED BY <1>5, <2>1, <2>2, UnchangedIsTyped DEF RouteFiles, Typed
<1>6. CASE RouteAudit(r, w)
  <2>1. WorkTyped'
    BY <1>0, <1>6, GoesTypes DEF RouteAudit, WorkState
  <2> DEFINE row(p) == Append(audit[p], work[r][w].verdict)
  <2>3. \A p \in Papers : row(p) \in Seq(Verdict)
    BY <1>0, <1>b, AppendedIs DEF FilesTyped
  <2>4. \/ UNCHANGED audit
        \/ audit' = [audit EXCEPT ![work[r][w].paper] = row(work[r][w].paper)]
    BY <1>6 DEF RouteAudit
  <2>5. audit' \in [Papers -> Seq(Verdict)]
    <3> HIDE DEF row
    <3>1. audit \in [Papers -> Seq(Verdict)]
      BY <1>0 DEF FilesTyped
    <3>2. \A p, s : p \in Papers /\ s \in Seq(Verdict) =>
             [audit EXCEPT ![p] = s] \in [Papers -> Seq(Verdict)]
      BY <3>1
    <3>3. audit' # audit => work[r][w].paper \in Papers
      BY <1>6 DEF RouteAudit, RunInv, InHand, AtFilter, Goes, Worker
    <3>4. QED BY <2>3, <2>4, <3>1, <3>2, <3>3
  <2>6. FilesTyped'
    BY <1>0, <1>6, <2>5 DEF RouteAudit, FilesTyped
  <2>7. QED BY <1>6, <2>1, <2>6, UnchangedIsTyped DEF RouteAudit, Typed
<1>7. CASE CountVerdict(r, w) \/ CountError(r, w)
  <2>1. WorkTyped'
    BY <1>0, <1>a, <1>7, GoesTypes, WorkerTypes DEF CountVerdict, CountError, WorkState
  <2>2. CountsTyped'
    BY <1>0, <1>7 DEF CountVerdict, CountError, CountsTyped
  <2>3. QED BY <1>7, <2>1, <2>2, UnchangedIsTyped DEF CountVerdict, CountError, Typed
<1>8. CASE CleanUp(r, w)
  <2>1. WorkTyped'
    BY <1>0, <1>a, <1>8, GoesTypes, WorkerTypes DEF CleanUp, WorkState
  <2>2. FilesTyped'
    BY <1>0, <1>8 DEF CleanUp, FilesTyped, Moved
  <2>3. QED BY <1>8, <2>1, <2>2, UnchangedIsTyped DEF CleanUp, Typed
<1>9. QED
  BY <1>1, <1>2, <1>3, <1>4, <1>5, <1>6, <1>7, <1>8 DEF FilterStep

LEMMA RunTypes ==
  ASSUME Typed,
         \/ \E r \in Runs : StartRun(r) \/ MainStep(r)
         \/ Crash
  PROVE  Typed'
<1>0. StartTyped /\ RecordTyped
  BY DEF Typed
<1>1. ASSUME NEW r \in Runs, StartRun(r) PROVE Typed'
  <2>1. StartTyped'
    BY <1>0, <1>1 DEF StartRun, StartTyped, Audited
  <2>2. RecordTyped'
    BY <1>0, <1>1 DEF StartRun, RecordTyped, RecordState
  <2>3. QED BY <1>1, <2>1, <2>2, UnchangedIsTyped DEF StartRun, Typed
<1>2. ASSUME NEW r \in Runs, MainStep(r) PROVE Typed'
  <2>1. StartTyped'
    BY <1>0, <1>2 DEF MainStep, MainReturns, MainRaises, Ends, StartTyped
  <2>2. QED BY <1>2, <2>1, UnchangedIsTyped DEF MainStep, MainReturns, MainRaises, Ends, Typed
<1>3. CASE Crash
  <2>1. StartTyped'
    BY <1>0, <1>3 DEF Crash, StartTyped
  <2>2. QED BY <1>3, <2>1, UnchangedIsTyped DEF Crash, Typed
<1>4. QED BY <1>1, <1>2, <1>3

-----------------------------------------------------------------------------
(* A step of one run leaves the others alone *)

Local(q) ==
  <<main[q], record[q], down[q], conv[q], work[q], pdfQueue[q], mdQueue[q],
    ingested[q], total[q], errors[q]>>

\* Only whether a run still runs has changed.
LEMMA OnlyMain ==
  ASSUME NEW q \in Runs, RunInv(q),
         UNCHANGED <<record[q], down[q], conv[q], work[q], pdfQueue[q], mdQueue[q],
                     ingested[q], total[q], errors[q]>>,
         main'[q] = "idle" => main[q] = "idle",
         main'[q] = "ok" => GatherDone(q)
  PROVE  RunInv(q)'
<1>1. /\ record'[q] = record[q] /\ down'[q] = down[q]
      /\ conv'[q] = conv[q] /\ work'[q] = work[q]
      /\ pdfQueue'[q] = pdfQueue[q] /\ mdQueue'[q] = mdQueue[q]
      /\ ingested'[q] = ingested[q] /\ total'[q] = total[q] /\ errors'[q] = errors[q]
  OBVIOUS
<1>2. NotStarted(q) /\ InHand(q) /\ PillsEnd(q) /\ OnePlace(q) /\ Accounted(q)
  BY DEF RunInv
<1>3. NotStarted(q)'
  BY <1>1, <1>2 DEF NotStarted
<1>4. InHand(q)'
  BY <1>1, <1>2 DEF InHand
<1>5. PillsEnd(q)'
  BY <1>1, <1>2 DEF PillsEnd, DownloadsOver
<1>6. /\ \A p : Converting(q, p)' <=> Converting(q, p)
      /\ \A p : Putting(q, p)' <=> Putting(q, p)
      /\ \A w, p : Holding(q, w, p)' <=> Holding(q, w, p)
  BY <1>1 DEF Converting, Putting, Holding
<1>7. OnePlace(q)'
  BY <1>1, <1>2, <1>6 DEF OnePlace
<1>8. Pending(q)' = Pending(q)
  BY <1>1, <1>6 DEF Pending
<1>9. Accounted(q)'
  BY <1>1, <1>2, <1>8 DEF Accounted
<1>10. (main[q] = "ok" => GatherDone(q))'
  BY <1>1, <1>2 DEF GatherDone
<1>11. QED BY <1>3, <1>4, <1>5, <1>7, <1>9, <1>10 DEF RunInv

LEMMA SameRun ==
  ASSUME NEW q \in Runs, RunInv(q), UNCHANGED Local(q)
  PROVE  RunInv(q)'
<1>1. main[q] = "ok" => GatherDone(q)
  BY DEF RunInv
<1>2. QED BY <1>1, OnlyMain DEF Local

LEMMA OthersSame ==
  ASSUME Typed, NEW r \in Runs, NEW q \in Runs, q # r,
         \/ StartRun(r) \/ DownloadStep(r) \/ ConvertStep(r) \/ MainStep(r)
         \/ \E w \in Workers : FilterStep(r, w)
  PROVE  UNCHANGED Local(q)
<1>0. /\ StartTyped /\ RecordTyped /\ DownTyped /\ ConvTyped /\ WorkTyped
      /\ QueueTyped(pdfQueue) /\ QueueTyped(mdQueue) /\ CountsTyped
  BY DEF Typed
<1> USE <1>0 DEF Local, StartTyped, RecordTyped, DownTyped, ConvTyped, WorkTyped, QueueTyped,
             CountsTyped, start, download, queues, counts
<1>1. CASE StartRun(r)
  BY <1>1 DEF StartRun
<1>2. CASE MainStep(r)
  BY <1>2 DEF MainStep, MainReturns, MainRaises, Ends
<1>3. CASE DownloadStep(r)
  BY <1>3 DEF DownloadStep, CheckRecord, OpenPdf, ClosePdf, EnqueuePdf, NoPdfDirectory,
              CloseDownload, Recorded
<1>4. CASE ConvertStep(r)
  BY <1>4 DEF ConvertStep, ConvertInit, ConvertTakes, ConvertOk, ConvertFails, ConvertPuts,
              ConvertCloses, Converter
<1>5. ASSUME NEW w \in Workers, FilterStep(r, w) PROVE UNCHANGED Local(q)
  BY <1>5 DEF FilterStep, FilterInit, FilterTakes, TakePill, Evaluate, WriteNote, RouteFiles,
              RouteAudit, CountVerdict, CountError, CleanUp, Goes, Worker
<1>6. QED BY <1>1, <1>2, <1>3, <1>4, <1>5

-----------------------------------------------------------------------------
(* A step of a stage inside its own run *)

LEMMA StageGoesOn ==
  ASSUME NEW r \in Runs, Alive(r), UNCHANGED main,
         InHand(r)', PillsEnd(r)', OnePlace(r)', Accounted(r)'
  PROVE  RunInv(r)'
<1>1. NotStarted(r)'
  BY DEF NotStarted, Alive
<1>2. (main[r] = "ok" => GatherDone(r))'
  BY DEF Alive
<1>3. QED BY <1>1, <1>2 DEF RunInv

\* Where the papers of a run are, beyond its downloads, and what it counted.
Beyond(r) == <<conv[r], work[r], pdfQueue[r], mdQueue[r], ingested[r], total[r], errors[r]>>

LEMMA SamePlaces ==
  ASSUME NEW r \in Runs, UNCHANGED <<conv[r], work[r]>>
  PROVE  /\ \A p : Converting(r, p)' <=> Converting(r, p)
         /\ \A p : Putting(r, p)' <=> Putting(r, p)
         /\ \A w, p : Holding(r, w, p)' <=> Holding(r, w, p)
         /\ InHand(r) => InHand(r)'
BY DEF Converting, Putting, Holding, InHand

LEMMA SamePending ==
  ASSUME NEW r \in Runs, Accounted(r), Pending(r)' = Pending(r),
         UNCHANGED <<ingested[r], total[r], errors[r]>>
  PROVE  Accounted(r)'
BY DEF Accounted

\* A download that is not yet in the queue moves on.
LEMMA RecordMoves ==
  ASSUME NEW r \in Runs, RunInv(r), RecordTyped, NEW p \in Papers,
         NEW from \in {"pending", "waiting", "writing"}, NEW to \in RecordState,
         Recorded(r, p, from, to), UNCHANGED main, UNCHANGED <<down[r]>>, UNCHANGED Beyond(r)
  PROVE  RunInv(r)'
<1>1. /\ Alive(r) /\ record[r][p] = from
      /\ \A o \in Papers : record[r][o] = "queued" => record'[r][o] = "queued"
  BY DEF Recorded, RecordTyped
<1>2. UNCHANGED <<conv[r], work[r]>> /\ UNCHANGED <<pdfQueue[r], mdQueue[r]>>
      /\ UNCHANGED <<ingested[r], total[r], errors[r]>>
  BY DEF Beyond
<1>3. /\ InHand(r)'
      /\ \A o : Converting(r, o)' <=> Converting(r, o)
      /\ \A o : Putting(r, o)' <=> Putting(r, o)
      /\ \A w, o : Holding(r, w, o)' <=> Holding(r, w, o)
  BY <1>2, SamePlaces DEF RunInv
<1>4. PillsEnd(r)'
  <2>1. ~DownloadsOver(r)
    BY <1>1 DEF DownloadsOver
  <2>2. down[r] # "stopped" /\ PillsEnd(r)
    BY <2>1 DEF RunInv, PillsEnd
  <2>3. QED BY <1>2, <2>2 DEF PillsEnd
<1>5. OnePlace(r)'
  BY <1>1, <1>2, <1>3 DEF OnePlace, RunInv
<1>6. Accounted(r)'
  <2>1. Pending(r)' = Pending(r)
    BY <1>2, <1>3 DEF Pending
  <2>2. QED BY <1>2, <2>1, SamePending DEF RunInv
<1>7. QED BY <1>1, <1>3, <1>4, <1>5, <1>6, StageGoesOn

\* The download stage puts its pill.
LEMMA DownloadStops ==
  ASSUME NEW r \in Runs, RunInv(r), DownTyped, QueueTyped(pdfQueue),
         Alive(r), UNCHANGED main, down[r] = "fetching", down'[r] = "stopped",
         pdfQueue'[r] = Append(pdfQueue[r], Pill),
         \A p \in Papers : record'[r][p] \in {"no", "skipped", "queued"},
         \A p \in Papers : record[r][p] = "queued" => record'[r][p] = "queued",
         UNCHANGED <<conv[r], work[r]>>, UNCHANGED <<mdQueue[r]>>,
         UNCHANGED <<ingested[r], total[r], errors[r]>>
  PROVE  RunInv(r)'
<1>1. /\ InHand(r)'
      /\ \A o : Converting(r, o)' <=> Converting(r, o)
      /\ \A o : Putting(r, o)' <=> Putting(r, o)
      /\ \A w, o : Holding(r, w, o)' <=> Holding(r, w, o)
  BY SamePlaces DEF RunInv
<1>2. PillsEnd(r) /\ OnePlace(r)
  BY DEF RunInv
<1>3. ~In(Pill, pdfQueue[r]) /\ pdfQueue[r] \in Seq(Item) /\ Pill \in Item
  BY <1>2, NamesDiffer DEF PillsEnd, QueueTyped
<1>4. /\ PillAtEnd(pdfQueue'[r])
      /\ \A y : In(y, pdfQueue'[r]) <=> In(y, pdfQueue[r]) \/ y = Pill
      /\ Distinct(pdfQueue[r]) => Distinct(pdfQueue'[r])
  BY <1>3, AppendedIs
<1>5. PillsEnd(r)'
  BY <1>2, <1>4 DEF PillsEnd, DownloadsOver
<1>6. OnePlace(r)'
  BY <1>1, <1>2, <1>4, NamesDiffer DEF OnePlace
<1>7. Accounted(r)'
  <2>1. Pending(r)' = Pending(r)
    BY <1>1 DEF Pending
  <2>2. QED BY <2>1, SamePending DEF RunInv
<1>8. QED BY <1>1, <1>5, <1>6, <1>7, StageGoesOn

LEMMA DownloadKeepsRun ==
  ASSUME Typed, NEW r \in Runs, RunInv(r), DownloadStep(r)
  PROVE  RunInv(r)'
<1>0. RecordTyped /\ DownTyped /\ QueueTyped(pdfQueue) /\ CountsTyped
  BY DEF Typed
<1>1. ASSUME NEW p \in Papers, CheckRecord(r, p) \/ OpenPdf(r, p) \/ ClosePdf(r, p)
      PROVE  RunInv(r)'
  <2>1. /\ UNCHANGED main /\ UNCHANGED <<down[r]>> /\ UNCHANGED Beyond(r)
        /\ \E from \in {"pending", "waiting", "writing"}, to \in RecordState :
             Recorded(r, p, from, to)
    BY <1>1 DEF CheckRecord, OpenPdf, ClosePdf, RecordState, Beyond, start, queues, counts
  <2>2. QED BY <1>0, <2>1, RecordMoves
<1>2. ASSUME NEW p \in Papers, EnqueuePdf(r, p) PROVE RunInv(r)'
  <2>1. /\ Alive(r) /\ UNCHANGED main /\ down[r] = "fetching" /\ UNCHANGED <<down[r]>>
        /\ UNCHANGED <<conv[r], work[r]>> /\ UNCHANGED <<mdQueue[r]>>
        /\ UNCHANGED <<ingested[r], total[r], errors[r]>>
        /\ record[r][p] = "ready" /\ pdfQueue'[r] = Append(pdfQueue[r], p)
        /\ record'[r][p] = "queued"
        /\ \A o \in Papers : record[r][o] = "queued" => record'[r][o] = "queued"
    BY <1>0, <1>2 DEF EnqueuePdf, Recorded, start, RecordTyped, QueueTyped, counts
  <2>2. PillsEnd(r) /\ OnePlace(r)
    BY DEF RunInv
  <2>3. /\ InHand(r)'
        /\ \A o : Converting(r, o)' <=> Converting(r, o)
        /\ \A o : Putting(r, o)' <=> Putting(r, o)
        /\ \A w, o : Holding(r, w, o)' <=> Holding(r, w, o)
    BY <2>1, SamePlaces DEF RunInv
  <2>4. /\ ~In(p, pdfQueue[r]) /\ ~Converting(r, p) /\ ~In(p, mdQueue[r])
        /\ \A w \in Workers : ~Holding(r, w, p)
    BY <2>1, <2>2 DEF OnePlace
  <2>5. pdfQueue[r] \in Seq(Item) /\ p \in Item /\ p # Pill
    BY <1>0, NamesDiffer DEF QueueTyped
  <2>6. /\ \A y : In(y, pdfQueue'[r]) <=> In(y, pdfQueue[r]) \/ y = p
        /\ Distinct(pdfQueue[r]) => Distinct(pdfQueue'[r])
        /\ Len(pdfQueue'[r]) = Len(pdfQueue[r]) + 1
    BY <2>1, <2>4, <2>5, AppendedIs
  <2>7. PillsEnd(r)'
    <3>1. ~In(Pill, pdfQueue'[r]) /\ ~(conv[r].at \in {"closing", "stopped"})
      BY <2>1, <2>2, <2>5, <2>6 DEF PillsEnd
    <3>2. PillAtEnd(pdfQueue'[r])
      BY <3>1 DEF PillAtEnd, In
    <3>3. QED BY <2>1, <2>2, <3>1, <3>2 DEF PillsEnd
  <2>8. OnePlace(r)'
    BY <2>1, <2>2, <2>3, <2>4, <2>6 DEF OnePlace
  <2>9. Accounted(r)'
    <3>1. Pending(r)' = Pending(r)
      BY <2>1, <2>3 DEF Pending
    <3>2. QED BY <2>1, <3>1, SamePending DEF RunInv
  <2>10. QED BY <2>1, <2>3, <2>7, <2>8, <2>9, StageGoesOn
<1>3. CASE NoPdfDirectory(r)
  <2>1. /\ Alive(r) /\ UNCHANGED main /\ down[r] = "fetching" /\ down'[r] = "stopped"
        /\ UNCHANGED <<conv[r], work[r]>> /\ UNCHANGED <<mdQueue[r]>>
        /\ UNCHANGED <<ingested[r], total[r], errors[r]>>
        /\ pdfQueue'[r] = Append(pdfQueue[r], Pill)
        /\ \A p \in Papers : record[r][p] \in {"no", "pending"} /\ record'[r][p] = "no"
    BY <1>0, <1>3 DEF NoPdfDirectory, start, DownTyped, RecordTyped, QueueTyped, counts
  <2>2. QED BY <1>0, <2>1, DownloadStops
<1>4. CASE CloseDownload(r)
  <2>1. /\ Alive(r) /\ UNCHANGED main /\ down[r] = "fetching" /\ down'[r] = "stopped"
        /\ UNCHANGED <<conv[r], work[r]>> /\ UNCHANGED <<mdQueue[r]>>
        /\ UNCHANGED <<ingested[r], total[r], errors[r]>>
        /\ pdfQueue'[r] = Append(pdfQueue[r], Pill)
        /\ UNCHANGED record /\ DownloadsOver(r)
    BY <1>0, <1>4 DEF CloseDownload, start, DownTyped, QueueTyped, counts
  <2>2. QED BY <1>0, <2>1, DownloadStops DEF DownloadsOver
<1>5. QED BY <1>1, <1>2, <1>3, <1>4 DEF DownloadStep

\* What a step of the converter leaves alone in its run.
LEMMA ConverterLeaves ==
  ASSUME ConvTyped, NEW r \in Runs, NEW from, NEW to, Converter(r, from, to)
  PROVE  Alive(r) /\ conv[r].at = from /\ conv'[r] = to
BY DEF ConvTyped, Converter

\* The converter waits, ends or stops, with no paper in its hands before and after.
LEMMA ConverterEmptyHanded ==
  ASSUME NEW r \in Runs, RunInv(r), Alive(r), UNCHANGED main,
         UNCHANGED <<record[r], down[r], work[r], pdfQueue[r], mdQueue[r],
                     ingested[r], total[r], errors[r]>>,
         conv[r].at \in {"init", "converting"}, conv'[r].at \in {"get", "dead"}
  PROVE  RunInv(r)'
<1>1. /\ \A p : ~Converting(r, p)' /\ ~Putting(r, p)' /\ ~Putting(r, p)
      /\ \A w, p : Holding(r, w, p)' <=> Holding(r, w, p)
  BY DEF Converting, Putting, Holding
<1>2. InHand(r)'
  BY DEF RunInv, InHand
<1>3. PillsEnd(r)'
  BY DEF RunInv, PillsEnd, DownloadsOver
<1>4. OnePlace(r)'
  BY <1>1 DEF RunInv, OnePlace
<1>5. Pending(r)' = Pending(r)
  BY <1>1 DEF Pending
<1>6. QED BY <1>2, <1>3, <1>4, <1>5, SamePending, StageGoesOn DEF RunInv

LEMMA ConvertKeepsRun ==
  ASSUME Typed, NEW r \in Runs, RunInv(r), ConvertStep(r)
  PROVE  RunInv(r)'
<1>0. /\ ConvTyped /\ pdfQueue \in [Runs -> Seq(Item)] /\ mdQueue \in [Runs -> Seq(Item)]
      /\ pdfQueue[r] \in Seq(Item) /\ mdQueue[r] \in Seq(Item) /\ CountsTyped
  BY DEF Typed, QueueTyped
<1>i. InHand(r) /\ PillsEnd(r) /\ OnePlace(r) /\ Accounted(r)
  BY DEF RunInv
<1>1. CASE ConvertInit(r) \/ ConvertFails(r)
  <2>1. /\ Alive(r) /\ conv[r].at \in {"init", "converting"}
        /\ conv'[r] \in {Idle("get"), Idle("dead")}
    BY <1>0, <1>1, ConverterLeaves DEF ConvertInit, ConvertFails
  <2>2. QED
    BY <1>1, <2>1, ConverterEmptyHanded
       DEF ConvertInit, ConvertFails, Idle, start, download, queues, counts
<1>2. CASE ConvertTakes(r)
  <2>1. /\ pdfQueue[r] # <<>> /\ pdfQueue'[r] = Tail(pdfQueue[r])
        /\ UNCHANGED main
        /\ UNCHANGED <<record[r], down[r], work[r], mdQueue[r]>>
        /\ UNCHANGED <<ingested[r], total[r], errors[r]>>
    BY <1>0, <1>2 DEF ConvertTakes, start, download, counts
  <2>2. /\ Alive(r) /\ conv[r].at = "get"
        /\ \/ Head(pdfQueue[r]) = Pill /\ conv'[r] = Idle("closing")
           \/ /\ Head(pdfQueue[r]) \in Papers
              /\ conv'[r] \in {Idle("get"), [at |-> "converting", paper |-> Head(pdfQueue[r])]}
    <3>1. pdf \subseteq Papers
      BY DEF Typed, FilesTyped
    <3>2. QED BY <1>0, <1>2, <3>1, ConverterLeaves DEF ConvertTakes
  <2>3. /\ \A y : In(y, pdfQueue[r]) <=> In(y, Tail(pdfQueue[r])) \/ y = Head(pdfQueue[r])
        /\ Distinct(Tail(pdfQueue[r])) /\ ~In(Head(pdfQueue[r]), Tail(pdfQueue[r]))
        /\ PillAtEnd(Tail(pdfQueue[r]))
        /\ Head(pdfQueue[r]) = Pill => Tail(pdfQueue[r]) = <<>>
    BY <1>0, <1>i, <2>1, TakenIs DEF PillsEnd, OnePlace
  <2>4. /\ \A p : ~Converting(r, p) /\ ~Putting(r, p) /\ ~Putting(r, p)'
        /\ \A p \in Papers : Converting(r, p)' => p = Head(pdfQueue[r])
        /\ \A w, p : Holding(r, w, p)' <=> Holding(r, w, p)
    BY <2>1, <2>2 DEF Converting, Putting, Holding, Idle
  <2>5. InHand(r)'
    BY <1>i, <2>1, <2>2 DEF InHand, Idle
  <2>6. PillsEnd(r)'
    BY <1>i, <2>1, <2>2, <2>3 DEF PillsEnd, DownloadsOver, Idle
  <2>7. OnePlace(r)'
    BY <1>i, <2>1, <2>3, <2>4 DEF OnePlace
  <2>8. Pending(r)' = Pending(r)
    BY <2>1, <2>4 DEF Pending
  <2>9. QED BY <1>i, <2>1, <2>2, <2>5, <2>6, <2>7, <2>8, SamePending, StageGoesOn
<1>3. CASE ConvertOk(r)
  <2>1. /\ Alive(r) /\ conv[r].at = "converting" /\ conv'[r] = [conv[r] EXCEPT !.at = "putting"]
        /\ UNCHANGED main
        /\ UNCHANGED <<record[r], down[r], work[r], pdfQueue[r], mdQueue[r]>>
        /\ ingested'[r] = ingested[r] + 1 /\ UNCHANGED <<total[r], errors[r]>>
    BY <1>0, <1>3, ConverterLeaves DEF ConvertOk, start, download, queues, CountsTyped
  <2> DEFINE p == conv[r].paper
  <2>2. p \in Papers /\ conv'[r].at = "putting" /\ conv'[r].paper = p
    <3>1. conv[r] \in [at : ConvertState, paper : Item]
      BY <1>0 DEF ConvTyped
    <3>2. QED BY <1>i, <2>1, <3>1 DEF InHand
  <2>3. /\ \A o : Converting(r, o)' <=> Converting(r, o)
        /\ \A o : Putting(r, o)' <=> o = p
        /\ \A o : ~Putting(r, o)
        /\ \A w, o : Holding(r, w, o)' <=> Holding(r, w, o)
        /\ Converting(r, p)
    BY <2>1, <2>2 DEF Converting, Putting, Holding
  <2>4. InHand(r)'
    BY <1>i, <2>1, <2>2 DEF InHand
  <2>5. PillsEnd(r)'
    BY <1>i, <2>1, <2>2 DEF PillsEnd, DownloadsOver
  <2>6. OnePlace(r)'
    BY <1>i, <2>1, <2>3 DEF OnePlace
  <2>7. Pending(r)' = Pending(r) \cup {p} /\ p \notin Pending(r)
    <3>1. ~In(p, mdQueue[r]) /\ \A w \in Workers : ~Holding(r, w, p)
      BY <1>i, <2>2, <2>3 DEF OnePlace
    <3>2. QED BY <2>1, <2>2, <2>3, <3>1 DEF Pending
  <2>8. Accounted(r)'
    <3>1. /\ IsFiniteSet(Pending(r)) /\ IsFiniteSet(Pending(r)')
          /\ Cardinality(Pending(r)') = Cardinality(Pending(r)) + 1
      <4>1. IsFiniteSet(Pending(r))
        BY <1>i DEF Accounted
      <4>2. /\ IsFiniteSet(Pending(r) \cup {p})
            /\ Cardinality(Pending(r) \cup {p}) = Cardinality(Pending(r)) + 1
        BY <2>7, <4>1, FS_AddElement
      <4>3. QED BY <2>7, <4>1, <4>2
    <3>2. Cardinality(Pending(r)) \in Nat
      BY <3>1, FS_CardinalityType
    <3>3. ingested[r] \in Nat /\ total[r] \in Nat /\ errors[r] \in Nat
      BY <1>0 DEF CountsTyped
    <3>4. QED BY <1>i, <2>1, <3>1, <3>2, <3>3 DEF Accounted
  <2>9. QED BY <2>1, <2>4, <2>5, <2>6, <2>8, StageGoesOn
<1>4. CASE ConvertPuts(r)
  <2> DEFINE p == conv[r].paper
  <2>1. /\ Alive(r) /\ conv[r].at = "putting" /\ conv'[r] = Idle("get")
        /\ UNCHANGED main
        /\ UNCHANGED <<record[r], down[r], work[r], pdfQueue[r]>>
        /\ mdQueue'[r] = Append(mdQueue[r], p)
        /\ UNCHANGED <<ingested[r], total[r], errors[r]>>
    BY <1>0, <1>4, ConverterLeaves DEF ConvertPuts, start, download, counts
  <2>2. p \in Papers /\ p \in Item /\ p # Pill
    BY <1>i, <2>1, NamesDiffer DEF InHand
  <2>3. /\ \A o : ~Converting(r, o)' /\ ~Putting(r, o)'
        /\ \A o : Putting(r, o) <=> o = p
        /\ \A w, o : Holding(r, w, o)' <=> Holding(r, w, o)
        /\ Converting(r, p)
    BY <2>1, <2>2 DEF Converting, Putting, Holding, Idle
  <2>4. ~In(p, pdfQueue[r]) /\ ~In(p, mdQueue[r]) /\ record[r][p] = "queued"
        /\ \A w \in Workers : ~Holding(r, w, p)
    BY <1>i, <2>2, <2>3 DEF OnePlace
  <2>5. /\ \A y : In(y, mdQueue'[r]) <=> In(y, mdQueue[r]) \/ y = p
        /\ Distinct(mdQueue[r]) => Distinct(mdQueue'[r])
    BY <1>0, <2>1, <2>2, <2>4, AppendedIs
  <2>6. InHand(r)'
    BY <1>i, <2>1 DEF InHand, Idle
  <2>7. PillsEnd(r)'
    <3>1. ~In(Pill, mdQueue[r]) /\ ~In(Pill, mdQueue'[r])
      BY <1>i, <2>1, <2>2, <2>5 DEF PillsEnd
    <3>2. PillAtEnd(mdQueue'[r])
      BY <3>1 DEF PillAtEnd, In
    <3>3. \A w \in Workers : work[r][w].at # "stopped"
      BY <1>0, <1>i, <3>1, TakenIs DEF PillsEnd
    <3>4. QED BY <1>i, <2>1, <3>1, <3>2, <3>3 DEF PillsEnd, DownloadsOver, Idle
  <2>8. OnePlace(r)'
    BY <1>i, <2>1, <2>3, <2>4, <2>5 DEF OnePlace
  <2>9. Pending(r)' = Pending(r)
    BY <2>1, <2>2, <2>3, <2>5 DEF Pending
  <2>10. QED BY <1>i, <2>1, <2>6, <2>7, <2>8, <2>9, SamePending, StageGoesOn
<1>5. CASE ConvertCloses(r)
  <2>1. /\ Alive(r) /\ conv[r].at = "closing" /\ conv'[r] = Idle("stopped")
        /\ UNCHANGED main
        /\ UNCHANGED <<record[r], down[r], work[r], pdfQueue[r]>>
        /\ mdQueue'[r] = Append(mdQueue[r], Pill)
        /\ UNCHANGED <<ingested[r], total[r], errors[r]>>
    BY <1>0, <1>5, ConverterLeaves DEF ConvertCloses, start, download, counts
  <2>2. /\ \A o : ~Converting(r, o)' /\ ~Putting(r, o)' /\ ~Converting(r, o) /\ ~Putting(r, o)
        /\ \A w, o : Holding(r, w, o)' <=> Holding(r, w, o)
    BY <2>1 DEF Converting, Putting, Holding, Idle
  <2>3. ~In(Pill, mdQueue[r])
    BY <1>i, <2>1 DEF PillsEnd
  <2>4. /\ \A y : In(y, mdQueue'[r]) <=> In(y, mdQueue[r]) \/ y = Pill
        /\ Distinct(mdQueue[r]) => Distinct(mdQueue'[r])
        /\ PillAtEnd(mdQueue'[r])
    BY <1>0, <2>1, <2>3, AppendedIs, NamesDiffer
  <2>5. InHand(r)'
    BY <1>i, <2>1 DEF InHand, Idle
  <2>6. PillsEnd(r)'
    <3>1. \A w \in Workers : work[r][w].at # "stopped"
      BY <1>0, <1>i, <2>3, TakenIs DEF PillsEnd
    <3>2. QED BY <1>i, <2>1, <2>4, <3>1 DEF PillsEnd, DownloadsOver, Idle
  <2>7. OnePlace(r)'
    BY <1>i, <2>1, <2>2, <2>4, NamesDiffer DEF OnePlace
  <2>8. Pending(r)' = Pending(r)
    BY <2>1, <2>2, <2>4, NamesDiffer DEF Pending
  <2>9. QED BY <1>i, <2>1, <2>5, <2>6, <2>7, <2>8, SamePending, StageGoesOn
<1>6. QED BY <1>1, <1>2, <1>3, <1>4, <1>5 DEF ConvertStep

LEMMA WorkerLeaves ==
  ASSUME WorkTyped, NEW r \in Runs, NEW w \in Workers, NEW from, NEW to, Worker(r, w, from, to)
  PROVE  /\ Alive(r) /\ work[r][w].at = from /\ work'[r][w] = to
         /\ \A v \in Workers : v # w => work'[r][v] = work[r][v]
BY DEF WorkTyped, Worker

LEMMA GoesLeaves ==
  ASSUME WorkTyped, NEW r \in Runs, NEW w \in Workers, NEW from, NEW to, Goes(r, w, from, to)
  PROVE  /\ Alive(r) /\ work[r][w].at = from
         /\ work'[r][w].at = to /\ work'[r][w].paper = work[r][w].paper
         /\ work'[r][w].verdict = work[r][w].verdict
         /\ \A v \in Workers : v # w => work'[r][v] = work[r][v]
<1>1. work[r][w] \in [at : WorkState, paper : Item, verdict : Verdict]
  BY DEF WorkTyped
<1>2. work'[r][w] = [work[r][w] EXCEPT !.at = to]
  BY WorkerLeaves DEF Goes
<1>3. work'[r][w].at = to /\ work'[r][w].paper = work[r][w].paper
      /\ work'[r][w].verdict = work[r][w].verdict
  BY <1>1, <1>2
<1>4. QED BY <1>3, WorkerLeaves DEF Goes

\* A worker with no paper to count goes on, or stops in front of the pill.
LEMMA WorkerEmptyHanded ==
  ASSUME NEW r \in Runs, NEW w \in Workers, RunInv(r), Alive(r), UNCHANGED main,
         UNCHANGED <<record[r], down[r], conv[r], pdfQueue[r], mdQueue[r],
                     ingested[r], total[r], errors[r]>>,
         work[r][w].at \notin AtFilter, work'[r][w].at \notin AtFilter,
         work'[r][w].at = "stopped" => mdQueue[r] # <<>> /\ Head(mdQueue[r]) = Pill,
         \A v \in Workers : v # w => work'[r][v] = work[r][v]
  PROVE  RunInv(r)'
<1>1. /\ \A p : Converting(r, p)' <=> Converting(r, p)
      /\ \A p : Putting(r, p)' <=> Putting(r, p)
      /\ \A v \in Workers : \A p : Holding(r, v, p)' <=> Holding(r, v, p)
  BY DEF Converting, Putting, Holding
<1>2. InHand(r)'
  BY DEF RunInv, InHand
<1>3. PillsEnd(r)'
  BY DEF RunInv, PillsEnd, DownloadsOver
<1>4. OnePlace(r)'
  BY <1>1 DEF RunInv, OnePlace
<1>5. Pending(r)' = Pending(r)
  BY <1>1 DEF Pending
<1>6. QED BY <1>2, <1>3, <1>4, <1>5, SamePending, StageGoesOn DEF RunInv

\* A worker goes on with its paper.
LEMMA WorkerGoesOn ==
  ASSUME NEW r \in Runs, NEW w \in Workers, RunInv(r), Alive(r), UNCHANGED main,
         UNCHANGED <<record[r], down[r], conv[r], pdfQueue[r], mdQueue[r],
                     ingested[r], total[r], errors[r]>>,
         work[r][w].at \in AtFilter, work'[r][w].at \in AtFilter,
         work'[r][w].paper = work[r][w].paper,
         \A v \in Workers : v # w => work'[r][v] = work[r][v]
  PROVE  RunInv(r)'
<1>1. /\ \A p : Converting(r, p)' <=> Converting(r, p)
      /\ \A p : Putting(r, p)' <=> Putting(r, p)
      /\ \A v \in Workers : \A p : Holding(r, v, p)' <=> Holding(r, v, p)
  BY DEF Converting, Putting, Holding
<1>2. InHand(r)'
  BY DEF RunInv, InHand
<1>3. PillsEnd(r)'
  BY DEF RunInv, PillsEnd, DownloadsOver, AtFilter
<1>4. OnePlace(r)'
  BY <1>1 DEF RunInv, OnePlace
<1>5. Pending(r)' = Pending(r)
  BY <1>1 DEF Pending
<1>6. QED BY <1>2, <1>3, <1>4, <1>5, SamePending, StageGoesOn DEF RunInv

\* A worker counts its paper, as a verdict or as an error.
LEMMA WorkerCounts ==
  ASSUME CountsTyped, NEW r \in Runs, NEW w \in Workers, RunInv(r), Alive(r), UNCHANGED main,
         UNCHANGED <<record[r], down[r], conv[r], pdfQueue[r], mdQueue[r], ingested[r]>>,
         work[r][w].at \in AtFilter, work'[r][w].at \in {"get", "cleaning"},
         \A v \in Workers : v # w => work'[r][v] = work[r][v],
         \/ total'[r] = total[r] + 1 /\ UNCHANGED <<errors[r]>>
         \/ errors'[r] = errors[r] + 1 /\ UNCHANGED <<total[r]>>
  PROVE  RunInv(r)'
<1> DEFINE p == work[r][w].paper
<1>i. InHand(r) /\ PillsEnd(r) /\ OnePlace(r) /\ Accounted(r) /\ p \in Papers /\ Holding(r, w, p)
  BY DEF RunInv, InHand, Holding
<1>1. /\ \A o : Converting(r, o)' <=> Converting(r, o)
      /\ \A o : Putting(r, o)' <=> Putting(r, o)
      /\ \A o : ~Holding(r, w, o)'
      /\ \A v \in Workers : \A o : v # w => (Holding(r, v, o)' <=> Holding(r, v, o))
      /\ \A o : Holding(r, w, o) => o = p
  BY DEF Converting, Putting, Holding, AtFilter
<1>2. InHand(r)'
  BY <1>i DEF InHand, AtFilter
<1>3. PillsEnd(r)'
  BY <1>i DEF PillsEnd, DownloadsOver, AtFilter
<1>4. OnePlace(r)'
  BY <1>i, <1>1 DEF OnePlace
<1>5. Pending(r)' = Pending(r) \ {p} /\ p \in Pending(r)
  <2>1. ~Putting(r, p) /\ ~In(p, mdQueue[r]) /\ \A v \in Workers : v # w => ~Holding(r, v, p)
    BY <1>i DEF OnePlace, Putting, Converting
  <2>2. QED BY <1>i, <1>1, <2>1 DEF Pending
<1>6. Accounted(r)'
  <2>1. IsFiniteSet(Pending(r))
    BY <1>i DEF Accounted
  <2>2. /\ IsFiniteSet(Pending(r) \ {p})
        /\ Cardinality(Pending(r) \ {p}) = Cardinality(Pending(r)) - 1
    BY <1>5, <2>1, FS_RemoveElement
  <2>3. IsFiniteSet(Pending(r)') /\ Cardinality(Pending(r)') = Cardinality(Pending(r)) - 1
    BY <1>5, <2>2
  <2>4. Cardinality(Pending(r)) \in Nat
    BY <2>1, FS_CardinalityType
  <2>5. ingested[r] \in Nat /\ total[r] \in Nat /\ errors[r] \in Nat
    BY DEF CountsTyped
  <2>6. QED BY <1>i, <2>3, <2>4, <2>5 DEF Accounted
<1>7. QED BY <1>i, <1>2, <1>3, <1>4, <1>6, StageGoesOn

LEMMA FilterKeepsRun ==
  ASSUME Typed, NEW r \in Runs, NEW w \in Workers, RunInv(r), FilterStep(r, w)
  PROVE  RunInv(r)'
<1>0. WorkTyped /\ mdQueue \in [Runs -> Seq(Item)] /\ mdQueue[r] \in Seq(Item) /\ CountsTyped
  BY DEF Typed, QueueTyped
<1>i. InHand(r) /\ PillsEnd(r) /\ OnePlace(r) /\ Accounted(r)
  BY DEF RunInv
<1>s. /\ FilterInit(r, w) \/ TakePill(r, w) \/ Evaluate(r, w) \/ WriteNote(r, w)
         \/ RouteFiles(r, w) \/ RouteAudit(r, w) \/ CleanUp(r, w) =>
           /\ UNCHANGED main
           /\ UNCHANGED <<record[r], down[r], conv[r], pdfQueue[r], mdQueue[r],
                          ingested[r], total[r], errors[r]>>
      /\ CountVerdict(r, w) \/ CountError(r, w) =>
           /\ UNCHANGED main
           /\ UNCHANGED <<record[r], down[r], conv[r], pdfQueue[r], mdQueue[r], ingested[r]>>
  BY DEF FilterInit, TakePill, Evaluate, WriteNote, RouteFiles, RouteAudit, CountVerdict,
         CountError, CleanUp, start, download, queues, counts
<1>1. CASE FilterInit(r, w) \/ CleanUp(r, w)
  <2>1. /\ Alive(r) /\ work[r][w].at \in {"init", "cleaning"} /\ work'[r][w].at \in {"get", "dead"}
        /\ \A v \in Workers : v # w => work'[r][v] = work[r][v]
    <3>1. CASE FilterInit(r, w)
      BY <1>0, <3>1, GoesLeaves DEF FilterInit
    <3>2. CASE CleanUp(r, w)
      BY <1>0, <3>2, GoesLeaves, WorkerLeaves DEF CleanUp, Free
    <3>3. QED BY <1>1, <3>1, <3>2
  <2>2. QED BY <1>1, <1>s, <2>1, WorkerEmptyHanded DEF AtFilter
<1>2. CASE TakePill(r, w)
  <2>1. /\ Alive(r) /\ work[r][w].at = "get" /\ work'[r][w].at = "stopped"
        /\ \A v \in Workers : v # w => work'[r][v] = work[r][v]
        /\ mdQueue[r] # <<>> /\ Head(mdQueue[r]) = Pill
    BY <1>0, <1>2, GoesLeaves DEF TakePill
  <2>2. QED BY <1>2, <1>s, <2>1, WorkerEmptyHanded DEF AtFilter
<1>3. CASE Evaluate(r, w)
  <2>1. /\ Alive(r) /\ work[r][w].at \in AtFilter /\ work'[r][w].at \in AtFilter
        /\ work'[r][w].paper = work[r][w].paper
        /\ \A v \in Workers : v # w => work'[r][v] = work[r][v]
    <3>1. CASE Goes(r, w, "reading", "failing")
      BY <1>0, <3>1, GoesLeaves DEF AtFilter
    <3>2. ASSUME NEW v \in Verdict,
                 Worker(r, w, "reading",
                   [at |-> IF v = "keep" THEN "writing" ELSE "routing",
                    paper |-> work[r][w].paper, verdict |-> v])
          PROVE  /\ Alive(r) /\ work[r][w].at \in AtFilter /\ work'[r][w].at \in AtFilter
                 /\ work'[r][w].paper = work[r][w].paper
                 /\ \A x \in Workers : x # w => work'[r][x] = work[r][x]
      BY <1>0, <3>2, WorkerLeaves DEF AtFilter
    <3>3. QED BY <1>3, <3>1, <3>2 DEF Evaluate
  <2>2. QED BY <1>3, <1>s, <2>1, WorkerGoesOn
<1>4. CASE WriteNote(r, w) \/ RouteFiles(r, w) \/ RouteAudit(r, w)
  <2>1. /\ Alive(r) /\ work[r][w].at \in AtFilter /\ work'[r][w].at \in AtFilter
        /\ work'[r][w].paper = work[r][w].paper
        /\ \A v \in Workers : v # w => work'[r][v] = work[r][v]
    BY <1>0, <1>4, GoesLeaves DEF AtFilter, WriteNote, RouteFiles, RouteAudit
  <2>2. QED BY <1>4, <1>s, <2>1, WorkerGoesOn
<1>5. CASE CountVerdict(r, w) \/ CountError(r, w)
  <2>1. /\ Alive(r) /\ work[r][w].at \in AtFilter /\ work'[r][w].at \in {"get", "cleaning"}
        /\ \A v \in Workers : v # w => work'[r][v] = work[r][v]
    <3>1. CASE CountVerdict(r, w)
      BY <1>0, <3>1, WorkerLeaves DEF CountVerdict, Free, AtFilter
    <3>2. CASE CountError(r, w)
      BY <1>0, <3>2, GoesLeaves DEF CountError, AtFilter
    <3>3. QED BY <1>5, <3>1, <3>2
  <2>2. \/ total'[r] = total[r] + 1 /\ UNCHANGED <<errors[r]>>
        \/ errors'[r] = errors[r] + 1 /\ UNCHANGED <<total[r]>>
    BY <1>0, <1>5 DEF CountVerdict, CountError, CountsTyped
  <2>3. QED BY <1>0, <1>5, <1>s, <2>1, <2>2, WorkerCounts
<1>6. CASE FilterTakes(r, w)
  <2> DEFINE p == Head(mdQueue[r])
  <2>1. /\ mdQueue[r] # <<>> /\ p # Pill /\ mdQueue'[r] = Tail(mdQueue[r])
        /\ UNCHANGED main
        /\ UNCHANGED <<record[r], down[r], conv[r], pdfQueue[r]>>
        /\ UNCHANGED <<ingested[r], total[r], errors[r]>>
    BY <1>0, <1>6 DEF FilterTakes, start, download, counts
  <2>2. /\ Alive(r) /\ work[r][w].at = "get" /\ work'[r][w].at = "reading"
        /\ work'[r][w].paper = p
        /\ \A v \in Workers : v # w => work'[r][v] = work[r][v]
    BY <1>0, <1>6, WorkerLeaves DEF FilterTakes
  <2>3. /\ \A y : In(y, mdQueue[r]) <=> In(y, Tail(mdQueue[r])) \/ y = p
        /\ Distinct(Tail(mdQueue[r])) /\ ~In(p, Tail(mdQueue[r]))
        /\ PillAtEnd(Tail(mdQueue[r])) /\ p \in Papers
    <3>1. p \in Item
      BY <1>0, <2>1, TakenIs
    <3>2. QED BY <1>0, <1>i, <2>1, <3>1, TakenIs, NamesDiffer DEF PillsEnd, OnePlace
  <2>4. /\ \A o : Converting(r, o)' <=> Converting(r, o)
        /\ \A o : Putting(r, o)' <=> Putting(r, o)
        /\ \A v \in Workers : \A o : v # w => (Holding(r, v, o)' <=> Holding(r, v, o))
        /\ \A o : ~Holding(r, w, o)
        /\ \A o : Holding(r, w, o)' <=> o = p
    BY <2>1, <2>2 DEF Converting, Putting, Holding, AtFilter
  <2>5. In(p, mdQueue[r])
    BY <2>3
  <2>6. InHand(r)'
    BY <1>i, <2>1, <2>2, <2>3 DEF InHand
  <2>7. PillsEnd(r)'
    <3>1. \A v \in Workers : work'[r][v].at # "stopped"
      BY <1>i, <2>1, <2>2 DEF PillsEnd
    <3>2. QED BY <1>i, <2>1, <2>2, <2>3, <3>1 DEF PillsEnd, DownloadsOver
  <2>8. OnePlace(r)'
    BY <1>i, <2>1, <2>3, <2>4, <2>5 DEF OnePlace
  <2>9. Pending(r)' = Pending(r)
    BY <2>1, <2>3, <2>4 DEF Pending
  <2>10. QED BY <1>i, <2>1, <2>2, <2>6, <2>7, <2>8, <2>9, SamePending, StageGoesOn
<1>7. QED BY <1>1, <1>2, <1>3, <1>4, <1>5, <1>6 DEF FilterStep

-----------------------------------------------------------------------------
(* Every run, through every step *)

LEMMA EmptyPlaces ==
  ASSUME NEW r \in Runs,
         conv[r] = Idle("init"), work[r] = [w \in Workers |-> Free("init")],
         pdfQueue[r] = <<>>, mdQueue[r] = <<>>
  PROVE  /\ \A p : ~Converting(r, p) /\ ~Putting(r, p) /\ ~In(p, pdfQueue[r]) /\ ~In(p, mdQueue[r])
         /\ \A p : \A w \in Workers : ~Holding(r, w, p) /\ work[r][w].at = "init"
BY EmptyIs DEF Converting, Putting, Holding, Idle, Free, AtFilter

LEMMA StartKeepsRun ==
  ASSUME Typed, NEW r \in Runs, RunInv(r), StartRun(r)
  PROVE  RunInv(r)'
<1>1. /\ main'[r] = "running"
      /\ UNCHANGED <<conv, work, down>>
      /\ UNCHANGED <<pdfQueue, mdQueue>>
      /\ UNCHANGED <<ingested, total, errors>>
  BY DEF StartRun, queues, counts, Typed, StartTyped
<1>2. /\ down[r] = "fetching" /\ conv[r] = Idle("init")
      /\ work[r] = [w \in Workers |-> Free("init")]
      /\ pdfQueue[r] = <<>> /\ mdQueue[r] = <<>>
  BY DEF StartRun, RunInv, NotStarted
<1>3. /\ \A p : ~Converting(r, p)' /\ ~Putting(r, p)'
      /\ \A p : ~Putting(r, p)
      /\ \A p : ~In(p, pdfQueue'[r]) /\ ~In(p, mdQueue'[r])
      /\ \A p : \A w \in Workers : ~Holding(r, w, p)'
      /\ \A p : \A w \in Workers : ~Holding(r, w, p)
  BY <1>1, <1>2, EmptyPlaces DEF Converting, Putting, Holding
<1>4. InHand(r)'
  BY <1>1 DEF RunInv, InHand
<1>5. PillsEnd(r)'
  BY <1>1, <1>2 DEF RunInv, PillsEnd, Idle
<1>6. OnePlace(r)'
  BY <1>1, <1>3 DEF RunInv, OnePlace
<1>7. Pending(r)' = Pending(r)
  BY <1>1, <1>3 DEF Pending
<1>8. Accounted(r)'
  BY <1>1, <1>7 DEF RunInv, Accounted
<1>9. NotStarted(r)' /\ (main[r] = "ok" => GatherDone(r))'
  BY <1>1 DEF NotStarted
<1>10. QED BY <1>4, <1>5, <1>6, <1>8, <1>9 DEF RunInv

LEMMA RunsKept ==
  ASSUME Typed, \A q \in Runs : RunInv(q), [Next]_vars
  PROVE  \A q \in Runs : RunInv(q)'
<1> SUFFICES ASSUME NEW q \in Runs PROVE RunInv(q)'
  OBVIOUS
<1>0. StartTyped /\ RunInv(q) /\ (main[q] = "ok" => GatherDone(q))
  BY DEF Typed, RunInv
<1>1. ASSUME NEW r \in Runs, StartRun(r) PROVE RunInv(q)'
  BY <1>0, <1>1, StartKeepsRun, OthersSame, SameRun
<1>2. ASSUME NEW r \in Runs, DownloadStep(r) PROVE RunInv(q)'
  BY <1>0, <1>2, DownloadKeepsRun, OthersSame, SameRun
<1>3. ASSUME NEW r \in Runs, ConvertStep(r) PROVE RunInv(q)'
  BY <1>0, <1>3, ConvertKeepsRun, OthersSame, SameRun
<1>4. ASSUME NEW r \in Runs, NEW w \in Workers, FilterStep(r, w) PROVE RunInv(q)'
  BY <1>0, <1>4, FilterKeepsRun, OthersSame, SameRun
<1>5. ASSUME NEW r \in Runs, MainStep(r) PROVE RunInv(q)'
  <2>1. UNCHANGED <<record[q], down[q], conv[q], work[q], pdfQueue[q], mdQueue[q],
                     ingested[q], total[q], errors[q]>>
    BY <1>5 DEF MainStep, MainReturns, MainRaises, Ends, download, queues, counts
  <2>2. (main'[q] = "idle" => main[q] = "idle") /\ (main'[q] = "ok" => GatherDone(q))
    BY <1>0, <1>5 DEF MainStep, MainReturns, MainRaises, Ends, StartTyped
  <2>3. QED BY <1>0, <2>1, <2>2, OnlyMain
<1>6. CASE Crash
  <2>1. UNCHANGED <<record[q], down[q], conv[q], work[q], pdfQueue[q], mdQueue[q],
                     ingested[q], total[q], errors[q]>>
    BY <1>6 DEF Crash, download, queues, counts
  <2>2. (main'[q] = "idle" => main[q] = "idle") /\ (main'[q] = "ok" => GatherDone(q))
    BY <1>0, <1>6 DEF Crash
  <2>3. QED BY <1>0, <2>1, <2>2, OnlyMain
<1>7. CASE UNCHANGED vars
  <2>1. UNCHANGED Local(q)
    BY <1>7 DEF vars, Local, start, download, queues, counts
  <2>2. QED BY <1>0, <2>1, SameRun
<1>8. QED BY <1>1, <1>2, <1>3, <1>4, <1>5, <1>6, <1>7 DEF Next

LEMMA TypesKept ==
  ASSUME Typed, \A q \in Runs : RunInv(q), [Next]_vars
  PROVE  Typed'
<1>1. CASE UNCHANGED vars
  BY <1>1, UnchangedIsTyped DEF vars, Typed
<1>2. CASE Next
  BY <1>2, DownloadTypes, ConvertTypes, FilterTypes, RunTypes DEF Next
<1>3. QED BY <1>1, <1>2

LEMMA InitialRuns ==
  ASSUME Init
  PROVE  Typed /\ \A q \in Runs : RunInv(q)
<1>1. Typed
  <2>1. FilesTyped /\ StartTyped
    BY EmptyIs DEF Init, FilesTyped, StartTyped
  <2>2. RecordTyped /\ DownTyped
    BY DEF Init, RecordTyped, DownTyped, RecordState
  <2>3. ConvTyped /\ WorkTyped
    BY IdleTypes DEF Init, ConvTyped, WorkTyped, ConvertState, WorkState
  <2>4. QueueTyped(pdfQueue) /\ QueueTyped(mdQueue)
    BY EmptyIs DEF Init, QueueTyped
  <2>5. CountsTyped
    BY DEF Init, CountsTyped
  <2>6. QED BY <2>1, <2>2, <2>3, <2>4, <2>5 DEF Typed
<1>2. ASSUME NEW q \in Runs PROVE RunInv(q)
  <2>1. /\ main[q] = "idle" /\ record[q] = [p \in Papers |-> "no"] /\ down[q] = "fetching"
        /\ conv[q] = Idle("init") /\ work[q] = [w \in Workers |-> Free("init")]
        /\ pdfQueue[q] = <<>> /\ mdQueue[q] = <<>>
        /\ ingested[q] = 0 /\ total[q] = 0 /\ errors[q] = 0
    BY DEF Init
  <2>2. /\ \A p : ~Converting(q, p) /\ ~Putting(q, p) /\ ~In(p, pdfQueue[q]) /\ ~In(p, mdQueue[q])
        /\ \A p : \A w \in Workers : ~Holding(q, w, p) /\ work[q][w].at = "init"
    BY <2>1, EmptyPlaces
  <2>3. InHand(q)
    <3>1. conv[q].at = "init"
      BY <2>1 DEF Idle
    <3>2. QED BY <2>2, <3>1 DEF InHand, AtFilter
  <2>4. PillsEnd(q)
    <3>1. conv[q].at = "init" /\ PillAtEnd(pdfQueue[q]) /\ PillAtEnd(mdQueue[q])
      BY <2>1, EmptyIs DEF Idle
    <3>2. \A w \in Workers : work[q][w].at # "stopped"
      BY <2>2
    <3>3. QED BY <2>1, <2>2, <3>1, <3>2 DEF PillsEnd
  <2>5. OnePlace(q)
    BY <2>1, <2>2, EmptyIs DEF OnePlace
  <2>6. Accounted(q)
    <3>1. Pending(q) = {}
      BY <2>2 DEF Pending
    <3>2. QED BY <2>1, <3>1, FS_EmptySet DEF Accounted
  <2>7. QED BY <2>1, <2>3, <2>4, <2>5, <2>6 DEF RunInv, NotStarted
<1>3. QED BY <1>1, <1>2

-----------------------------------------------------------------------------
(* The files: what they say of a paper only grows *)

LEMMA FilesGrow ==
  ASSUME Typed, [Next]_vars
  PROVE  /\ \A p \in Papers : "filtered" \in md[p] => "filtered" \in md'[p]
         /\ note \subseteq note'
<1>0. md \in [Papers -> SUBSET {"clean", "filtered", "failed"}]
  BY DEF Typed, FilesTyped
<1> DEFINE Grow == /\ \A p \in Papers : "filtered" \in md[p] => "filtered" \in md'[p]
                   /\ note \subseteq note'
<1>1. ASSUME NEW r \in Runs, StartRun(r) \/ MainStep(r) \/ DownloadStep(r) PROVE Grow
  BY <1>1 DEF StartRun, MainStep, MainReturns, MainRaises, Ends, DownloadStep, CheckRecord,
              OpenPdf, ClosePdf, EnqueuePdf, NoPdfDirectory, CloseDownload, files
<1>2. ASSUME NEW r \in Runs, ConvertStep(r) PROVE Grow
  BY <1>0, <1>2 DEF ConvertStep, ConvertInit, ConvertTakes, ConvertOk, ConvertFails,
                    ConvertPuts, ConvertCloses, files
<1>3. ASSUME NEW r \in Runs, NEW w \in Workers, FilterStep(r, w) PROVE Grow
  BY <1>0, <1>3 DEF FilterStep, FilterInit, FilterTakes, TakePill, Evaluate, WriteNote,
                    RouteFiles, RouteAudit, CountVerdict, CountError, CleanUp, Moved, files
<1>4. CASE Crash \/ UNCHANGED vars
  BY <1>4 DEF Crash, vars, files
<1>5. QED BY <1>1, <1>2, <1>3, <1>4 DEF Next

\* Only a filter worker moves a worker, and only RouteAudit writes a row.
LEMMA OnlyFilterJudges ==
  ASSUME [Next]_vars, ~ \E r \in Runs, w \in Workers : FilterStep(r, w)
  PROVE  UNCHANGED work /\ UNCHANGED audit
<1>1. ASSUME NEW r \in Runs, StartRun(r) \/ MainStep(r) \/ DownloadStep(r)
      PROVE  UNCHANGED work /\ UNCHANGED audit
  BY <1>1 DEF StartRun, MainStep, MainReturns, MainRaises, Ends, DownloadStep, CheckRecord,
              OpenPdf, ClosePdf, EnqueuePdf, NoPdfDirectory, CloseDownload, files
<1>2. ASSUME NEW r \in Runs, ConvertStep(r)
      PROVE  UNCHANGED work /\ UNCHANGED audit
  BY <1>2 DEF ConvertStep, ConvertInit, ConvertTakes, ConvertOk, ConvertFails,
              ConvertPuts, ConvertCloses, files
<1>3. CASE Crash \/ UNCHANGED vars
  BY <1>3 DEF Crash, vars, files
<1>4. QED BY <1>1, <1>2, <1>3 DEF Next

LEMMA RoutedKept ==
  ASSUME Typed, \A q \in Runs : RunInv(q), RoutedIsTrue, [Next]_vars
  PROVE  RoutedIsTrue'
<1>0. /\ WorkTyped /\ md \in [Papers -> SUBSET {"clean", "filtered", "failed"}]
      /\ \A p \in Papers : "filtered" \in md[p] => "filtered" \in md'[p]
      /\ note \subseteq note'
      /\ \A r \in Runs : InHand(r)
  BY FilesGrow DEF Typed, FilesTyped, RunInv
<1> DEFINE Told(at, p, v) == /\ at = "auditing" => "filtered" \in md[p]
                             /\ at \in {"routing", "auditing"} /\ v = "keep" => p \in note
           ToldNext(at, p, v) == /\ at = "auditing" => "filtered" \in md'[p]
                                 /\ at \in {"routing", "auditing"} /\ v = "keep" => p \in note'
           Tells(r, w) == Told(work[r][w].at, work[r][w].paper, work[r][w].verdict)
           TellsNext(r, w) == ToldNext(work'[r][w].at, work'[r][w].paper, work'[r][w].verdict)
<1>1. /\ RoutedIsTrue => \A r \in Runs, w \in Workers : Tells(r, w)
      /\ (\A r \in Runs, w \in Workers : TellsNext(r, w)) => RoutedIsTrue'
  BY DEF RoutedIsTrue
<1>2. ASSUME NEW r \in Runs, NEW w \in Workers, work'[r][w] = work[r][w]
      PROVE  TellsNext(r, w)
  <2>1. work[r][w].at \in {"routing", "auditing"} => work[r][w].paper \in Papers
    BY <1>0 DEF InHand, AtFilter
  <2>2. QED BY <1>0, <1>1, <1>2, <2>1
<1>3. ASSUME NEW r \in Runs, NEW w \in Workers, FilterStep(r, w) PROVE TellsNext(r, w)
  <2>1. CASE FilterInit(r, w) \/ TakePill(r, w)
    BY <1>0, <2>1, GoesLeaves DEF FilterInit, TakePill
  <2>2. CASE FilterTakes(r, w) \/ CountVerdict(r, w)
    BY <1>0, <2>2, WorkerLeaves DEF FilterTakes, CountVerdict, Free
  <2>3. CASE CountError(r, w)
    BY <1>0, <2>3, GoesLeaves DEF CountError
  <2>4. CASE CleanUp(r, w)
    BY <1>0, <2>4, GoesLeaves, WorkerLeaves DEF CleanUp, Free
  <2>5. CASE Evaluate(r, w)
    <3>1. CASE Goes(r, w, "reading", "failing")
      BY <1>0, <3>1, GoesLeaves
    <3>2. ASSUME NEW v \in Verdict,
                 Worker(r, w, "reading",
                   [at |-> IF v = "keep" THEN "writing" ELSE "routing",
                    paper |-> work[r][w].paper, verdict |-> v])
          PROVE  TellsNext(r, w)
      BY <1>0, <3>2, WorkerLeaves
    <3>3. QED BY <2>5, <3>1, <3>2 DEF Evaluate
  <2>6. CASE WriteNote(r, w)
    BY <1>0, <2>6, GoesLeaves DEF WriteNote
  <2>7. CASE RouteFiles(r, w)
    <3>1. CASE Goes(r, w, "routing", "failing")
      BY <1>0, <3>1, GoesLeaves
    <3>2. CASE work[r][w].paper \in Clean /\ Goes(r, w, "routing", "auditing")
               /\ Moved(work[r][w].paper, "filtered")
      <4>1. work[r][w].paper \in Papers /\ "filtered" \in md'[work[r][w].paper]
        BY <1>0, <3>2 DEF Clean, Moved
      <4>2. /\ work[r][w].at = "routing" /\ work'[r][w].at = "auditing"
            /\ work'[r][w].paper = work[r][w].paper
            /\ work'[r][w].verdict = work[r][w].verdict
        BY <1>0, <3>2, GoesLeaves
      <4>3. QED BY <1>0, <1>1, <4>1, <4>2
    <3>3. QED BY <2>7, <3>1, <3>2 DEF RouteFiles
  <2>8. CASE RouteAudit(r, w)
    BY <1>0, <2>8, GoesLeaves DEF RouteAudit
  <2>9. QED
    BY <1>3, <2>1, <2>2, <2>3, <2>4, <2>5, <2>6, <2>7, <2>8 DEF FilterStep
<1>4. ASSUME NEW r \in Runs, NEW w \in Workers, FilterStep(r, w),
             NEW q \in Runs, NEW v \in Workers, <<q, v>> # <<r, w>>
      PROVE  work'[q][v] = work[q][v]
  BY <1>0, <1>4 DEF FilterStep, FilterInit, FilterTakes, TakePill, Evaluate, WriteNote,
      RouteFiles, RouteAudit, CountVerdict, CountError, CleanUp, Goes, Worker, WorkTyped
<1>5. ASSUME NEW q \in Runs, NEW v \in Workers PROVE TellsNext(q, v)
  <2>1. CASE \E r \in Runs, w \in Workers : FilterStep(r, w)
    BY <1>2, <1>3, <1>4, <2>1
  <2>2. CASE ~ \E r \in Runs, w \in Workers : FilterStep(r, w)
    BY <1>2, <2>2, OnlyFilterJudges
  <2>3. QED BY <2>1, <2>2
<1>6. QED BY <1>1, <1>5

\* A row is written by a worker that audits, which the other lemmas are about.
LEMMA RowsGrow ==
  ASSUME Typed, \A q \in Runs : InHand(q), [Next]_vars
  PROVE  \/ UNCHANGED audit
         \/ \E r \in Runs, w \in Workers, p \in Papers :
              /\ RouteAudit(r, w) /\ Alive(r)
              /\ work[r][w].at = "auditing" /\ work'[r][w].at = "counting"
              /\ work[r][w].paper = p
              /\ audit'[p] = Append(audit[p], work[r][w].verdict)
              /\ \A o \in Papers : o # p => audit'[o] = audit[o]
<1>0. WorkTyped /\ audit \in [Papers -> Seq(Verdict)]
  BY DEF Typed, FilesTyped
<1>1. ASSUME NEW r \in Runs, NEW w \in Workers, FilterStep(r, w), ~RouteAudit(r, w)
      PROVE  UNCHANGED audit
  BY <1>1 DEF FilterStep, FilterInit, FilterTakes, TakePill, Evaluate, WriteNote,
              RouteFiles, CountVerdict, CountError, CleanUp, files
<1>2. ASSUME NEW r \in Runs, NEW w \in Workers, RouteAudit(r, w), audit' # audit
      PROVE  \E p \in Papers :
              /\ RouteAudit(r, w) /\ Alive(r)
              /\ work[r][w].at = "auditing" /\ work'[r][w].at = "counting"
              /\ work[r][w].paper = p
              /\ audit'[p] = Append(audit[p], work[r][w].verdict)
              /\ \A o \in Papers : o # p => audit'[o] = audit[o]
  <2> DEFINE p == work[r][w].paper
             row == Append(audit[p], work[r][w].verdict)
  <2>1. Goes(r, w, "auditing", "counting") /\ audit' = [audit EXCEPT ![p] = row]
    BY <1>2 DEF RouteAudit
  <2>2. Alive(r) /\ work[r][w].at = "auditing" /\ work'[r][w].at = "counting"
    BY <1>0, <2>1, GoesLeaves
  <2>3. p \in Papers
    BY <2>2 DEF InHand, AtFilter
  <2>4. audit'[p] = row /\ \A o \in Papers : o # p => audit'[o] = audit[o]
    <3> HIDE DEF row
    <3>1. QED BY <1>0, <2>1, <2>3
  <2>5. QED BY <1>2, <2>2, <2>3, <2>4
<1>3. QED BY <1>1, <1>2, OnlyFilterJudges

LEMMA AuditTrueKept ==
  ASSUME Typed, \A q \in Runs : RunInv(q), RoutedIsTrue, AuditIsTrue, [Next]_vars
  PROVE  AuditIsTrue'
<1>0. /\ audit \in [Papers -> Seq(Verdict)] /\ WorkTyped
      /\ \A p \in Papers : "filtered" \in md[p] => "filtered" \in md'[p]
      /\ note \subseteq note'
      /\ \A r \in Runs : InHand(r)
  BY FilesGrow DEF Typed, FilesTyped, RunInv
<1>1. ASSUME NEW o \in Papers, audit'[o] = audit[o], NEW i \in DOMAIN audit'[o]
      PROVE  "filtered" \in md'[o] /\ (audit'[o][i] = "keep" => o \in note')
  BY <1>0, <1>1 DEF AuditIsTrue
<1>2. CASE UNCHANGED audit
  BY <1>1, <1>2 DEF AuditIsTrue
<1>3. ASSUME NEW r \in Runs, NEW w \in Workers, NEW p \in Papers,
             work[r][w].at = "auditing", work[r][w].paper = p,
             audit'[p] = Append(audit[p], work[r][w].verdict),
             \A o \in Papers : o # p => audit'[o] = audit[o]
      PROVE  AuditIsTrue'
  <2>1. "filtered" \in md'[p] /\ (work[r][w].verdict = "keep" => p \in note')
    BY <1>0, <1>3 DEF RoutedIsTrue
  <2>2. ASSUME NEW i \in DOMAIN audit'[p]
        PROVE  "filtered" \in md'[p] /\ (audit'[p][i] = "keep" => p \in note')
    <3>1. audit[p] \in Seq(Verdict) /\ work[r][w].verdict \in Verdict
      BY <1>0 DEF WorkTyped
    <3>2. \/ i \in DOMAIN audit[p] /\ audit'[p][i] = audit[p][i]
          \/ audit'[p][i] = work[r][w].verdict
      BY <1>3, <2>2, <3>1
    <3>3. QED BY <1>0, <2>1, <3>2 DEF AuditIsTrue
  <2>3. QED BY <1>1, <1>3, <2>2 DEF AuditIsTrue
<1>4. QED BY <1>0, <1>2, <1>3, RowsGrow

-----------------------------------------------------------------------------
(* One process at a time, and one row for a paper *)

LEMMA RunningIsKept ==
  ASSUME Typed, [Next]_vars
  PROVE  /\ UNCHANGED server
         /\ blind \subseteq blind'
         /\ \A q \in Runs : main'[q] = "running" =>
              \/ main[q] = "running"
              \/ /\ StartRun(q) /\ (server \/ \A o \in Runs : main[o] # "running")
                 /\ \A o \in Runs : o # q => main'[o] = main[o]
         /\ (\A q \in Runs : ~StartRun(q)) => UNCHANGED seen
<1>0. StartTyped
  BY DEF Typed
<1> DEFINE Kept == /\ UNCHANGED server /\ UNCHANGED blind /\ UNCHANGED seen
                   /\ \A q \in Runs : main'[q] = "running" => main[q] = "running"
<1>1. ASSUME NEW r \in Runs, DownloadStep(r) PROVE Kept
  BY <1>1 DEF DownloadStep, CheckRecord, OpenPdf, ClosePdf, EnqueuePdf, NoPdfDirectory,
              CloseDownload, start
<1>2. ASSUME NEW r \in Runs, ConvertStep(r) PROVE Kept
  BY <1>2 DEF ConvertStep, ConvertInit, ConvertTakes, ConvertOk, ConvertFails,
              ConvertPuts, ConvertCloses, start
<1>3. ASSUME NEW r \in Runs, NEW w \in Workers, FilterStep(r, w) PROVE Kept
  BY <1>3 DEF FilterStep, FilterInit, FilterTakes, TakePill, Evaluate, WriteNote,
              RouteFiles, RouteAudit, CountVerdict, CountError, CleanUp, start
<1>4. ASSUME NEW r \in Runs, MainStep(r) PROVE Kept
  BY <1>0, <1>4 DEF MainStep, MainReturns, MainRaises, Ends, StartTyped
<1>5. CASE Crash \/ UNCHANGED vars
  BY <1>5 DEF Crash, vars, start
<1>6. ASSUME NEW r \in Runs, StartRun(r)
      PROVE  /\ UNCHANGED server /\ blind \subseteq blind'
             /\ server \/ \A o \in Runs : main[o] # "running"
             /\ \A o \in Runs : o # r => main'[o] = main[o]
  BY <1>0, <1>6 DEF StartRun, StartTyped
<1>7. QED BY <1>1, <1>2, <1>3, <1>4, <1>5, <1>6 DEF Next

LEMMA OneProcessKept ==
  ASSUME Typed, OneProcess, [Next]_vars
  PROVE  OneProcess'
BY RunningIsKept DEF OneProcess

\* No step of a stage gives its run a paper to judge that it had not.
LEMMA DownloadToJudge ==
  ASSUME Typed, NEW r \in Runs, RunInv(r), DownloadStep(r), NEW p \in Papers, ToJudge(r, p)'
  PROVE  ToJudge(r, p)
<1>0. RecordTyped /\ pdfQueue \in [Runs -> Seq(Item)] /\ pdfQueue[r] \in Seq(Item)
  BY DEF Typed, QueueTyped
<1>1. UNCHANGED <<conv[r], work[r]>> /\ UNCHANGED <<mdQueue[r]>> /\ UNCHANGED seen
  BY DEF DownloadStep, CheckRecord, OpenPdf, ClosePdf, EnqueuePdf, NoPdfDirectory,
         CloseDownload, start, queues
<1>2. /\ \A o : Converting(r, o)' <=> Converting(r, o)
      /\ \A w, o : Holding(r, w, o)' <=> Holding(r, w, o)
  BY <1>1, SamePlaces
<1>3. ASSUME NEW o \in Papers, CheckRecord(r, o) \/ OpenPdf(r, o) \/ ClosePdf(r, o)
      PROVE  ToJudge(r, p)
  <2>1. UNCHANGED pdfQueue
    BY <1>3 DEF CheckRecord, OpenPdf, ClosePdf, queues
  <2>2. CASE p # o
    <3>1. record'[r][p] = record[r][p]
      BY <1>0, <1>3, <2>2 DEF CheckRecord, OpenPdf, ClosePdf, Recorded, RecordTyped
    <3>2. QED BY <1>1, <1>2, <2>1, <3>1 DEF ToJudge
  <2>3. CASE p = o
    <3>1. \/ IsSeenPaper(r, p) /\ record'[r][p] = "skipped"
          \/ ~IsSeenPaper(r, p) /\ record[r][p] = "pending"
          \/ record[r][p] \in {"waiting", "writing"}
      BY <1>0, <1>3, <2>3 DEF CheckRecord, OpenPdf, ClosePdf, Recorded, RecordTyped
    <3>2. QED BY <1>1, <1>2, <2>1, <3>1 DEF ToJudge, IsSeenPaper
  <2>4. QED BY <2>2, <2>3
<1>4. ASSUME NEW o \in Papers, EnqueuePdf(r, o) PROVE ToJudge(r, p)
  <2>1. /\ record[r][o] = "ready" /\ record'[r][o] = "queued"
        /\ \A x \in Papers : x # o => record'[r][x] = record[r][x]
        /\ pdfQueue'[r] = Append(pdfQueue[r], o)
    BY <1>0, <1>4 DEF EnqueuePdf, Recorded, RecordTyped
  <2>2. \A y : In(y, pdfQueue'[r]) <=> In(y, pdfQueue[r]) \/ y = o
    BY <1>0, <2>1, AppendedIs, NamesDiffer
  <2>3. QED BY <1>1, <1>2, <2>1, <2>2 DEF ToJudge
<1>5. CASE NoPdfDirectory(r) \/ CloseDownload(r)
  <2>1. /\ pdfQueue'[r] = Append(pdfQueue[r], Pill)
        /\ record'[r][p] = record[r][p] \/ record'[r][p] = "no"
    BY <1>0, <1>5 DEF NoPdfDirectory, CloseDownload, RecordTyped
  <2>2. \A y : In(y, pdfQueue'[r]) <=> In(y, pdfQueue[r]) \/ y = Pill
    BY <1>0, <2>1, AppendedIs, NamesDiffer
  <2>3. QED BY <1>1, <1>2, <2>1, <2>2, NamesDiffer DEF ToJudge
<1>6. QED BY <1>3, <1>4, <1>5 DEF DownloadStep

LEMMA ConvertToJudge ==
  ASSUME Typed, NEW r \in Runs, RunInv(r), ConvertStep(r), NEW p \in Papers, ToJudge(r, p)'
  PROVE  ToJudge(r, p)
<1>0. /\ ConvTyped /\ pdfQueue \in [Runs -> Seq(Item)] /\ mdQueue \in [Runs -> Seq(Item)]
      /\ pdfQueue[r] \in Seq(Item) /\ mdQueue[r] \in Seq(Item)
  BY DEF Typed, QueueTyped
<1>1. UNCHANGED <<record[r], work[r]>> /\ UNCHANGED seen
  BY DEF ConvertStep, ConvertInit, ConvertTakes, ConvertOk, ConvertFails, ConvertPuts,
         ConvertCloses, start, download
<1>2. \A w, o : Holding(r, w, o)' <=> Holding(r, w, o)
  BY <1>1 DEF Holding
<1>4. CASE ConvertInit(r) \/ ConvertFails(r)
  <2>1. UNCHANGED <<pdfQueue[r], mdQueue[r]>>
    BY <1>4 DEF ConvertInit, ConvertFails, queues
  <2>2. ~Converting(r, p)'
    BY <1>0, <1>4, ConverterLeaves DEF ConvertInit, ConvertFails, Idle, Converting
  <2>3. QED BY <1>1, <1>2, <2>1, <2>2 DEF ToJudge
<1>5. CASE ConvertTakes(r)
  <2>1. /\ pdfQueue[r] # <<>> /\ pdfQueue'[r] = Tail(pdfQueue[r]) /\ UNCHANGED <<mdQueue[r]>>
    BY <1>0, <1>5 DEF ConvertTakes
  <2>2. conv'[r] \in {Idle("closing"), Idle("get"),
                      [at |-> "converting", paper |-> Head(pdfQueue[r])]}
    BY <1>0, <1>5, ConverterLeaves DEF ConvertTakes
  <2>3. Converting(r, p)' => p = Head(pdfQueue[r])
    BY <2>2 DEF Converting, Idle
  <2>4. \A y : In(y, pdfQueue[r]) <=> In(y, pdfQueue'[r]) \/ y = Head(pdfQueue[r])
    BY <1>0, <2>1, TakenIs
  <2>5. QED BY <1>1, <1>2, <2>1, <2>3, <2>4 DEF ToJudge
<1>6. CASE ConvertOk(r)
  <2>1. UNCHANGED <<pdfQueue[r], mdQueue[r]>>
    BY <1>6 DEF ConvertOk, queues
  <2>2. conv[r].at = "converting" /\ conv'[r] = [conv[r] EXCEPT !.at = "putting"]
    BY <1>0, <1>6, ConverterLeaves DEF ConvertOk
  <2>3. Converting(r, p)' => Converting(r, p)
    <3>1. conv[r] \in [at : ConvertState, paper : Item]
      BY <1>0 DEF ConvTyped
    <3>2. QED BY <2>2, <3>1 DEF Converting
  <2>4. QED BY <1>1, <1>2, <2>1, <2>3 DEF ToJudge
<1>7. CASE ConvertPuts(r)
  <2>1. /\ conv[r].at = "putting" /\ conv'[r] = Idle("get")
        /\ UNCHANGED <<pdfQueue[r]>> /\ mdQueue'[r] = Append(mdQueue[r], conv[r].paper)
    BY <1>0, <1>7, ConverterLeaves DEF ConvertPuts
  <2>2. conv[r].paper \in Item
    BY <1>0 DEF ConvTyped
  <2>3. \A y : In(y, mdQueue'[r]) <=> In(y, mdQueue[r]) \/ y = conv[r].paper
    BY <1>0, <2>1, <2>2, AppendedIs
  <2>4. ~Converting(r, p)' /\ (p = conv[r].paper => Converting(r, p))
    BY <2>1 DEF Converting, Idle
  <2>5. QED BY <1>1, <1>2, <2>1, <2>3, <2>4 DEF ToJudge
<1>8. CASE ConvertCloses(r)
  <2>1. /\ conv'[r] = Idle("stopped")
        /\ UNCHANGED <<pdfQueue[r]>> /\ mdQueue'[r] = Append(mdQueue[r], Pill)
    BY <1>0, <1>8, ConverterLeaves DEF ConvertCloses
  <2>2. \A y : In(y, mdQueue'[r]) <=> In(y, mdQueue[r]) \/ y = Pill
    BY <1>0, <2>1, AppendedIs, NamesDiffer
  <2>3. ~Converting(r, p)'
    BY <2>1 DEF Converting, Idle
  <2>4. QED BY <1>1, <1>2, <2>1, <2>2, <2>3, NamesDiffer DEF ToJudge
<1>9. QED BY <1>4, <1>5, <1>6, <1>7, <1>8 DEF ConvertStep

LEMMA FilterToJudge ==
  ASSUME Typed, NEW r \in Runs, NEW w \in Workers, RunInv(r), FilterStep(r, w),
         NEW p \in Papers, ToJudge(r, p)'
  PROVE  ToJudge(r, p)
<1>0. WorkTyped /\ mdQueue \in [Runs -> Seq(Item)] /\ mdQueue[r] \in Seq(Item)
  BY DEF Typed, QueueTyped
<1>1. UNCHANGED <<record[r], conv[r], pdfQueue[r]>> /\ UNCHANGED seen
  BY DEF FilterStep, FilterInit, FilterTakes, TakePill, Evaluate, WriteNote, RouteFiles,
         RouteAudit, CountVerdict, CountError, CleanUp, start, download, queues
<1>2. Converting(r, p)' <=> Converting(r, p)
  BY <1>1 DEF Converting
<1>3. \A v \in Workers : v # w => work'[r][v] = work[r][v]
  BY <1>0 DEF FilterStep, FilterInit, FilterTakes, TakePill, Evaluate, WriteNote, RouteFiles,
         RouteAudit, CountVerdict, CountError, CleanUp, Goes, Worker, WorkTyped
<1> DEFINE Judging(v) == Holding(r, v, p) /\ work[r][v].at # "counting"
           JudgingNext(v) == Holding(r, v, p)' /\ work'[r][v].at # "counting"
<1>4. \A v \in Workers : v # w => (JudgingNext(v) <=> Judging(v))
  BY <1>3 DEF Holding
<1>5. ASSUME mdQueue'[r] = mdQueue[r], JudgingNext(w) => Judging(w) PROVE ToJudge(r, p)
  BY <1>1, <1>2, <1>4, <1>5 DEF ToJudge
<1>6. CASE FilterTakes(r, w)
  <2>1. mdQueue[r] # <<>> /\ mdQueue'[r] = Tail(mdQueue[r])
    BY <1>0, <1>6 DEF FilterTakes
  <2>2. work'[r][w].paper = Head(mdQueue[r])
    BY <1>0, <1>6, WorkerLeaves DEF FilterTakes
  <2>3. \A y : In(y, mdQueue[r]) <=> In(y, mdQueue'[r]) \/ y = Head(mdQueue[r])
    BY <1>0, <2>1, TakenIs
  <2>4. JudgingNext(w) => In(p, mdQueue[r])
    BY <2>2, <2>3 DEF Holding
  <2>5. QED BY <1>1, <1>2, <1>4, <2>3, <2>4 DEF ToJudge
<1>7. ASSUME ~FilterTakes(r, w)
      PROVE  mdQueue'[r] = mdQueue[r] /\ (JudgingNext(w) => Judging(w))
  <2>1. mdQueue'[r] = mdQueue[r]
    BY <1>7 DEF FilterStep, FilterInit, TakePill, Evaluate, WriteNote, RouteFiles,
         RouteAudit, CountVerdict, CountError, CleanUp, queues
  <2>2. \/ work'[r][w].at \notin AtFilter \ {"counting"}
        \/ /\ work'[r][w].paper = work[r][w].paper
           /\ work[r][w].at \in AtFilter \ {"counting"}
    <3>1. CASE FilterInit(r, w) \/ TakePill(r, w)
      BY <1>0, <3>1, GoesLeaves DEF FilterInit, TakePill, AtFilter
    <3>2. CASE CleanUp(r, w)
      BY <1>0, <3>2, GoesLeaves, WorkerLeaves DEF CleanUp, Free, AtFilter
    <3>3. CASE CountVerdict(r, w)
      BY <1>0, <3>3, WorkerLeaves DEF CountVerdict, Free, AtFilter
    <3>4. CASE CountError(r, w)
      BY <1>0, <3>4, GoesLeaves DEF CountError, AtFilter
    <3>5. CASE WriteNote(r, w)
      BY <1>0, <3>5, GoesLeaves DEF WriteNote, AtFilter
    <3>6. CASE RouteFiles(r, w)
      BY <1>0, <3>6, GoesLeaves DEF RouteFiles, AtFilter
    <3>7. CASE RouteAudit(r, w)
      BY <1>0, <3>7, GoesLeaves DEF RouteAudit, AtFilter
    <3>8. CASE Evaluate(r, w)
      <4>1. CASE Goes(r, w, "reading", "failing")
        BY <1>0, <4>1, GoesLeaves DEF AtFilter
      <4>2. ASSUME NEW v \in Verdict,
                   Worker(r, w, "reading",
                     [at |-> IF v = "keep" THEN "writing" ELSE "routing",
                      paper |-> work[r][w].paper, verdict |-> v])
            PROVE  work'[r][w].paper = work[r][w].paper /\ work[r][w].at = "reading"
        BY <1>0, <4>2, WorkerLeaves
      <4>3. QED BY <3>8, <4>1, <4>2 DEF Evaluate, AtFilter
    <3>9. QED
      BY <1>7, <3>1, <3>2, <3>3, <3>4, <3>5, <3>6, <3>7, <3>8 DEF FilterStep
  <2>3. QED BY <2>1, <2>2 DEF Holding
<1>8. QED BY <1>5, <1>6, <1>7

\* Whoever started or went on: a run that runs, with a paper to judge, that had none to
\* judge before is a run that starts now, with the audit log just read.
LEMMA NewToJudge ==
  ASSUME Typed, \A q \in Runs : RunInv(q), [Next]_vars, blind' = {},
         NEW r \in Runs, NEW p \in Papers, main'[r] = "running", ToJudge(r, p)'
  PROVE  \/ main[r] = "running" /\ ToJudge(r, p)
         \/ StartRun(r) /\ audit[p] = <<>>
<1>0. StartTyped /\ RunInv(r) /\ RecordTyped
  BY DEF Typed
<1>1. ASSUME UNCHANGED Local(r), UNCHANGED <<seen[r]>>
      PROVE  main[r] = "running" /\ ToJudge(r, p)
  BY <1>1 DEF Local, ToJudge, Converting, Holding
<1>2. ASSUME NEW q \in Runs, StartRun(q)
      PROVE  \/ main[r] = "running" /\ ToJudge(r, p)
             \/ StartRun(r) /\ audit[p] = <<>>
  <2>1. CASE q # r
    <3>1. UNCHANGED Local(r)
      BY <1>2, <2>1, OthersSame
    <3>2. UNCHANGED <<seen[r]>>
      BY <1>0, <1>2, <2>1 DEF StartRun, StartTyped
    <3>3. QED BY <1>1, <3>1, <3>2
  <2>2. CASE q = r
    <3>1. seen'[r] = Audited
      BY <1>0, <1>2, <2>2 DEF StartRun, StartTyped
    <3>2. /\ conv[r] = Idle("init") /\ work[r] = [w \in Workers |-> Free("init")]
          /\ pdfQueue[r] = <<>> /\ mdQueue[r] = <<>>
      BY <1>0, <1>2, <2>2 DEF StartRun, RunInv, NotStarted
    <3>3. UNCHANGED <<conv, work>> /\ UNCHANGED <<pdfQueue, mdQueue>>
      BY <1>2, <2>2 DEF StartRun, queues
    <3>4. /\ ~Converting(r, p)' /\ ~In(p, pdfQueue'[r]) /\ ~In(p, mdQueue'[r])
          /\ \A w \in Workers : ~Holding(r, w, p)'
      BY <3>2, <3>3, EmptyPlaces DEF Converting, Holding
    <3>5. record'[r][p] \in {"no", "pending"}
      BY <1>0, <1>2, <2>2 DEF StartRun, RecordTyped
    <3>6. p \notin Audited
      BY <3>1, <3>4, <3>5 DEF ToJudge
    <3>7. QED BY <1>2, <2>2, <3>6 DEF Audited
  <2>3. QED BY <2>1, <2>2
<1>3. ASSUME NEW q \in Runs,
             \/ DownloadStep(q) \/ ConvertStep(q) \/ MainStep(q)
             \/ \E w \in Workers : FilterStep(q, w)
      PROVE  main[r] = "running" /\ ToJudge(r, p)
  <2>1. UNCHANGED seen
    BY <1>3 DEF MainStep, MainReturns, MainRaises, Ends, DownloadStep, CheckRecord, OpenPdf,
         ClosePdf, EnqueuePdf, NoPdfDirectory, CloseDownload, ConvertStep, ConvertInit,
         ConvertTakes, ConvertOk, ConvertFails, ConvertPuts, ConvertCloses, FilterStep,
         FilterInit, FilterTakes, TakePill, Evaluate, WriteNote, RouteFiles, RouteAudit,
         CountVerdict, CountError, CleanUp, start
  <2>2. CASE q # r
    BY <1>1, <1>3, <2>1, <2>2, OthersSame
  <2>3. CASE q = r /\ MainStep(r)
    BY <1>0, <2>3 DEF MainStep, MainReturns, MainRaises, Ends, StartTyped
  <2>4. CASE q = r /\ ~MainStep(r)
    <3>1. ToJudge(r, p)
      BY <1>0, <1>3, <2>4, DownloadToJudge, ConvertToJudge, FilterToJudge
    <3>2. UNCHANGED main
      BY <1>3, <2>4 DEF DownloadStep, CheckRecord, OpenPdf,
         ClosePdf, EnqueuePdf, NoPdfDirectory, CloseDownload, ConvertStep, ConvertInit,
         ConvertTakes, ConvertOk, ConvertFails, ConvertPuts, ConvertCloses, FilterStep,
         FilterInit, FilterTakes, TakePill, Evaluate, WriteNote, RouteFiles, RouteAudit,
         CountVerdict, CountError, CleanUp, start
    <3>3. QED BY <3>1, <3>2
  <2>5. QED BY <2>2, <2>3, <2>4
<1>4. CASE Crash
  <2>1. /\ main[r] = "running"
        /\ UNCHANGED <<record, conv, work>> /\ UNCHANGED <<pdfQueue, mdQueue>> /\ UNCHANGED seen
    BY <1>4 DEF Crash, download, queues
  <2>2. QED BY <2>1 DEF ToJudge, Converting, Holding
<1>5. CASE UNCHANGED vars
  <2>1. UNCHANGED Local(r) /\ UNCHANGED <<seen[r]>>
    BY <1>5 DEF vars, Local, start, download, queues, counts
  <2>2. QED BY <1>1, <2>1
<1>6. QED BY <1>2, <1>3, <1>4, <1>5 DEF Next

LEMMA JudgedKept ==
  ASSUME Typed, \A q \in Runs : RunInv(q), OneProcess, Unjudged, AuditedOnce, [Next]_vars
  PROVE  Unjudged' /\ AuditedOnce'
<1> SUFFICES ASSUME ~server', blind' = {}
             PROVE  /\ \A r \in Runs, p \in Papers :
                         main'[r] = "running" /\ ToJudge(r, p)' => audit'[p] = <<>>
                    /\ \A p \in Papers : Len(audit'[p]) <= 1
  BY DEF Unjudged, AuditedOnce
<1>0. /\ ~server /\ blind = {} /\ audit \in [Papers -> Seq(Verdict)]
      /\ \A r \in Runs : InHand(r) /\ OnePlace(r)
  BY RunningIsKept DEF Typed, FilesTyped, RunInv
<1>1. ASSUME NEW r \in Runs, NEW p \in Papers, main'[r] = "running", ToJudge(r, p)'
      PROVE  audit[p] = <<>>
  BY <1>0, <1>1, NewToJudge DEF Unjudged
<1>2. CASE UNCHANGED audit
  BY <1>0, <1>1, <1>2 DEF AuditedOnce
<1>3. ASSUME NEW r \in Runs, NEW w \in Workers, NEW p \in Papers,
             RouteAudit(r, w), Alive(r),
             work[r][w].at = "auditing", work'[r][w].at = "counting", work[r][w].paper = p,
             audit'[p] = Append(audit[p], work[r][w].verdict),
             \A o \in Papers : o # p => audit'[o] = audit[o]
      PROVE  /\ \A q \in Runs, o \in Papers :
                  main'[q] = "running" /\ ToJudge(q, o)' => audit'[o] = <<>>
             /\ \A o \in Papers : Len(audit'[o]) <= 1
  <2>1. main[r] = "running"
    BY <1>0, <1>3 DEF Alive
  <2>2. Holding(r, w, p) /\ ToJudge(r, p)
    BY <1>3 DEF Holding, AtFilter, ToJudge
  <2>3. audit[p] = <<>>
    BY <1>0, <2>1, <2>2 DEF Unjudged
  <2>4. Len(audit'[p]) <= 1
    <3>1. work[r][w].verdict \in Verdict
      BY DEF Typed, WorkTyped
    <3>2. Len(audit'[p]) = Len(audit[p]) + 1 /\ Len(audit[p]) = 0
      BY <1>0, <1>3, <2>3, <3>1, AppendedIs, EmptyIs
    <3>3. QED BY <3>2
  <2>5. \A q \in Runs : main'[q] = "running" => q = r
    <3>1. UNCHANGED main
      BY <1>3 DEF RouteAudit, start
    <3>2. QED BY <1>0, <2>1, <3>1 DEF OneProcess
  <2>6. ~ToJudge(r, p)'
    <3>1. /\ record[r][p] = "queued" /\ ~In(p, pdfQueue[r]) /\ ~Converting(r, p)
          /\ ~In(p, mdQueue[r]) /\ \A v \in Workers : Holding(r, v, p) => v = w
      BY <1>0, <2>2 DEF OnePlace
    <3>2. /\ UNCHANGED <<record[r], conv[r]>> /\ UNCHANGED <<pdfQueue[r], mdQueue[r]>>
          /\ \A v \in Workers : v # w => work'[r][v] = work[r][v]
      BY <1>3, GoesLeaves DEF RouteAudit, download, queues, Typed
    <3>3. \A v \in Workers : Holding(r, v, p)' => v = w
      BY <3>1, <3>2 DEF Holding
    <3>4. ~Converting(r, p)' /\ ~In(p, pdfQueue'[r]) /\ ~In(p, mdQueue'[r])
          /\ record'[r][p] = "queued"
      BY <3>1, <3>2 DEF Converting
    <3>5. QED BY <1>3, <3>3, <3>4 DEF ToJudge
  <2>7. QED BY <1>0, <1>1, <1>3, <2>4, <2>5, <2>6 DEF AuditedOnce
<1>4. QED BY <1>0, <1>2, <1>3, RowsGrow

-----------------------------------------------------------------------------
(* Theorems *)

LEMMA InitialInv == Init => IInv
<1> SUFFICES ASSUME Init PROVE IInv
  OBVIOUS
<1>1. Typed /\ \A q \in Runs : RunInv(q)
  BY InitialRuns
<1>2. RoutedIsTrue
  BY DEF Init, RoutedIsTrue, Free
<1>3. OneProcess
  BY DEF Init, OneProcess
<1>4. \A p \in Papers : audit[p] = <<>> /\ Len(audit[p]) = 0 /\ DOMAIN audit[p] = {}
  BY DEF Init
<1>5. AuditIsTrue /\ AuditedOnce /\ Unjudged
  BY <1>4 DEF AuditIsTrue, AuditedOnce, Unjudged
<1>6. QED BY <1>1, <1>2, <1>3, <1>5, TypeOKIsTyped DEF IInv

LEMMA InductiveInv == IInv /\ [Next]_vars => IInv'
<1> SUFFICES ASSUME IInv, [Next]_vars PROVE IInv'
  OBVIOUS
<1>1. Typed /\ \A q \in Runs : RunInv(q)
  BY TypeOKIsTyped DEF IInv
<1>2. Typed' /\ (\A q \in Runs : RunInv(q)')
  BY <1>1, TypesKept, RunsKept
<1>3. TypeOK'
  BY <1>2, TypeOKIsTyped, PTL
<1>4. RoutedIsTrue' /\ AuditIsTrue'
  BY <1>1, RoutedKept, AuditTrueKept DEF IInv
<1>5. OneProcess' /\ Unjudged' /\ AuditedOnce'
  BY <1>1, OneProcessKept, JudgedKept DEF IInv
<1>6. QED BY <1>2, <1>3, <1>4, <1>5 DEF IInv

\* The invariant of the pipeline: what its states satisfy together.
THEOREM Invariance == Spec => []IInv
<1>1. QED BY InitialInv, InductiveInv, PTL DEF Spec

\* The files, the queues and the stages stay in their ranges: the queues of
\* daily_chimera_service.py never hold more than maxsize, for any number of papers,
\* runs and workers, the pill put back by a worker included.
THEOREM TypesHold == Spec => []TypeOK
<1>1. IInv => TypeOK
  BY DEF IInv
<1>2. QED BY <1>1, Invariance, PTL

\* A run that returned counted every paper its converter handed on exactly once, as
\* filtered or as an error: nothing is left between the two counts once the queues are
\* drained up to the pill and every worker has stopped in front of it.
THEOREM CountsAddUp == Spec => []StatsAddUp
<1>1. ASSUME IInv PROVE StatsAddUp
  <2> SUFFICES ASSUME NEW r \in Runs, main[r] = "ok"
               PROVE  total[r] + errors[r] = ingested[r]
    BY DEF StatsAddUp
  <2>1. /\ GatherDone(r) /\ PillsEnd(r) /\ Accounted(r)
        /\ mdQueue[r] \in Seq(Item) /\ CountsTyped
    BY <1>1, TypeOKIsTyped DEF IInv, RunInv, Typed, QueueTyped
  <2>2. mdQueue[r] # <<>> /\ Head(mdQueue[r]) = Pill
    <3>1. PICK w : w \in Workers
      BY PipelineAssumption
    <3>2. work[r][w].at = "stopped"
      BY <2>1, <3>1 DEF GatherDone
    <3>3. QED BY <2>1, <3>1, <3>2 DEF PillsEnd
  <2>3. \A p \in Papers : ~In(p, mdQueue[r])
    <3>1. Tail(mdQueue[r]) = <<>>
      BY <2>1, <2>2, TakenIs DEF PillsEnd
    <3>2. \A y : ~In(y, Tail(mdQueue[r]))
      BY <3>1 DEF In
    <3>3. QED BY <2>1, <2>2, <3>2, TakenIs, NamesDiffer
  <2>4. Pending(r) = {}
    <3>1. \A p : ~Putting(r, p)
      BY <2>1 DEF GatherDone, Putting
    <3>2. \A p : \A w \in Workers : ~Holding(r, w, p)
      BY <2>1 DEF GatherDone, Holding, AtFilter
    <3>3. QED BY <2>3, <3>1, <3>2 DEF Pending
  <2>5. ingested[r] = total[r] + errors[r] + 0
    BY <2>1, <2>4, FS_EmptySet DEF Accounted
  <2>6. QED BY <2>1, <2>5 DEF CountsTyped
<1>2. QED BY <1>1, Invariance, PTL

\* No queue has a paper behind its pill, and a converter that took the pill leaves no
\* paper of its run behind it.
THEOREM PillsAreLast == Spec => []PillIsLast
<1>1. ASSUME IInv PROVE PillIsLast
  BY <1>1 DEF IInv, RunInv, PillsEnd, PillAtEnd, In, PillIsLast, DownloadsOver
<1>2. QED BY <1>1, Invariance, PTL

\* Every row of audit_log.csv tells of Markdown that was routed, and one that says keep
\* of a note that was written, whatever failed or crashed on the way.
THEOREM AuditTellsTheTruth == Spec => []AuditIsTrue
<1>1. IInv => AuditIsTrue
  BY DEF IInv
<1>2. QED BY <1>1, Invariance, PTL

\* A paper is judged once by runs that could read the audit log and came one after the
\* other, however many of them crashed or failed halfway.
THEOREM JudgedOnce == Spec => []AuditedOnce
<1>1. IInv => AuditedOnce
  BY DEF IInv
<1>2. QED BY <1>1, Invariance, PTL
=============================================================================
