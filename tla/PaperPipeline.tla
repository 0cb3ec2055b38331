----------------------------- MODULE PaperPipeline -----------------------------
(***************************************************************************)
(* crucible/services/daily_chimera_service.py and what it drives: a run    *)
(* downloads PDFs, converts them with MinerU and filters them with an LLM, *)
(* three stages joined by two bounded queues.  The stages of all runs work *)
(* on the same files, which survive them: the PDF directory, the clean and *)
(* the routed Markdown, the vault's notes and audit_log.csv.               *)
(*                                                                         *)
(* A run is started by scripts/run_daily.py, a process of its own whose    *)
(* asyncio.run stops what is left when a stage has raised, or by the       *)
(* daily_paper_pipeline tool inside the Oligo server (server), where       *)
(* nothing stops the sibling stages and nothing keeps two runs apart.      *)
(***************************************************************************)
EXTENDS Naturals, Sequences, FiniteSets

CONSTANTS
  Papers,   \* arXiv ids
  Runs,     \* the runs of the pipeline, in any order
  Workers,  \* the filter workers of a run (3 in the code)
  QueueCap, \* maxsize of pdf_queue and md_queue (5 in the code)
  Slots     \* the download semaphore (3 in the code)

ASSUME PipelineAssumption ==
  /\ QueueCap \in Nat \ {0}
  /\ Slots \in Nat \ {0}
  /\ "None" \notin Papers
  /\ Workers # {}

VARIABLES
  pdf,      \* the papers with a file in the PDF directory, complete or not
  md,       \* [Papers -> SUBSET {clean, filtered, failed}], where its Markdown is
  note,     \* the papers with a note in the vault
  audit,    \* [Papers -> Seq(Verdict)], its rows in audit_log.csv
  main,     \* [Runs -> ...], _run_pipelined_async
  seen,     \* [Runs -> SUBSET Papers], the seen_ids loaded when the run began
  blind,    \* the runs that could not read the audit log
  server,   \* do the runs live in the Oligo server (it never changes)
  record,   \* [Runs -> [Papers -> ...]], the download of each record
  down,     \* [Runs -> fetching, stopped], download_pdfs_to_queue
  conv,     \* [Runs -> [at, paper]], convert_queue_worker
  work,     \* [Runs -> [Workers -> [at, paper, verdict]]], filter_queue_worker
  pdfQueue, mdQueue,  \* [Runs -> Seq(Papers or None)]
  downloaded, ingested, total, errors  \* [Runs -> Nat], the counts it reports

files == <<pdf, md, note, audit>>
counts == <<downloaded, ingested, total, errors>>
start == <<main, seen, blind, server>>
download == <<record, down>>
queues == <<pdfQueue, mdQueue>>
vars == <<files, start, download, conv, work, queues, counts>>

Pill == "None"
Verdict == {"keep", "reject"}     \* keep: MUST_READ or SKIM
NoPaper == "None"
Idle(at) == [at |-> at, paper |-> NoPaper]
Free(at) == [at |-> at, paper |-> NoPaper, verdict |-> "reject"]

Init ==
  /\ pdf = {}
  /\ md = [p \in Papers |-> {}]
  /\ note = {}
  /\ audit = [p \in Papers |-> <<>>]
  /\ main = [r \in Runs |-> "idle"]
  /\ seen = [r \in Runs |-> {}]
  /\ blind = {}
  /\ server \in BOOLEAN
  /\ record = [r \in Runs |-> [p \in Papers |-> "no"]]
  /\ down = [r \in Runs |-> "fetching"]
  /\ conv = [r \in Runs |-> Idle("init")]
  /\ work = [r \in Runs |-> [w \in Workers |-> Free("init")]]
  /\ pdfQueue = [r \in Runs |-> <<>>]
  /\ mdQueue = [r \in Runs |-> <<>>]
  /\ downloaded = [r \in Runs |-> 0] /\ ingested = [r \in Runs |-> 0]
  /\ total = [r \in Runs |-> 0] /\ errors = [r \in Runs |-> 0]

\* The stages of a run go on while it runs, and in the server also behind its back
\* once it has failed.  (asyncio.run lets a call that is already in a thread return:
\* as if it had returned before the failure.)
Alive(r) == main[r] = "running" \/ (server /\ main[r] = "failed")

Audited == {p \in Papers : audit[p] # <<>>}

\* ArxivFetcher reads the audit log, an unreadable one as an empty one; then
\* fetch_metadata brings some records, or none.
StartRun(r) ==
  /\ main[r] = "idle"
  /\ server \/ \A q \in Runs : main[q] # "running"
  /\ main' = [main EXCEPT ![r] = "running"]
  /\ \/ seen' = [seen EXCEPT ![r] = Audited] /\ UNCHANGED blind
     \/ blind' = blind \cup {r} /\ UNCHANGED seen
  /\ \E found \in SUBSET Papers :
       record' = [record EXCEPT ![r] =
                    [p \in Papers |-> IF p \in found THEN "pending" ELSE "no"]]
  /\ UNCHANGED <<server, files, down, conv, work, queues, counts>>

-----------------------------------------------------------------------------
(* Download *)

Recorded(r, p, from, to) ==
  /\ Alive(r)
  /\ record[r][p] = from
  /\ record' = [record EXCEPT ![r][p] = to]

IsSeenPaper_Never(r, p) == FALSE

IsSeenPaper(r, p) == p \in seen[r]

\* The directory cannot be made: the stage ends before its first download.
NoPdfDirectory(r) ==
  /\ Alive(r) /\ down[r] = "fetching"
  /\ \A p \in Papers : record[r][p] \in {"no", "pending"}
  /\ record' = [record EXCEPT ![r] = [p \in Papers |-> "no"]]
  /\ pdfQueue' = [pdfQueue EXCEPT ![r] = Append(@, Pill)]
  /\ down' = [down EXCEPT ![r] = "stopped"]
  /\ UNCHANGED <<files, start, conv, work, mdQueue, counts>>

\* A file left by an earlier download, complete or not, counts as downloaded.
CheckRecord(r, p) ==
  /\ \/ IsSeenPaper(r, p) /\ Recorded(r, p, "pending", "skipped")
     \/ ~IsSeenPaper(r, p) /\ p \in pdf /\ Recorded(r, p, "pending", "ready")
     \/ ~IsSeenPaper(r, p) /\ p \notin pdf /\ Recorded(r, p, "pending", "waiting")
  /\ UNCHANGED <<files, start, down, conv, work, queues, counts>>

\* The semaphore is taken and the file opened, or the request fails before that.
OpenPdf(r, p) ==
  /\ Cardinality({q \in Papers : record[r][q] = "writing"}) < Slots
  /\ \/ Recorded(r, p, "waiting", "writing") /\ pdf' = pdf \cup {p}
     \/ Recorded(r, p, "waiting", "skipped") /\ UNCHANGED pdf
  /\ UNCHANGED <<md, note, audit, start, down, conv, work, queues, counts>>

\* The last chunk is written, or the connection breaks: the file stays as it is.
ClosePdf(r, p) ==
  /\ Recorded(r, p, "writing", "ready") \/ Recorded(r, p, "writing", "skipped")
  /\ UNCHANGED <<files, start, down, conv, work, queues, counts>>

HasRoom_Always(q) == TRUE

HasRoom(q) == Len(q) < QueueCap

EnqueuePdf(r, p) ==
  /\ down[r] = "fetching" /\ HasRoom(pdfQueue[r])
  /\ Recorded(r, p, "ready", "queued")
  /\ pdfQueue' = [pdfQueue EXCEPT ![r] = Append(@, p)]
  /\ downloaded' = [downloaded EXCEPT ![r] = @ + 1]
  /\ UNCHANGED <<files, start, down, conv, work, mdQueue, ingested, total, errors>>

DownloadsOver_Early(r) == \A p \in Papers : record[r][p] # "pending"

DownloadsOver(r) == \A p \in Papers : record[r][p] \in {"no", "skipped", "queued"}

CloseDownload(r) ==
  /\ Alive(r) /\ down[r] = "fetching"
  /\ DownloadsOver(r) /\ HasRoom(pdfQueue[r])
  /\ pdfQueue' = [pdfQueue EXCEPT ![r] = Append(@, Pill)]
  /\ down' = [down EXCEPT ![r] = "stopped"]
  /\ UNCHANGED <<files, start, record, conv, work, mdQueue, counts>>

-----------------------------------------------------------------------------
(* Convert: one worker per run, since two MinerU processes exceed the GPU *)

Converter(r, from, to) ==
  /\ Alive(r)
  /\ conv[r].at = from
  /\ conv' = [conv EXCEPT ![r] = to]

\* MineruClient looks for its executable outside of every try.
ConvertInit(r) ==
  /\ Converter(r, "init", Idle("get")) \/ Converter(r, "init", Idle("dead"))
  /\ UNCHANGED <<files, start, download, work, queues, counts>>

\* convert wants the PDF where it was put.
ConvertTakes(r) ==
  /\ pdfQueue[r] # <<>>
  /\ LET p == Head(pdfQueue[r]) IN
       \/ p = Pill /\ Converter(r, "get", Idle("closing"))
       \/ p \in pdf /\ Converter(r, "get", [at |-> "converting", paper |-> p])
       \/ p \in Papers \ pdf /\ Converter(r, "get", Idle("get"))
  /\ pdfQueue' = [pdfQueue EXCEPT ![r] = Tail(@)]
  /\ UNCHANGED <<files, start, download, work, mdQueue, counts>>

\* A clean copy that is already there is taken as it is.
ConvertOk(r) ==
  /\ Converter(r, "converting", [conv[r] EXCEPT !.at = "putting"])
  /\ md' = [md EXCEPT ![conv[r].paper] = @ \cup {"clean"}]
  /\ ingested' = [ingested EXCEPT ![r] = @ + 1]
  /\ UNCHANGED <<pdf, note, audit, start, download, work, queues, downloaded, total, errors>>

ConvertFails(r) ==
  /\ Converter(r, "converting", Idle("get"))
  /\ UNCHANGED <<files, start, download, work, queues, counts>>

ConvertPuts(r) ==
  /\ HasRoom(mdQueue[r])
  /\ Converter(r, "putting", Idle("get"))
  /\ mdQueue' = [mdQueue EXCEPT ![r] = Append(@, conv[r].paper)]
  /\ UNCHANGED <<files, start, download, work, pdfQueue, counts>>

ConvertCloses(r) ==
  /\ HasRoom(mdQueue[r])
  /\ Converter(r, "closing", Idle("stopped"))
  /\ mdQueue' = [mdQueue EXCEPT ![r] = Append(@, Pill)]
  /\ UNCHANGED <<files, start, download, work, pdfQueue, counts>>

-----------------------------------------------------------------------------
(* Filter *)

Clean == {q \in Papers : "clean" \in md[q]}

Worker(r, w, from, to) ==
  /\ Alive(r)
  /\ work[r][w].at = from
  /\ work' = [work EXCEPT ![r][w] = to]

Goes(r, w, from, to) == Worker(r, w, from, [work[r][w] EXCEPT !.at = to])

\* Building the LLM client, the note writer and the router may raise.
FilterInit(r, w) ==
  /\ Goes(r, w, "init", "get") \/ Goes(r, w, "init", "dead")
  /\ UNCHANGED <<files, start, download, conv, queues, counts>>

FilterTakes(r, w) ==
  /\ mdQueue[r] # <<>> /\ Head(mdQueue[r]) # Pill
  /\ Worker(r, w, "get", [at |-> "reading", paper |-> Head(mdQueue[r]), verdict |-> "reject"])
  /\ mdQueue' = [mdQueue EXCEPT ![r] = Tail(@)]
  /\ UNCHANGED <<files, start, download, conv, pdfQueue, counts>>

TakePill_Swallows(r, w) ==
  /\ mdQueue[r] # <<>> /\ Head(mdQueue[r]) = Pill
  /\ Goes(r, w, "get", "stopped")
  /\ mdQueue' = [mdQueue EXCEPT ![r] = Tail(@)]
  /\ UNCHANGED <<files, start, download, conv, pdfQueue, counts>>

\* The pill goes back for the other workers; there is room, for it was just taken
\* and its producer has stopped.
TakePill(r, w) ==
  /\ mdQueue[r] # <<>> /\ Head(mdQueue[r]) = Pill
  /\ Goes(r, w, "get", "stopped")
  /\ UNCHANGED <<files, start, download, conv, queues, counts>>

\* load_paper may raise; evaluate_paper never does: what it cannot judge it rejects.
Evaluate(r, w) ==
  LET p == work[r][w].paper IN
    /\ \/ /\ p \in Clean
          /\ \E v \in Verdict :
               Worker(r, w, "reading",
                 [at |-> IF v = "keep" THEN "writing" ELSE "routing", paper |-> p, verdict |-> v])
       \/ Goes(r, w, "reading", "failing")
    /\ UNCHANGED <<files, start, download, conv, queues, counts>>

WriteNote(r, w) ==
  /\ \/ Goes(r, w, "writing", "routing") /\ note' = note \cup {work[r][w].paper}
     \/ Goes(r, w, "writing", "failing") /\ UNCHANGED note
  /\ UNCHANGED <<pdf, md, audit, start, download, conv, queues, counts>>

Moved(p, to) == md' = [md EXCEPT ![p] = (@ \ {"clean"}) \cup {to}]

RouteFiles_GoesOn(r, w) ==
  LET p == work[r][w].paper IN
    /\ Goes(r, w, "routing", "auditing")
    /\ \/ p \in Clean /\ Moved(p, "filtered")
       \/ UNCHANGED md
    /\ UNCHANGED <<pdf, note, audit, start, download, conv, queues, counts>>

\* route_and_cleanup up to the audit log: the Markdown must be there and must move;
\* a PDF that cannot be moved is only warned about.
RouteFiles(r, w) ==
  LET p == work[r][w].paper IN
    /\ \/ /\ p \in Clean
          /\ Goes(r, w, "routing", "auditing")
          /\ Moved(p, "filtered")
          /\ pdf' \in {pdf, pdf \ {p}}
       \/ Goes(r, w, "routing", "failing") /\ UNCHANGED <<md, pdf>>
    /\ UNCHANGED <<note, audit, start, download, conv, queues, counts>>

\* The row of the audit log is what later runs know the paper by.
RouteAudit(r, w) ==
  LET p == work[r][w].paper IN
    /\ \/ /\ Goes(r, w, "auditing", "counting")
          /\ audit' = [audit EXCEPT ![p] = Append(@, work[r][w].verdict)]
       \/ Goes(r, w, "auditing", "failing") /\ UNCHANGED audit
    /\ UNCHANGED <<pdf, md, note, start, download, conv, queues, counts>>

CountVerdict(r, w) ==
  /\ Worker(r, w, "counting", Free("get"))
  /\ total' = [total EXCEPT ![r] = @ + 1]
  /\ UNCHANGED <<files, start, download, conv, queues, downloaded, ingested, errors>>

CountError_AlsoTotal(r, w) ==
  /\ Goes(r, w, "failing", "cleaning")
  /\ errors' = [errors EXCEPT ![r] = @ + 1]
  /\ total' = [total EXCEPT ![r] = @ + 1]
  /\ UNCHANGED <<files, start, download, conv, queues, downloaded, ingested>>

CountError(r, w) ==
  /\ Goes(r, w, "failing", "cleaning")
  /\ errors' = [errors EXCEPT ![r] = @ + 1]
  /\ UNCHANGED <<files, start, download, conv, queues, downloaded, ingested, total>>

\* route_failed_cleanup.  A RuntimeError of the move is caught; an OSError of the
\* mkdir before it is not, and ends the worker.
CleanUp(r, w) ==
  LET p == work[r][w].paper IN
    /\ \/ p \in Clean /\ Worker(r, w, "cleaning", Free("get")) /\ Moved(p, "failed")
       \/ Worker(r, w, "cleaning", Free("get")) /\ UNCHANGED md
       \/ p \in Clean /\ Goes(r, w, "cleaning", "dead") /\ UNCHANGED md
    /\ UNCHANGED <<pdf, note, audit, start, download, conv, queues, counts>>

-----------------------------------------------------------------------------
(* The run *)

GatherDone(r) ==
  /\ down[r] = "stopped" /\ conv[r].at = "stopped"
  /\ \A w \in Workers : work[r][w].at = "stopped"

GatherRaises(r) == conv[r].at = "dead" \/ \E w \in Workers : work[r][w].at = "dead"

Ends(r, outcome) ==
  /\ main[r] = "running"
  /\ main' = [main EXCEPT ![r] = outcome]
  /\ UNCHANGED <<seen, blind, server, files, download, conv, work, queues, counts>>

MainReturns(r) == GatherDone(r) /\ Ends(r, "ok")

MainRaises(r) == GatherRaises(r) /\ Ends(r, "failed")

\* The process dies: the runs it was busy with, failed ones included, stop where
\* they are.
Crash ==
  /\ \E r \in Runs : Alive(r)
  /\ main' = [r \in Runs |-> IF Alive(r) THEN "crashed" ELSE main[r]]
  /\ UNCHANGED <<seen, blind, server, files, download, conv, work, queues, counts>>

DownloadStep(r) ==
  \/ \E p \in Papers : CheckRecord(r, p) \/ OpenPdf(r, p) \/ ClosePdf(r, p) \/ EnqueuePdf(r, p)
  \/ NoPdfDirectory(r) \/ CloseDownload(r)

ConvertStep(r) ==
  ConvertInit(r) \/ ConvertTakes(r) \/ ConvertOk(r) \/ ConvertFails(r)
  \/ ConvertPuts(r) \/ ConvertCloses(r)

FilterStep(r, w) ==
  FilterInit(r, w) \/ FilterTakes(r, w) \/ TakePill(r, w) \/ Evaluate(r, w) \/ WriteNote(r, w)
  \/ RouteFiles(r, w) \/ RouteAudit(r, w) \/ CountVerdict(r, w) \/ CountError(r, w)
  \/ CleanUp(r, w)

MainStep(r) == MainReturns(r) \/ MainRaises(r)

Next ==
  \/ \E r \in Runs : StartRun(r) \/ DownloadStep(r) \/ ConvertStep(r) \/ MainStep(r)
                     \/ \E w \in Workers : FilterStep(r, w)
  \/ Crash

Spec == Init /\ [][Next]_vars

\* Requests, MinerU (1800 s) and the LLM have timeouts, and the loop serves every
\* task that is ready.
FairSpec ==
  /\ Spec
  /\ \A r \in Runs :
       /\ WF_vars(DownloadStep(r)) /\ WF_vars(ConvertStep(r)) /\ WF_vars(MainStep(r))
       /\ \A w \in Workers : WF_vars(FilterStep(r, w))

-----------------------------------------------------------------------------
(* Properties *)

RecordState == {"no", "pending", "skipped", "waiting", "writing", "ready", "queued"}
ConvertState == {"init", "get", "converting", "putting", "closing", "stopped", "dead"}
WorkState == {"init", "get", "reading", "writing", "routing", "auditing", "counting",
              "failing", "cleaning", "stopped", "dead"}
Item == Papers \cup {Pill}

\* The files, the queues and the three stages stay in their ranges.
TypeOK ==
  /\ pdf \subseteq Papers
  /\ md \in [Papers -> SUBSET {"clean", "filtered", "failed"}]
  /\ note \subseteq Papers
  /\ audit \in [Papers -> Seq(Verdict)]
  /\ main \in [Runs -> {"idle", "running", "ok", "failed", "crashed"}]
  /\ seen \in [Runs -> SUBSET Papers] /\ blind \subseteq Runs /\ server \in BOOLEAN
  /\ record \in [Runs -> [Papers -> RecordState]]
  /\ down \in [Runs -> {"fetching", "stopped"}]
  /\ conv \in [Runs -> [at : ConvertState, paper : Item]]
  /\ work \in [Runs -> [Workers -> [at : WorkState, paper : Item, verdict : Verdict]]]
  /\ pdfQueue \in [Runs -> Seq(Item)] /\ mdQueue \in [Runs -> Seq(Item)]
  /\ \A r \in Runs : Len(pdfQueue[r]) <= QueueCap /\ Len(mdQueue[r]) <= QueueCap
  /\ downloaded \in [Runs -> Nat] /\ ingested \in [Runs -> Nat]
  /\ total \in [Runs -> Nat] /\ errors \in [Runs -> Nat]

\* A run that ends well accounts for every paper its converter handed on, once: as
\* filtered or as an error, however the filters raced and failed.
StatsAddUp ==
  \A r \in Runs : main[r] = "ok" => total[r] + errors[r] = ingested[r]

\* A stage stops on a pill that nothing follows: when a pill is in a queue, or one
\* was taken from it, its producer has stopped and no paper is behind it.
PillIsLast ==
  \A r \in Runs :
    /\ \A i \in 1..Len(pdfQueue[r]) :
         pdfQueue[r][i] = Pill => i = Len(pdfQueue[r]) /\ down[r] = "stopped"
    /\ \A i \in 1..Len(mdQueue[r]) :
         mdQueue[r][i] = Pill => i = Len(mdQueue[r]) /\ conv[r].at = "stopped"
    /\ conv[r].at \in {"closing", "stopped"} =>
         pdfQueue[r] = <<>> /\ \A p \in Papers : record[r][p] \in {"no", "skipped", "queued"}

\* The audit log never says more than happened: a row's Markdown was routed, and a
\* paper it calls kept has its note.
AuditIsTrue ==
  \A p \in Papers : \A i \in DOMAIN audit[p] :
    "filtered" \in md[p] /\ (audit[p][i] = "keep" => p \in note)

\* Runs that could read the log judge a paper once, whatever failed or crashed in
\* between.  (One process at a time: in the server two runs may share a paper.)
AuditedOnce ==
  ~server /\ blind = {} => \A p \in Papers : Len(audit[p]) <= 1

\* Every run comes to an end, a stage that raises or dies at its start included.
RunEnds == \A r \in Runs : main[r] = "running" ~> main[r] # "running"
=============================================================================
