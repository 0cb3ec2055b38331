----------------------------- MODULE PaperCommands -----------------------------
(***************************************************************************)
(* The paper commands: the scripts run_ingest.py, run_batch_filter.py,     *)
(* run_single.py and run_lens.py, processes that a user starts in any      *)
(* order, at once if they like, on the directories the daily pipeline      *)
(* fills: PDFs, clean Markdown, the filtered/ and failed/ archives,        *)
(* audit_log.csv and the vault's notes.                                    *)
(*                                                                         *)
(* They ask the LLM through crucible/ports/llm/openai_compatible_client.py,*)
(* which tries a question three times when the failure may pass.  Any file *)
(* operation may fail, the user may press Ctrl-C, and a process may die    *)
(* between any two of them.                                                *)
(***************************************************************************)
EXTENDS Naturals, FiniteSets

CONSTANTS
  Commands, \* the processes, each of which runs one command
  Papers,   \* the stems of the papers' files
  Lenses,   \* the lenses of the optics registry
  Attempts  \* stop_after_attempt and max_attempts (3 in the code)

Verdict == {"keep", "reject"}   \* keep: MUST_READ or SKIM
Judge == "judge"                \* FilterService's question
NoPaper == "no paper"

\* run_single.py -p and -m, run_batch_filter.py, run_ingest.py and run_lens.py
Scripts == {"pdf", "md", "batch", "ingest", "lens"}

ASSUME CommandsAssumption ==
  /\ NoPaper \notin Papers /\ IsFiniteSet(Papers)
  /\ Judge \notin Lenses
  /\ Attempts \in Nat \ {0}

VARIABLES
  pdf,      \* the papers with a PDF in arxivpdf_dir
  clean,    \* the papers with Markdown in md_papers_dir
  filed,    \* [Papers -> SUBSET Verdict], the Markdown under filtered/
  pdfFiled, \* [Papers -> SUBSET Verdict], the PDFs beside it
  failed,   \* the papers with Markdown in failed/
  note,     \* the papers with a note in the vault
  atlas,    \* the papers with a deep-read note
  rows,     \* the rows of audit_log.csv: [by, paper, verdict]
  cmd,      \* [Commands -> ...], what a command is doing
  ask,      \* [Commands -> [Lenses or Judge -> [tries, answer]]], its LLM calls
  clash     \* the papers that two commands have had in hand at once

markdown == <<clean, filed, failed>>
files == <<pdf, pdfFiled, markdown, note, atlas, rows>>
vars == <<files, cmd, ask, clash>>

Questions == Lenses \cup {Judge}
Unasked == [q \in Questions |-> [tries |-> 0, answer |-> "open"]]

Unstarted ==
  [op |-> "none", at |-> "idle", paper |-> NoPaper, found |-> {}, todo |-> {},
   verdict |-> "reject", force |-> FALSE, made |-> FALSE, errors |-> 0, code |-> 0]

\* The user has put files there, and earlier commands have filed some papers.
Init ==
  /\ pdf \in SUBSET Papers /\ clean \in SUBSET Papers
  /\ \E kept, rejected \in SUBSET Papers :
       /\ kept \cap rejected = {}
       /\ filed = [p \in Papers |-> {v \in Verdict : p \in IF v = "keep" THEN kept ELSE rejected}]
       /\ note = kept
  /\ pdfFiled = [p \in Papers |-> {}]
  /\ failed = {}
  /\ atlas = {} /\ rows = {}
  /\ cmd = [c \in Commands |-> Unstarted]
  /\ ask = [c \in Commands |-> Unasked]
  /\ clash = {}

Ended == {"idle", "exited", "dead"}
Running(c) == cmd[c].at \notin Ended

InHand(c) == IF Running(c) THEN {cmd[c].paper} \ {NoPaper} ELSE {}

\* The command goes on as `next` says; the paper it takes up may be in other hands.
Becomes(c, next) ==
  /\ cmd' = [cmd EXCEPT ![c] = next]
  /\ clash' = clash \cup ({next.paper} \cap UNION {InHand(d) : d \in Commands \ {c}})

Moves(c, from, to) == cmd[c].at = from /\ Becomes(c, [cmd[c] EXCEPT !.at = to])

\* A loop over files puts this one down.
PutsDown(c) == Becomes(c, [cmd[c] EXCEPT !.at = "next", !.paper = NoPaper, !.verdict = "reject"])

\* The process ends.
Exits(c, code) ==
  Becomes(c, [cmd[c] EXCEPT !.at = "exited", !.code = code,
                            !.todo = {}, !.verdict = "reject", !.made = FALSE])

\* run_single returns a code through its finally clause.
Leaves(c, code) ==
  Becomes(c, [cmd[c] EXCEPT !.at = "finally", !.code = code, !.verdict = "reject"])

IsSingle(c) == cmd[c].op \in {"pdf", "md"}

\* An exception: run_single has a code for the stage, run_batch_filter counts it and
\* sets the Markdown aside.
Raises(c, code) ==
  \/ IsSingle(c) /\ Leaves(c, code)
  \/ cmd[c].op = "batch" /\ Becomes(c, [cmd[c] EXCEPT !.at = "failing"])

-----------------------------------------------------------------------------
(* Starting a command *)

Starts(c, start) ==
  /\ cmd[c].at = "idle"
  /\ Becomes(c, start)
  /\ UNCHANGED <<files, ask>>

StartSingle(c, op, p, force) ==
  Starts(c, [Unstarted EXCEPT !.op = op, !.paper = p, !.force = force,
                              !.at = IF op = "pdf" THEN "staging" ELSE "loading"])

\* The files are listed once, when the command begins.
StartAll(c, op, listed) ==
  Starts(c, [Unstarted EXCEPT !.op = op, !.at = "next", !.found = listed, !.todo = listed])

StartLens(c, p) ==
  Starts(c, [Unstarted EXCEPT !.op = "lens", !.paper = p, !.at = "locating"])

\* tqdm goes on to the next file, or the script prints its counts.  Before the first,
\* run_ingest finds that MinerU is not installed.
NextFile(c) ==
  /\ cmd[c].at = "next"
  /\ \/ \E p \in cmd[c].todo :
          Becomes(c, [cmd[c] EXCEPT !.paper = p, !.todo = @ \ {p}, !.verdict = "reject",
                        !.at = IF cmd[c].op = "batch" THEN "loading" ELSE "converting"])
     \/ cmd[c].todo = {} /\ Exits(c, IF cmd[c].errors = 0 THEN 0 ELSE 1)
     \/ cmd[c].op = "ingest" /\ cmd[c].todo # {} /\ cmd[c].todo = cmd[c].found /\ Exits(c, 99)
  /\ UNCHANGED <<files, ask>>

-----------------------------------------------------------------------------
(* MinerU *)

\* run_single copies the PDF it is given into arxivpdf_dir, or finds none.
StagePdf(c) ==
  /\ cmd[c].at = "staging"
  /\ \/ Moves(c, "staging", "converting") /\ pdf' = pdf \cup {cmd[c].paper}
     \/ Leaves(c, 3) /\ UNCHANGED pdf
  /\ UNCHANGED <<pdfFiled, markdown, note, atlas, rows, ask>>

\* MinerU's raw Markdown, an earlier one if there is one, is cleaned into md_papers_dir.
\* What run_single made it also clears away; MinerU may be missing.  run_ingest, whose
\* user names md_papers_dir (the default is a playground), passes over what fails.
Convert(c) ==
  /\ cmd[c].at = "converting"
  /\ \/ /\ cmd[c].op = "pdf"
        /\ Becomes(c, [cmd[c] EXCEPT !.at = "loading", !.made = TRUE])
        /\ clean' = clean \cup {cmd[c].paper}
     \/ cmd[c].op = "pdf" /\ \E code \in {2, 3} : Leaves(c, code) /\ UNCHANGED clean
     \/ cmd[c].op = "ingest" /\ PutsDown(c) /\ clean' \in {clean, clean \cup {cmd[c].paper}}
  /\ UNCHANGED <<pdf, filed, pdfFiled, failed, note, atlas, rows, ask>>

-----------------------------------------------------------------------------
(* The LLM *)

\* load_paper reads the Markdown.
LoadPaper(c) ==
  /\ cmd[c].at = "loading"
  /\ \/ cmd[c].paper \in clean /\ Moves(c, "loading", "asking")
     \/ Raises(c, 4)
  /\ ask' = [ask EXCEPT ![c] = Unasked]
  /\ UNCHANGED files

Asked(c) == IF cmd[c].op = "lens" THEN Lenses ELSE {Judge}

Answered(c, q, outcome) == ask' = [ask EXCEPT ![c][q].answer = outcome]

\* Mutant: <= Attempts.
Attempt_OneMore(c, q) ==
  /\ cmd[c].at = "asking" /\ q \in Asked(c) /\ ask[c][q].answer = "open"
  /\ \/ Answered(c, q, "ok")
     \/ Answered(c, q, "error")
     \/ /\ ask[c][q].tries < Attempts
        /\ ask' = [ask EXCEPT ![c][q].tries = @ + 1]
  /\ UNCHANGED <<files, cmd, clash>>

\* Mutant: the attempts start anew when they are used up.
Attempt_Anew(c, q) ==
  /\ cmd[c].at = "asking" /\ q \in Asked(c) /\ ask[c][q].answer = "open"
  /\ \/ Answered(c, q, "ok")
     \/ Answered(c, q, "error")
     \/ ask' = [ask EXCEPT ![c][q].tries = (@ + 1) % Attempts]
  /\ UNCHANGED <<files, cmd, clash>>

\* One request: answered in the wanted form, refused for good, or failed in a way
\* that may pass (is_transient_error: a timeout, a 5xx, JSON that does not parse).
Attempt(c, q) ==
  /\ cmd[c].at = "asking" /\ q \in Asked(c) /\ ask[c][q].answer = "open"
  /\ \/ Answered(c, q, "ok")
     \/ Answered(c, q, "error")
     \/ /\ ask[c][q].tries + 1 < Attempts
        /\ ask' = [ask EXCEPT ![c][q].tries = @ + 1]
  /\ UNCHANGED <<files, cmd, clash>>

AllAnswered(c) == \A q \in Asked(c) : ask[c][q].answer # "open"

WantsNote(c, v) == v = "keep" \/ (IsSingle(c) /\ cmd[c].force)

\* evaluate_paper never raises: what the LLM did not judge is a REJECT of score 0.
TakeVerdict(c) ==
  /\ cmd[c].at = "asking" /\ cmd[c].op # "lens" /\ AllAnswered(c)
  /\ \E v \in IF ask[c][Judge].answer = "ok" THEN Verdict ELSE {"reject"} :
       Becomes(c, [cmd[c] EXCEPT !.verdict = v,
                                 !.at = IF WantsNote(c, v) THEN "noting" ELSE "routing"])
  /\ ask' = [ask EXCEPT ![c] = Unasked]
  /\ UNCHANGED files

WriteNote(c) ==
  /\ cmd[c].at = "noting"
  /\ \/ Moves(c, "noting", "routing") /\ note' = note \cup {cmd[c].paper}
     \/ Raises(c, 6) /\ note' \in {note, note \cup {cmd[c].paper}}
  /\ UNCHANGED <<pdf, pdfFiled, markdown, atlas, rows, ask>>

-----------------------------------------------------------------------------
(* PaperArchiveAdapter *)

\* route_and_cleanup wants the Markdown to be there.  The mkdir before may fail too,
\* which run_single has no code for.
RouteChecks(c) ==
  /\ cmd[c].at = "routing"
  /\ \/ cmd[c].paper \in clean /\ Moves(c, "routing", "replacing")
     \/ cmd[c].paper \notin clean /\ Raises(c, 7)
     \/ Raises(c, 99)
  /\ UNCHANGED <<files, ask>>

\* A copy of the same name and verdict makes way.
RouteReplaces(c) ==
  LET p == cmd[c].paper IN
    /\ cmd[c].at = "replacing"
    /\ \/ Moves(c, "replacing", "moving") /\ filed' = [filed EXCEPT ![p] = @ \ {cmd[c].verdict}]
       \/ cmd[c].verdict \in filed[p] /\ Raises(c, 7) /\ UNCHANGED filed
    /\ UNCHANGED <<pdf, pdfFiled, clean, failed, note, atlas, rows, ask>>

RouteMoves(c) ==
  LET p == cmd[c].paper IN
    /\ cmd[c].at = "moving"
    /\ \/ /\ p \in clean
          /\ Moves(c, "moving", "pairing")
          /\ clean' = clean \ {p}
          /\ filed' = [filed EXCEPT ![p] = @ \cup {cmd[c].verdict}]
       \/ Raises(c, 7) /\ UNCHANGED <<clean, filed>>
    /\ UNCHANGED <<pdf, pdfFiled, failed, note, atlas, rows, ask>>

\* The PDF follows; when it does not move that is only a warning, the copy it was to
\* replace being gone or not.
RoutePdf(c) ==
  LET p == cmd[c].paper IN
    /\ Moves(c, "pairing", "auditing")
    /\ \/ /\ p \in pdf
          /\ pdf' = pdf \ {p}
          /\ pdfFiled' = [pdfFiled EXCEPT ![p] = @ \cup {cmd[c].verdict}]
       \/ p \in pdf /\ pdfFiled' = [pdfFiled EXCEPT ![p] = @ \ {cmd[c].verdict}] /\ UNCHANGED pdf
       \/ UNCHANGED <<pdf, pdfFiled>>
    /\ UNCHANGED <<markdown, note, atlas, rows, ask>>

RouteAudits(c) ==
  /\ cmd[c].at = "auditing"
  /\ \/ /\ rows' = rows \cup {[by |-> c, paper |-> cmd[c].paper, verdict |-> cmd[c].verdict]}
        /\ \/ IsSingle(c) /\ Leaves(c, 0)
           \/ cmd[c].op = "batch" /\ PutsDown(c)
     \/ Raises(c, 7) /\ UNCHANGED rows
  /\ UNCHANGED <<pdf, pdfFiled, markdown, note, atlas, ask>>

\* Mutant: only a paper whose Markdown is still there is an error.
CountError_IfThere(c) ==
  /\ cmd[c].at = "failing"
  /\ \/ /\ cmd[c].paper \in clean
        /\ Becomes(c, [cmd[c] EXCEPT !.at = "shelving", !.errors = @ + 1])
     \/ cmd[c].paper \notin clean /\ PutsDown(c)
  /\ UNCHANGED <<files, ask>>

\* The batch filter counts the error, then calls route_failed_cleanup.
CountError(c) ==
  /\ cmd[c].at = "failing"
  /\ Becomes(c, [cmd[c] EXCEPT !.at = "shelving", !.errors = @ + 1])
  /\ UNCHANGED <<files, ask>>

\* It acts on Markdown that is still there, and unlinks an older copy first.  Its
\* RuntimeError is caught; an OSError of its mkdir ends the script.
ShelveFailed(c) ==
  LET p == cmd[c].paper IN
    /\ cmd[c].at = "shelving"
    /\ \/ p \in clean /\ PutsDown(c) /\ clean' = clean \ {p} /\ failed' = failed \cup {p}
       \/ p \in clean /\ PutsDown(c) /\ UNCHANGED clean /\ failed' \in {failed, failed \ {p}}
       \/ p \in clean /\ Exits(c, 99) /\ UNCHANGED <<clean, failed>>
       \/ p \notin clean /\ PutsDown(c) /\ UNCHANGED <<clean, failed>>
    /\ UNCHANGED <<pdf, filed, pdfFiled, note, atlas, rows, ask>>

\* Mutant: Markdown that the user gave is cleared away too.
Finally_Always(c) ==
  /\ cmd[c].at = "finally"
  /\ clean' \in {clean, clean \ {cmd[c].paper}}
  /\ Exits(c, cmd[c].code)
  /\ UNCHANGED <<pdf, filed, pdfFiled, failed, note, atlas, rows, ask>>

\* run_single clears away what its ingest made, as far as it can.
Finally(c) ==
  /\ cmd[c].at = "finally"
  /\ clean' \in {clean} \cup (IF cmd[c].made THEN {clean \ {cmd[c].paper}} ELSE {})
  /\ Exits(c, cmd[c].code)
  /\ UNCHANGED <<pdf, filed, pdfFiled, failed, note, atlas, rows, ask>>

-----------------------------------------------------------------------------
(* run_lens *)

\* A note and a PDF under the vault's assets, which the user puts there, must be
\* found; then the full text under filtered/, which must also be readable (an error
\* there is a traceback, exit code 1 to the shell).
Locate(c) ==
  /\ cmd[c].at = "locating"
  /\ \/ cmd[c].paper \in note /\ filed[cmd[c].paper] # {} /\ Moves(c, "locating", "asking")
     \/ cmd[c].paper \in note /\ filed[cmd[c].paper] = {} /\ Exits(c, 6)
     \/ Exits(c, 1)
  /\ UNCHANGED <<files, ask>>

\* Lenses that failed leave their field of the atlas empty, all of them if it must be.
WriteAtlas(c) ==
  /\ cmd[c].at = "asking" /\ cmd[c].op = "lens" /\ AllAnswered(c)
  /\ \/ Exits(c, 0) /\ atlas' = atlas \cup {cmd[c].paper}
     \/ Exits(c, 5) /\ atlas' \in {atlas, atlas \cup {cmd[c].paper}}
  /\ ask' = [ask EXCEPT ![c] = Unasked]
  /\ UNCHANGED <<pdf, pdfFiled, markdown, note, rows>>

-----------------------------------------------------------------------------

\* Ctrl-C: run_single still cleans up, the others end at once.
Interrupt(c) ==
  /\ Running(c) /\ cmd[c].at # "finally"
  /\ IF IsSingle(c) THEN Leaves(c, 130) ELSE Exits(c, 130)
  /\ ask' = [ask EXCEPT ![c] = Unasked]
  /\ UNCHANGED files

Dies(c) ==
  /\ Running(c)
  /\ Becomes(c, [Unstarted EXCEPT !.at = "dead"])
  /\ ask' = [ask EXCEPT ![c] = Unasked]
  /\ UNCHANGED files

Start(c) ==
  \/ \E p \in Papers : StartLens(c, p)
  \/ \E p \in Papers, op \in {"pdf", "md"}, force \in BOOLEAN : StartSingle(c, op, p, force)
  \/ StartAll(c, "batch", clean) \/ StartAll(c, "ingest", pdf)

Step(c) ==
  \/ NextFile(c) \/ StagePdf(c) \/ Convert(c) \/ LoadPaper(c)
  \/ \E q \in Questions : Attempt(c, q)
  \/ TakeVerdict(c) \/ WriteNote(c)
  \/ RouteChecks(c) \/ RouteReplaces(c) \/ RouteMoves(c) \/ RoutePdf(c) \/ RouteAudits(c)
  \/ CountError(c) \/ ShelveFailed(c) \/ Finally(c)
  \/ Locate(c) \/ WriteAtlas(c)

Next == \E c \in Commands : Start(c) \/ Step(c) \/ Interrupt(c) \/ Dies(c)

Spec == Init /\ [][Next]_vars

\* A process runs on: MinerU has 1800 s and each LLM request its timeout.
FairSpec == Spec /\ \A c \in Commands : WF_vars(Step(c))

-----------------------------------------------------------------------------
(* Properties *)

\* Types; no question is asked more often than the retries allow.
TypeOK ==
  /\ pdf \subseteq Papers /\ clean \subseteq Papers /\ failed \subseteq Papers
  /\ filed \in [Papers -> SUBSET Verdict] /\ pdfFiled \in [Papers -> SUBSET Verdict]
  /\ note \subseteq Papers /\ atlas \subseteq Papers /\ clash \subseteq Papers
  /\ rows \subseteq [by : Commands, paper : Papers, verdict : Verdict]
  /\ cmd \in [Commands ->
       [op : Scripts \cup {"none"},
        at : Ended \cup {"next", "staging", "converting", "loading", "asking", "noting",
                         "routing", "replacing", "moving", "pairing", "auditing",
                         "failing", "shelving", "finally", "locating"},
        paper : Papers \cup {NoPaper}, found : SUBSET Papers, todo : SUBSET Papers,
        verdict : Verdict, force : BOOLEAN, made : BOOLEAN, errors : Nat, code : Nat]]
  /\ ask \in [Commands ->
       [Questions -> [tries : 0..(Attempts - 1), answer : {"open", "ok", "error"}]]]

Kept(p) ==
  p \in clean \/ p \in failed \/ p \in pdf \/ filed[p] # {} \/ pdfFiled[p] # {}

\* A paper that no two commands had in hand at once is never lost: however its
\* command failed, was interrupted or died, Markdown or a PDF of it is somewhere.
PaperIsKept ==
  [][\A p \in Papers : Kept(p) /\ p \notin clash' => Kept(p)']_vars

RowsOf(c) == {r.paper : r \in {x \in rows : x.by = c}}

\* The exit code says what became of the papers: 0 that every one is in the audit log
\* with the note its verdict calls for, another code of its own that one is not.
ExitIsHonest ==
  \A c \in {d \in Commands : cmd[d].at = "exited"} :
    /\ IsSingle(c) /\ cmd[c].code = 0 =>
         \E r \in rows : /\ r.by = c /\ r.paper = cmd[c].paper
                         /\ WantsNote(c, r.verdict) => r.paper \in note
    /\ IsSingle(c) /\ cmd[c].code \notin {0, 130} => RowsOf(c) = {}
    /\ cmd[c].op = "batch" /\ cmd[c].code \in {0, 1} =>
         Cardinality(cmd[c].found \ RowsOf(c)) = cmd[c].errors

\* A command ends, whatever its questions, files and rivals do.
CommandEnds == \A c \in Commands : Running(c) ~> ~Running(c)
=============================================================================
