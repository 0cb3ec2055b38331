-------------------------- MODULE PaperCommandsProofs --------------------------
(***************************************************************************)
(* Theorems about PaperCommands, for any number of commands, papers and    *)
(* lenses, from CommandsAssumption alone: a paper that only one command    *)
(* has in hand is never lost, no question is asked too often, and the exit *)
(* code of run_single and the error count of a batch tell the truth.       *)
(***************************************************************************)
EXTENDS PaperCommands, Integers, FiniteSetTheorems, TLAPS

Places ==
  Ended \cup {"next", "staging", "converting", "loading", "asking", "noting",
              "routing", "replacing", "moving", "pairing", "auditing",
              "failing", "shelving", "finally", "locating"}

Records ==
  [op : Scripts \cup {"none"}, at : Places,
   paper : Papers \cup {NoPaper}, found : SUBSET Papers, todo : SUBSET Papers,
   verdict : Verdict, force : BOOLEAN, made : BOOLEAN, errors : Nat, code : Nat]

FileTypes ==
  /\ pdf \subseteq Papers /\ clean \subseteq Papers /\ failed \subseteq Papers
  /\ filed \in [Papers -> SUBSET Verdict] /\ pdfFiled \in [Papers -> SUBSET Verdict]
  /\ note \subseteq Papers /\ atlas \subseteq Papers
  /\ rows \subseteq [by : Commands, paper : Papers, verdict : Verdict]

Calls == [Questions -> [tries : 0..(Attempts - 1), answer : {"open", "ok", "error"}]]

\* What a command that does k has settled: which paper it is about, and that only a
\* command over many files goes on to the next one.
Shaped(k) ==
  /\ k.at \in Ended \cup {"next"} \/ k.paper \in Papers
  /\ k.at \in {"next", "failing", "shelving"} => k.op \in {"batch", "ingest"}
  /\ k.made => k.op = "pdf" /\ k.paper \in Papers

CmdTypes ==
  /\ cmd \in [Commands -> Records] /\ clash \subseteq Papers
  /\ \A c \in Commands : Shaped(cmd[c])

\* Two running commands that have a paper in hand are known to clash over it.
Alone ==
  \A c, d \in Commands :
    c # d /\ Running(c) /\ Running(d) /\ cmd[c].paper = cmd[d].paper /\ cmd[c].paper # NoPaper
      => cmd[c].paper \in clash

HasPdf(p) == p \in pdf \/ pdfFiled[p] # {}

\* Markdown that run_single made, or is about to make, has a PDF behind it.
Paired ==
  \A c \in Commands :
    cmd[c].made \/ (cmd[c].op = "pdf" /\ cmd[c].at = "converting") => HasPdf(cmd[c].paper)

\* An older copy in the archive only makes way for Markdown that is there.
Backed ==
  \A c \in Commands :
    cmd[c].at \in {"replacing", "moving"} /\ cmd[c].paper \notin clash
      => cmd[c].paper \in clean

AskTypes == ask \in [Commands -> Calls]

\* The inductive invariant.
IInv == FileTypes /\ CmdTypes /\ AskTypes /\ Alone /\ Paired /\ Backed

Acts(c) == Start(c) \/ Step(c) \/ Interrupt(c) \/ Dies(c)

-----------------------------------------------------------------------------
(* What a command does next *)

\* What every step of a command says of it and of the others.
Stepped(c) ==
  /\ cmd'[c] \in Records /\ Shaped(cmd'[c])
  /\ cmd' = [cmd EXCEPT ![c] = cmd'[c]]
  /\ clash \subseteq clash' /\ clash' \subseteq Papers
  /\ \A d \in Commands \ {c} :
       Running(d) /\ cmd[d].paper = cmd'[c].paper /\ cmd[d].paper # NoPaper
         => cmd[d].paper \in clash'

LEMMA BecomesStepped ==
  ASSUME CmdTypes, NEW c \in Commands, NEW k \in Records, Shaped(k), Becomes(c, k)
  PROVE  Stepped(c) /\ cmd'[c] = k
<1>1. cmd' = [cmd EXCEPT ![c] = k] /\ cmd'[c] = k
  BY DEF Becomes, CmdTypes
<1>2. \A d \in Commands : InHand(d) \subseteq Papers
  BY DEF InHand, CmdTypes, Records
<1>3. clash \subseteq clash' /\ clash' \subseteq Papers
  BY <1>2 DEF Becomes, CmdTypes
<1>4. ASSUME NEW d \in Commands \ {c}, Running(d), cmd[d].paper = k.paper, cmd[d].paper # NoPaper
      PROVE  cmd[d].paper \in clash'
  <2>1. k.paper \in InHand(d)
    BY <1>4 DEF InHand
  <2> QED BY <1>4, <2>1 DEF Becomes
<1> QED BY <1>1, <1>3, <1>4 DEF Stepped

\* How the steps of a command leave it, each a record of the right shape.
LEMMA Moved ==
  ASSUME CmdTypes, NEW c \in Commands, Running(c)
  PROVE  /\ \A from, to : /\ Moves(c, from, to) /\ to \in Places \ {"next", "failing", "shelving"}
                          /\ from \notin {"next"}
                          => Stepped(c) /\ cmd'[c] = [cmd[c] EXCEPT !.at = to]
         /\ PutsDown(c) /\ cmd[c].op \in {"batch", "ingest"} => Stepped(c) /\ cmd'[c].at = "next" /\ cmd'[c].op = cmd[c].op /\ ~cmd'[c].made
         /\ \A code \in Nat : Exits(c, code) => Stepped(c) /\ cmd'[c].at = "exited" /\ ~cmd'[c].made
         /\ \A code \in Nat : Leaves(c, code) /\ cmd[c].at # "next" 
              => Stepped(c) /\ cmd'[c].at = "finally" /\ cmd'[c].made = cmd[c].made /\ cmd'[c].paper = cmd[c].paper
<1>1. cmd[c] \in Records /\ Shaped(cmd[c])
  BY DEF CmdTypes
<1>2. ASSUME NEW from, NEW to, Moves(c, from, to), to \in Places \ {"next", "failing", "shelving"}, from # "next"
      PROVE  Stepped(c) /\ cmd'[c] = [cmd[c] EXCEPT !.at = to]
  <2> DEFINE k == [cmd[c] EXCEPT !.at = to]
  <2>1. k \in Records /\ Shaped(k)
    BY <1>1, <1>2 DEF Records, Shaped, Moves, Running
  <2> QED BY <1>2, <2>1, BecomesStepped DEF Moves
<1>3. ASSUME PutsDown(c), cmd[c].op \in {"batch", "ingest"}
      PROVE  Stepped(c) /\ cmd'[c].at = "next" /\ cmd'[c].op = cmd[c].op /\ ~cmd'[c].made
  <2> DEFINE k == [cmd[c] EXCEPT !.at = "next", !.paper = NoPaper, !.verdict = "reject"]
  <2>1. k \in Records /\ Shaped(k) /\ k.at = "next" /\ k.op = cmd[c].op /\ ~k.made
    BY <1>1, <1>3 DEF Records, Shaped, Places, Verdict
  <2> HIDE DEF k
  <2>2. Becomes(c, k)
    BY <1>3 DEF PutsDown, k
  <2> QED BY <2>1, <2>2, BecomesStepped
<1>4. ASSUME NEW code \in Nat, Exits(c, code)
      PROVE  Stepped(c) /\ cmd'[c].at = "exited" /\ ~cmd'[c].made
  <2> DEFINE k == [cmd[c] EXCEPT !.at = "exited", !.code = code, !.todo = {},
                                 !.verdict = "reject", !.made = FALSE]
  <2>1. k \in Records /\ Shaped(k) /\ k.at = "exited" /\ ~k.made
    BY <1>1, <1>4 DEF Records, Shaped, Places, Verdict, Ended
  <2> HIDE DEF k
  <2>2. Becomes(c, k)
    BY <1>4 DEF Exits, k
  <2> QED BY <2>1, <2>2, BecomesStepped
<1>5. ASSUME NEW code \in Nat, Leaves(c, code), cmd[c].at # "next"
      PROVE  Stepped(c) /\ cmd'[c].at = "finally" /\ cmd'[c].made = cmd[c].made /\ cmd'[c].paper = cmd[c].paper
  <2> DEFINE k == [cmd[c] EXCEPT !.at = "finally", !.code = code, !.verdict = "reject"]
  <2>1. k \in Records /\ Shaped(k) /\ k.at = "finally" /\ k.made = cmd[c].made /\ k.paper = cmd[c].paper
    BY <1>1, <1>5 DEF Records, Shaped, Places, Verdict, Running
  <2> HIDE DEF k
  <2>2. Becomes(c, k)
    BY <1>5 DEF Leaves, k
  <2> QED BY <2>1, <2>2, BecomesStepped
<1> QED BY <1>2, <1>3, <1>4, <1>5

-----------------------------------------------------------------------------
(* What a step does to the files *)

\* A step of a command that is safe for every paper.
Safe(c) ==
  /\ FileTypes'
  /\ Stepped(c)
  /\ \A p \in Papers : HasPdf(p) => HasPdf(p)'
  /\ \A p \in clean \ clean' : Running(c) /\ cmd[c].paper = p
  /\ cmd'[c].made \/ (cmd'[c].op = "pdf" /\ cmd'[c].at = "converting")
       => HasPdf(cmd[c].paper)'
  /\ cmd'[c].at \in {"replacing", "moving"} /\ cmd'[c].paper \notin clash'
       => cmd'[c].paper \in clean'
  /\ \A p \in Papers : Kept(p) /\ p \notin clash' => Kept(p)'

\* A step that touches no file, and begins neither to convert nor to replace.
LEMMA QuietSafe ==
  ASSUME IInv, NEW c \in Commands, Stepped(c), UNCHANGED files,
         cmd'[c].made => cmd[c].made /\ cmd'[c].paper = cmd[c].paper,
         cmd'[c].at \notin {"replacing", "moving"},
         ~(cmd'[c].op = "pdf" /\ cmd'[c].at = "converting")
  PROVE  Safe(c)
<1>1. UNCHANGED <<pdf, clean, filed, pdfFiled, failed, note, atlas, rows>>
  BY DEF files, markdown
<1>2. FileTypes'
  BY <1>1 DEF IInv, FileTypes
<1>3. \A p \in Papers : (HasPdf(p) <=> HasPdf(p)') /\ (Kept(p) <=> Kept(p)')
  BY <1>1 DEF HasPdf, Kept
<1>4. cmd'[c].made => HasPdf(cmd[c].paper)'
  BY <1>1 DEF IInv, Paired, HasPdf
<1> QED BY <1>1, <1>2, <1>3, <1>4 DEF Safe

LEMMA StartSafe ==
  ASSUME IInv, NEW c \in Commands, Start(c)
  PROVE  Safe(c)
<1>1. CmdTypes /\ FileTypes
  BY DEF IInv
<1>2. ASSUME NEW k \in Records, Shaped(k), Starts(c, k), ~k.made,
             k.at \notin {"replacing", "moving", "converting"}
      PROVE  Safe(c)
  <2>1. Stepped(c) /\ cmd'[c] = k /\ UNCHANGED files
    BY <1>1, <1>2, BecomesStepped DEF Starts
  <2> QED BY <1>2, <2>1, QuietSafe
<1>3. ASSUME NEW p \in Papers, StartLens(c, p) PROVE Safe(c)
  <2> DEFINE k == [Unstarted EXCEPT !.op = "lens", !.paper = p, !.at = "locating"]
  <2>1. k \in Records /\ Shaped(k) /\ ~k.made /\ k.at = "locating"
    BY DEF Unstarted, Records, Shaped, Places, Verdict, Scripts
  <2>2. Starts(c, k)
    BY <1>3 DEF StartLens
  <2> HIDE DEF k
  <2> QED BY <1>2, <2>1, <2>2
<1>4. ASSUME NEW p \in Papers, NEW op \in {"pdf", "md"}, NEW force \in BOOLEAN, StartSingle(c, op, p, force)
      PROVE  Safe(c)
  <2> DEFINE k == [Unstarted EXCEPT !.op = op, !.paper = p, !.force = force,
                                    !.at = IF op = "pdf" THEN "staging" ELSE "loading"]
  <2>1. k \in Records /\ Shaped(k) /\ ~k.made /\ k.at \in {"staging", "loading"}
    BY DEF Unstarted, Records, Shaped, Places, Verdict, Scripts
  <2>2. Starts(c, k)
    BY <1>4 DEF StartSingle
  <2> HIDE DEF k
  <2> QED BY <1>2, <2>1, <2>2
<1>5. ASSUME NEW op \in {"batch", "ingest"}, NEW listed \in SUBSET Papers, StartAll(c, op, listed)
      PROVE  Safe(c)
  <2> DEFINE k == [Unstarted EXCEPT !.op = op, !.at = "next", !.found = listed, !.todo = listed]
  <2>1. k \in Records /\ Shaped(k) /\ ~k.made /\ k.at = "next"
    BY DEF Unstarted, Records, Shaped, Places, Verdict, Scripts
  <2>2. Starts(c, k)
    BY <1>5 DEF StartAll
  <2> HIDE DEF k
  <2> QED BY <1>2, <2>1, <2>2
<1> QED BY <1>1, <1>3, <1>4, <1>5 DEF Start, FileTypes

LEMMA EndSafe ==
  ASSUME IInv, NEW c \in Commands, Interrupt(c) \/ Dies(c)
  PROVE  Safe(c)
<1>1. CmdTypes /\ Running(c) /\ UNCHANGED files
  BY DEF IInv, Interrupt, Dies
<1>2. CASE Dies(c)
  <2> DEFINE k == [Unstarted EXCEPT !.at = "dead"]
  <2>1. k \in Records /\ Shaped(k) /\ k.at = "dead" /\ ~k.made
    BY DEF Unstarted, Records, Shaped, Places, Verdict, Ended
  <2>2. Becomes(c, k)
    BY <1>2 DEF Dies
  <2> HIDE DEF k
  <2>3. Stepped(c) /\ cmd'[c] = k
    BY <1>1, <2>1, <2>2, BecomesStepped
  <2> QED BY <1>1, <2>1, <2>3, QuietSafe
<1>3. CASE Interrupt(c)
  <2>1. IsSingle(c) => cmd[c].at # "next"
    BY <1>1 DEF CmdTypes, Shaped, IsSingle
  <2>2. CASE IsSingle(c)
    <3>1. Leaves(c, 130)
      BY <1>3, <2>2 DEF Interrupt
    <3> QED BY <1>1, <2>1, <2>2, <3>1, Moved, QuietSafe
  <2>3. CASE ~IsSingle(c)
    <3>1. Exits(c, 130)
      BY <1>3, <2>3 DEF Interrupt
    <3> QED BY <1>1, <3>1, Moved, QuietSafe
  <2> QED BY <2>2, <2>3
<1> QED BY <1>2, <1>3

\* An exception, or the end of one file or of the command, touches no file itself.
LEMMA RaisesSafe ==
  ASSUME IInv, NEW c \in Commands, NEW code \in Nat, Running(c), cmd[c].at # "next"
  PROVE  /\ Raises(c, code) =>
              /\ Stepped(c)
              /\ cmd'[c].made => cmd[c].made /\ cmd'[c].paper = cmd[c].paper
              /\ cmd'[c].at \in {"finally", "failing"}
         /\ Raises(c, code) /\ UNCHANGED files => Safe(c)
<1>1. CmdTypes /\ cmd[c] \in Records
  BY DEF IInv, CmdTypes
<1>2. ASSUME Raises(c, code)
      PROVE  /\ Stepped(c)
             /\ cmd'[c].made => cmd[c].made /\ cmd'[c].paper = cmd[c].paper
             /\ cmd'[c].at \in {"finally", "failing"}
  <2>1. CASE Leaves(c, code)
    BY <1>1, <2>1, Moved
  <2>2. CASE cmd[c].op = "batch" /\ Becomes(c, [cmd[c] EXCEPT !.at = "failing"])
    <3> DEFINE k == [cmd[c] EXCEPT !.at = "failing"]
    <3>1. k \in Records /\ Shaped(k) /\ k.at = "failing" /\ k.made = cmd[c].made /\ k.paper = cmd[c].paper
      BY <1>1, <2>2 DEF CmdTypes, Records, Shaped, Places, Running
    <3> HIDE DEF k
    <3>2. Becomes(c, k)
      BY <2>2 DEF k
    <3> QED BY <1>1, <3>1, <3>2, BecomesStepped
  <2> QED BY <1>2, <2>1, <2>2 DEF Raises
<1> QED BY <1>2, QuietSafe

\* What is known of a command that is at work on one paper.
LEMMA AtWork ==
  ASSUME IInv, NEW c \in Commands, Running(c), cmd[c].at # "next"
  PROVE  /\ CmdTypes /\ FileTypes /\ cmd[c] \in Records /\ Shaped(cmd[c])
         /\ cmd[c].paper \in Papers /\ cmd[c].verdict \in Verdict
  BY DEF IInv, CmdTypes, Shaped, Running, Records

\* NextFile, TakeVerdict and CountError only turn to something else.
LEMMA TurnSafe ==
  ASSUME IInv, NEW c \in Commands, NextFile(c) \/ TakeVerdict(c) \/ CountError(c)
  PROVE  Safe(c)
<1>1. CmdTypes /\ cmd[c] \in Records /\ Shaped(cmd[c]) /\ Running(c) /\ UNCHANGED files
  BY DEF IInv, CmdTypes, NextFile, TakeVerdict, CountError, Running, Ended
<1>2. ASSUME NEW k \in Records, Shaped(k), Becomes(c, k), k.made => cmd[c].made /\ k.paper = cmd[c].paper,
             k.at \notin {"replacing", "moving"}, ~(k.op = "pdf" /\ k.at = "converting")
      PROVE  Safe(c)
  BY <1>1, <1>2, BecomesStepped, QuietSafe
<1>3. ASSUME cmd[c].at = "next", NEW p \in cmd[c].todo,
             Becomes(c, [cmd[c] EXCEPT !.paper = p, !.todo = @ \ {p}, !.verdict = "reject",
                           !.at = IF cmd[c].op = "batch" THEN "loading" ELSE "converting"])
      PROVE  Safe(c)
  <2> DEFINE k == [cmd[c] EXCEPT !.paper = p, !.todo = @ \ {p}, !.verdict = "reject",
                     !.at = IF cmd[c].op = "batch" THEN "loading" ELSE "converting"]
  <2>1. cmd[c].op \in {"batch", "ingest"} /\ ~cmd[c].made /\ p \in Papers
    BY <1>1, <1>3 DEF Shaped, Records
  <2>2. k \in Records
    BY <1>1, <2>1 DEF Records, Places, Verdict
  <2>3. k.paper = p /\ ~k.made /\ k.op # "pdf" /\ k.at \in {"loading", "converting"}
    BY <1>1, <2>1 DEF Records
  <2>4. Becomes(c, k)
    BY <1>3
  <2> HIDE DEF k
  <2> QED BY <1>2, <2>1, <2>2, <2>3, <2>4 DEF Shaped
<1>4. CASE NextFile(c)
  <2>1. ASSUME NEW code \in Nat, Exits(c, code) PROVE Safe(c)
    BY <1>1, <2>1, Moved, QuietSafe
  <2> QED BY <1>3, <1>4, <2>1 DEF NextFile
<1>5. CASE TakeVerdict(c)
  <2>1. PICK v \in Verdict : Becomes(c, [cmd[c] EXCEPT !.verdict = v,
                               !.at = IF WantsNote(c, v) THEN "noting" ELSE "routing"])
    BY <1>5 DEF TakeVerdict, Verdict
  <2> DEFINE k == [cmd[c] EXCEPT !.verdict = v, !.at = IF WantsNote(c, v) THEN "noting" ELSE "routing"]
  <2>2. k \in Records /\ k.at \in {"noting", "routing"} /\ k.made = cmd[c].made /\ k.paper = cmd[c].paper /\ k.op = cmd[c].op
    BY <1>1 DEF Records, Places
  <2>3. cmd[c].paper \in Papers
    BY <1>1, <1>5 DEF TakeVerdict, Shaped, Ended
  <2>4. Becomes(c, k)
    BY <2>1
  <2> HIDE DEF k
  <2> QED BY <1>1, <1>2, <2>2, <2>3, <2>4 DEF Shaped
<1>6. CASE CountError(c)
  <2> DEFINE k == [cmd[c] EXCEPT !.at = "shelving", !.errors = @ + 1]
  <2>0. cmd[c].errors + 1 \in Nat
    BY <1>1 DEF Records
  <2>1. k \in Records /\ k.at = "shelving" /\ k.made = cmd[c].made /\ k.paper = cmd[c].paper /\ k.op = cmd[c].op
    BY <1>1, <2>0 DEF Records, Places
  <2>2. cmd[c].paper \in Papers /\ cmd[c].op \in {"batch", "ingest"}
    BY <1>1, <1>6 DEF CountError, Shaped, Ended
  <2>3. Becomes(c, k)
    BY <1>6 DEF CountError
  <2> HIDE DEF k
  <2> QED BY <1>1, <1>2, <2>1, <2>2, <2>3 DEF Shaped
<1> QED BY <1>4, <1>5, <1>6

\* StagePdf and Convert, after which there is a PDF behind the Markdown.
LEMMA MakeSafe ==
  ASSUME IInv, NEW c \in Commands, StagePdf(c) \/ Convert(c)
  PROVE  Safe(c)
<1>1. Running(c) /\ cmd[c].at \in {"staging", "converting"}
  BY DEF StagePdf, Convert, Running, Ended
<1>2. CmdTypes /\ FileTypes /\ cmd[c] \in Records /\ cmd[c].paper \in Papers
  BY <1>1, AtWork
<1>3. CASE StagePdf(c)
  <2>1. UNCHANGED <<clean, filed, pdfFiled, failed, note, atlas, rows>>
    BY <1>3 DEF StagePdf, markdown
  <2>2. CASE Moves(c, "staging", "converting") /\ pdf' = pdf \cup {cmd[c].paper}
    <3>1. Stepped(c) /\ cmd'[c] = [cmd[c] EXCEPT !.at = "converting"]
      BY <1>1, <1>2, <2>2, Moved DEF Places
    <3>2. FileTypes' /\ \A p \in Papers : (HasPdf(p) => HasPdf(p)') /\ (Kept(p) => Kept(p)')
      BY <1>2, <2>1, <2>2 DEF FileTypes, HasPdf, Kept
    <3>3. HasPdf(cmd[c].paper)' /\ cmd'[c].at = "converting"
      BY <1>2, <2>2, <3>1 DEF HasPdf, Records
    <3> QED BY <2>1, <3>1, <3>2, <3>3 DEF Safe
  <2>3. CASE Leaves(c, 3) /\ UNCHANGED pdf
    <3>1. UNCHANGED files
      BY <2>1, <2>3 DEF files, markdown
    <3> QED BY <1>1, <1>2, <2>3, <3>1, Moved, QuietSafe
  <2> QED BY <1>3, <2>2, <2>3 DEF StagePdf
<1>4. CASE Convert(c)
  <2>1. UNCHANGED <<pdf, filed, pdfFiled, failed, note, atlas, rows>>
    BY <1>4 DEF Convert
  <2>2. ASSUME clean' \in {clean, clean \cup {cmd[c].paper}}
        PROVE  FileTypes' /\ \A p \in Papers : (HasPdf(p) <=> HasPdf(p)') /\ (Kept(p) => Kept(p)')
    BY <1>2, <2>1, <2>2 DEF FileTypes, HasPdf, Kept
  <2>3. CASE /\ cmd[c].op = "pdf"
             /\ Becomes(c, [cmd[c] EXCEPT !.at = "loading", !.made = TRUE])
             /\ clean' = clean \cup {cmd[c].paper}
    <3> DEFINE k == [cmd[c] EXCEPT !.at = "loading", !.made = TRUE]
    <3>1. k \in Records /\ Shaped(k) /\ k.paper = cmd[c].paper /\ k.at = "loading"
      BY <1>2, <2>3 DEF Records, Places, Shaped
    <3>2. Becomes(c, k)
      BY <2>3
    <3> HIDE DEF k
    <3>3. Stepped(c) /\ cmd'[c] = k
      BY <1>2, <3>1, <3>2, BecomesStepped
    <3>4. HasPdf(cmd[c].paper)
      BY <1>4, <2>3 DEF Convert, IInv, Paired
    <3>5. HasPdf(cmd[c].paper)'
      BY <2>1, <3>1, <3>3, <3>4 DEF HasPdf
    <3> QED BY <2>2, <2>3, <3>1, <3>3, <3>5 DEF Safe
  <2>4. CASE \E code \in {2, 3} : Leaves(c, code) /\ UNCHANGED clean
    <3>1. UNCHANGED files
      BY <2>1, <2>4 DEF files, markdown
    <3> QED BY <1>1, <1>2, <2>4, <3>1, Moved, QuietSafe
  <2>5. CASE cmd[c].op = "ingest" /\ PutsDown(c) /\ clean' \in {clean, clean \cup {cmd[c].paper}}
    <3>1. Stepped(c) /\ cmd'[c].at = "next" /\ cmd'[c].op = cmd[c].op /\ ~cmd'[c].made
      BY <1>1, <1>2, <2>5, Moved
    <3> QED BY <2>2, <2>5, <3>1 DEF Safe
  <2> QED BY <1>4, <2>3, <2>4, <2>5 DEF Convert
<1> QED BY <1>3, <1>4

\* A step that adds to the notes, the atlas or the audit log at most.
LEMMA AddsSafe ==
  ASSUME IInv, NEW c \in Commands, Stepped(c), UNCHANGED <<pdf, clean, filed, pdfFiled, failed>>,
         note' \in {note, note \cup {cmd[c].paper}}, atlas' \in {atlas, atlas \cup {cmd[c].paper}},
         rows' \subseteq [by : Commands, paper : Papers, verdict : Verdict],
         cmd[c].paper \in Papers,
         cmd'[c].made => cmd[c].made /\ cmd'[c].paper = cmd[c].paper,
         cmd'[c].at \notin {"replacing", "moving", "converting"}
  PROVE  Safe(c)
<1>1. FileTypes'
  BY DEF IInv, FileTypes
<1>2. \A p \in Papers : (HasPdf(p) <=> HasPdf(p)') /\ (Kept(p) <=> Kept(p)')
  BY DEF HasPdf, Kept
<1>3. cmd'[c].made => HasPdf(cmd[c].paper)'
  BY DEF IInv, Paired, HasPdf
<1> QED BY <1>1, <1>2, <1>3 DEF Safe

\* LoadPaper, WriteNote, Locate and WriteAtlas.
LEMMA ReadSafe ==
  ASSUME IInv, NEW c \in Commands,
         LoadPaper(c) \/ WriteNote(c) \/ Locate(c) \/ WriteAtlas(c)
  PROVE  Safe(c)
<1>1. Running(c) /\ cmd[c].at \in {"loading", "noting", "locating", "asking"}
  BY DEF LoadPaper, WriteNote, Locate, WriteAtlas, Running, Ended
<1>2. CmdTypes /\ FileTypes /\ cmd[c] \in Records /\ cmd[c].paper \in Papers
  BY <1>1, AtWork
<1>3. ASSUME NEW from, NEW to \in {"asking", "routing"}, Moves(c, from, to), from # "next"
      PROVE  /\ Stepped(c) /\ cmd'[c].at = to
             /\ cmd'[c].made = cmd[c].made /\ cmd'[c].paper = cmd[c].paper
  <2>1. to \in Places \ {"next", "failing", "shelving"}
    BY DEF Places
  <2>2. Stepped(c) /\ cmd'[c] = [cmd[c] EXCEPT !.at = to]
    BY <1>1, <1>2, <1>3, <2>1, Moved
  <2> QED BY <1>2, <2>2 DEF Records
<1>4. CASE LoadPaper(c)
  <2>1. CASE Moves(c, "loading", "asking")
    BY <1>3, <1>4, <2>1, QuietSafe DEF LoadPaper
  <2>2. CASE Raises(c, 4)
    BY <1>1, <1>4, <2>2, RaisesSafe DEF LoadPaper
  <2> QED BY <1>4, <2>1, <2>2 DEF LoadPaper
<1>5. CASE WriteNote(c)
  <2>1. UNCHANGED <<pdf, clean, filed, pdfFiled, failed, atlas, rows>>
    BY <1>5 DEF WriteNote, markdown
  <2>2. rows \subseteq [by : Commands, paper : Papers, verdict : Verdict]
    BY <1>2 DEF FileTypes
  <2>3. CASE Moves(c, "noting", "routing") /\ note' = note \cup {cmd[c].paper}
    BY <1>2, <1>3, <2>1, <2>2, <2>3, AddsSafe
  <2>4. CASE Raises(c, 6) /\ note' \in {note, note \cup {cmd[c].paper}}
    BY <1>1, <1>2, <2>1, <2>2, <2>4, RaisesSafe, AddsSafe
  <2> QED BY <1>5, <2>3, <2>4 DEF WriteNote
<1>6. CASE Locate(c)
  <2>1. CASE Moves(c, "locating", "asking")
    BY <1>3, <1>6, <2>1, QuietSafe DEF Locate
  <2>2. ASSUME NEW code \in Nat, Exits(c, code) PROVE Safe(c)
    BY <1>1, <1>2, <1>6, <2>2, Moved, QuietSafe DEF Locate
  <2> QED BY <1>6, <2>1, <2>2 DEF Locate
<1>7. CASE WriteAtlas(c)
  <2>1. UNCHANGED <<pdf, clean, filed, pdfFiled, failed, note, rows>>
    BY <1>7 DEF WriteAtlas, markdown
  <2>2. rows \subseteq [by : Commands, paper : Papers, verdict : Verdict]
    BY <1>2 DEF FileTypes
  <2>3. atlas' \in {atlas, atlas \cup {cmd[c].paper}} /\ (Exits(c, 0) \/ Exits(c, 5))
    BY <1>7 DEF WriteAtlas
  <2>4. Stepped(c) /\ cmd'[c].at = "exited" /\ ~cmd'[c].made
    BY <1>1, <1>2, <2>3, Moved
  <2> QED BY <1>2, <2>1, <2>2, <2>3, <2>4, AddsSafe
<1> QED BY <1>4, <1>5, <1>6, <1>7

\* route_and_cleanup, from its check to its audit row: the copy that makes way is a
\* copy of Markdown that is still there.
LEMMA RouteSafe ==
  ASSUME IInv, NEW c \in Commands,
         RouteChecks(c) \/ RouteReplaces(c) \/ RouteMoves(c) \/ RoutePdf(c) \/ RouteAudits(c)
  PROVE  Safe(c)
<1> DEFINE p == cmd[c].paper
           v == cmd[c].verdict
<1>1. Running(c) /\ cmd[c].at \in {"routing", "replacing", "moving", "pairing", "auditing"}
  BY DEF RouteChecks, RouteReplaces, RouteMoves, RoutePdf, RouteAudits, Moves, Running, Ended
<1>2. CmdTypes /\ FileTypes /\ cmd[c] \in Records /\ p \in Papers /\ v \in Verdict
  BY <1>1, AtWork
<1>3. ASSUME NEW from, NEW to \in {"replacing", "moving", "pairing", "auditing"},
             Moves(c, from, to), from # "next"
      PROVE  /\ Stepped(c) /\ cmd'[c].at = to /\ clash \subseteq clash'
             /\ cmd'[c].made = cmd[c].made /\ cmd'[c].paper = p
  <2>1. to \in Places \ {"next", "failing", "shelving"}
    BY DEF Places
  <2>2. Stepped(c) /\ cmd'[c] = [cmd[c] EXCEPT !.at = to]
    BY <1>1, <1>2, <1>3, <2>1, Moved
  <2> QED BY <1>2, <2>2 DEF Records, Stepped
<1>4. ASSUME NEW code \in Nat, Raises(c, code), UNCHANGED files PROVE Safe(c)
  BY <1>1, <1>4, RaisesSafe
<1>5. cmd[c].made => HasPdf(p)
  BY DEF IInv, Paired
<1>6. CASE RouteChecks(c)
  <2>1. CASE p \in clean /\ Moves(c, "routing", "replacing")
    <3>1. UNCHANGED <<pdf, clean, filed, pdfFiled, failed, note, atlas, rows>>
      BY <1>6 DEF RouteChecks, files, markdown
    <3>2. FileTypes' /\ \A q \in Papers : (HasPdf(q) <=> HasPdf(q)') /\ (Kept(q) <=> Kept(q)')
      BY <1>2, <3>1 DEF FileTypes, HasPdf, Kept
    <3>3. Stepped(c) /\ cmd'[c].at = "replacing" /\ cmd'[c].made = cmd[c].made /\ cmd'[c].paper = p
      BY <1>3, <2>1
    <3>4. cmd'[c].made => HasPdf(cmd[c].paper)'
      BY <1>5, <3>1, <3>3 DEF HasPdf
    <3> QED BY <2>1, <3>1, <3>2, <3>3, <3>4 DEF Safe
  <2> QED BY <1>4, <1>6, <2>1 DEF RouteChecks
<1>7. CASE RouteReplaces(c)
  <2>1. CASE Moves(c, "replacing", "moving") /\ filed' = [filed EXCEPT ![p] = @ \ {v}]
    <3>1. UNCHANGED <<pdf, clean, pdfFiled, failed, note, atlas, rows>>
      BY <1>7 DEF RouteReplaces
    <3>2. FileTypes' /\ \A q \in Papers : HasPdf(q) <=> HasPdf(q)'
      BY <1>2, <2>1, <3>1 DEF FileTypes, HasPdf
    <3>3. /\ Stepped(c) /\ cmd'[c].at = "moving" /\ cmd'[c].made = cmd[c].made
          /\ cmd'[c].paper = p /\ clash \subseteq clash'
      BY <1>3, <2>1
    <3>4. cmd'[c].made => HasPdf(cmd[c].paper)'
      BY <1>5, <3>1, <3>3 DEF HasPdf
    <3>5. p \notin clash => p \in clean
      BY <2>1 DEF Moves, IInv, Backed
    <3>6. \A q \in Papers : Kept(q) /\ q \notin clash' => Kept(q)'
      BY <1>2, <2>1, <3>1, <3>3, <3>5 DEF Kept, FileTypes
    <3> QED BY <3>1, <3>2, <3>3, <3>4, <3>5, <3>6 DEF Safe
  <2>2. CASE Raises(c, 7) /\ UNCHANGED filed
    <3>1. UNCHANGED files
      BY <1>7, <2>2 DEF RouteReplaces, files, markdown
    <3> QED BY <1>4, <2>2, <3>1
  <2> QED BY <1>7, <2>1, <2>2 DEF RouteReplaces
<1>8. CASE RouteMoves(c)
  <2>1. CASE /\ p \in clean
             /\ Moves(c, "moving", "pairing")
             /\ clean' = clean \ {p}
             /\ filed' = [filed EXCEPT ![p] = @ \cup {v}]
    <3>1. UNCHANGED <<pdf, pdfFiled, failed, note, atlas, rows>>
      BY <1>8 DEF RouteMoves
    <3>2. FileTypes' /\ \A q \in Papers : (HasPdf(q) <=> HasPdf(q)') /\ (Kept(q) => Kept(q)')
      BY <1>2, <2>1, <3>1 DEF FileTypes, HasPdf, Kept
    <3>3. Stepped(c) /\ cmd'[c].at = "pairing" /\ cmd'[c].made = cmd[c].made /\ cmd'[c].paper = p
      BY <1>3, <2>1
    <3>4. cmd'[c].made => HasPdf(cmd[c].paper)'
      BY <1>5, <3>1, <3>3 DEF HasPdf
    <3> QED BY <1>1, <2>1, <3>2, <3>3, <3>4 DEF Safe
  <2>2. CASE Raises(c, 7) /\ UNCHANGED <<clean, filed>>
    <3>1. UNCHANGED files
      BY <1>8, <2>2 DEF RouteMoves, files, markdown
    <3> QED BY <1>4, <2>2, <3>1
  <2> QED BY <1>8, <2>1, <2>2 DEF RouteMoves
<1>9. CASE RoutePdf(c)
  <2>1. UNCHANGED <<clean, filed, failed, note, atlas, rows>> /\ Moves(c, "pairing", "auditing")
    BY <1>9 DEF RoutePdf, markdown
  <2>2. \/ p \in pdf /\ pdf' = pdf \ {p} /\ pdfFiled' = [pdfFiled EXCEPT ![p] = @ \cup {v}]
        \/ p \in pdf /\ pdfFiled' = [pdfFiled EXCEPT ![p] = @ \ {v}] /\ UNCHANGED pdf
        \/ UNCHANGED <<pdf, pdfFiled>>
    BY <1>9 DEF RoutePdf
  <2>3. FileTypes'
    BY <1>2, <2>1, <2>2 DEF FileTypes
  <2>4. \A q \in Papers : HasPdf(q) => HasPdf(q)'
    BY <1>2, <2>2 DEF FileTypes, HasPdf
  <2>5. \A q \in Papers : Kept(q) => Kept(q)'
    BY <2>1, <2>4 DEF Kept, HasPdf
  <2>6. Stepped(c) /\ cmd'[c].at = "auditing" /\ cmd'[c].made = cmd[c].made /\ cmd'[c].paper = p
    BY <1>3, <2>1
  <2>7. cmd'[c].made => HasPdf(cmd[c].paper)'
    BY <1>2, <1>5, <2>4, <2>6 DEF HasPdf
  <2> QED BY <2>1, <2>3, <2>4, <2>5, <2>6, <2>7 DEF Safe
<1>10. CASE RouteAudits(c)
  <2>1. UNCHANGED <<pdf, clean, filed, pdfFiled, failed, note, atlas>>
    BY <1>10 DEF RouteAudits, markdown
  <2>2. CASE rows' = rows \cup {[by |-> c, paper |-> p, verdict |-> v]}
    <3>1. rows' \subseteq [by : Commands, paper : Papers, verdict : Verdict]
      BY <1>2, <2>2 DEF FileTypes
    <3>2. CASE IsSingle(c) /\ Leaves(c, 0)
      BY <1>1, <1>2, <2>1, <3>1, <3>2, Moved, AddsSafe
    <3>3. CASE cmd[c].op = "batch" /\ PutsDown(c)
      BY <1>1, <1>2, <2>1, <3>1, <3>3, Moved, AddsSafe
    <3>4. CASE Raises(c, 7)
      BY <1>1, <1>2, <2>1, <3>1, <3>4, RaisesSafe, AddsSafe
    <3> QED BY <1>10, <3>2, <3>3, <3>4 DEF RouteAudits
  <2>3. CASE Raises(c, 7) /\ UNCHANGED rows
    <3>1. UNCHANGED files
      BY <2>1, <2>3 DEF files, markdown
    <3> QED BY <1>4, <2>3, <3>1
  <2> QED BY <1>10, <2>2, <2>3 DEF RouteAudits
<1> QED BY <1>6, <1>7, <1>8, <1>9, <1>10

\* ShelveFailed and Finally: Markdown goes when a copy is set aside, or when MinerU can
\* make it again from the PDF.
LEMMA ClearSafe ==
  ASSUME IInv, NEW c \in Commands, ShelveFailed(c) \/ Finally(c)
  PROVE  Safe(c)
<1> DEFINE p == cmd[c].paper
<1>1. Running(c) /\ cmd[c].at \in {"shelving", "finally"}
  BY DEF ShelveFailed, Finally, Running, Ended
<1>2. CmdTypes /\ FileTypes /\ cmd[c] \in Records /\ Shaped(cmd[c]) /\ p \in Papers
  BY <1>1, AtWork
<1>3. cmd[c].made => HasPdf(p)
  BY DEF IInv, Paired
<1>4. CASE ShelveFailed(c)
  <2>1. UNCHANGED <<pdf, filed, pdfFiled, note, atlas, rows>>
    BY <1>4 DEF ShelveFailed
  <2>2. \/ p \in clean /\ clean' = clean \ {p} /\ failed' = failed \cup {p}
        \/ p \in clean /\ UNCHANGED clean /\ failed' \in {failed, failed \ {p}}
        \/ UNCHANGED <<clean, failed>>
    BY <1>4 DEF ShelveFailed
  <2>3. FileTypes'
    BY <1>2, <2>1, <2>2 DEF FileTypes
  <2>4. \A q \in Papers : (HasPdf(q) <=> HasPdf(q)') /\ (Kept(q) => Kept(q)')
    BY <2>1, <2>2 DEF HasPdf, Kept
  <2>5. \A q \in clean \ clean' : q = p
    BY <2>2
  <2>6. PutsDown(c) \/ Exits(c, 99)
    BY <1>4 DEF ShelveFailed
  <2>7. cmd[c].op \in {"batch", "ingest"}
    BY <1>2, <1>4 DEF ShelveFailed, Shaped
  <2>8. Stepped(c) /\ cmd'[c].at \in {"next", "exited"} /\ ~cmd'[c].made
    BY <1>1, <1>2, <2>6, <2>7, Moved
  <2> QED BY <1>1, <2>3, <2>4, <2>5, <2>8 DEF Safe
<1>5. CASE Finally(c)
  <2>1. UNCHANGED <<pdf, filed, pdfFiled, failed, note, atlas, rows>>
    BY <1>5 DEF Finally
  <2>2. clean' = clean \/ (cmd[c].made /\ clean' = clean \ {p})
    BY <1>5 DEF Finally
  <2>3. FileTypes'
    BY <1>2, <2>1, <2>2 DEF FileTypes
  <2>4. \A q \in Papers : (HasPdf(q) <=> HasPdf(q)') /\ (Kept(q) => Kept(q)')
    BY <1>3, <2>1, <2>2 DEF HasPdf, Kept
  <2>5. \A q \in clean \ clean' : q = p
    BY <2>2
  <2>6. Exits(c, cmd[c].code) /\ cmd[c].code \in Nat
    BY <1>2, <1>5 DEF Finally, Records
  <2>7. Stepped(c) /\ cmd'[c].at = "exited" /\ ~cmd'[c].made
    BY <1>1, <1>2, <2>6, Moved
  <2> QED BY <1>1, <2>3, <2>4, <2>5, <2>7 DEF Safe
<1> QED BY <1>4, <1>5

\* A request leaves everything but its own count as it is.
LEMMA ActsSafe ==
  ASSUME IInv, NEW c \in Commands, Acts(c)
  PROVE  Safe(c) \/ UNCHANGED <<files, cmd, clash>>
<1>1. ASSUME NEW q \in Questions, Attempt(c, q) PROVE UNCHANGED <<files, cmd, clash>>
  BY <1>1 DEF Attempt
<1>2. ASSUME Step(c), ~\E q \in Questions : Attempt(c, q) PROVE Safe(c)
  BY <1>2, TurnSafe, MakeSafe, ReadSafe, RouteSafe, ClearSafe DEF Step
<1> QED BY <1>1, <1>2, StartSafe, EndSafe DEF Acts

-----------------------------------------------------------------------------
(* The invariant *)

LEMMA InitIInv == Init => IInv
<1> SUFFICES ASSUME Init PROVE IInv
  OBVIOUS
<1>1. FileTypes
  <2>1. filed \in [Papers -> SUBSET Verdict] /\ note \subseteq Papers
    BY DEF Init
  <2> QED BY <2>1 DEF Init, FileTypes
<1>2. Unstarted \in Records /\ Shaped(Unstarted)
  BY DEF Unstarted, Records, Shaped, Places, Ended, Verdict, Scripts
<1>3. \A c \in Commands : cmd[c] = Unstarted
  BY DEF Init
<1>4. CmdTypes
  BY <1>2 DEF Init, CmdTypes
<1>5. Alone /\ Paired /\ Backed
  BY <1>3 DEF Alone, Paired, Backed, Running, Unstarted, Ended
<1>6. Unasked \in Calls
  BY CommandsAssumption DEF CommandsAssumption, Unasked, Calls
<1>7. AskTypes
  BY <1>6 DEF Init, AskTypes
<1> QED BY <1>1, <1>4, <1>5, <1>7 DEF IInv

\* No attempt is one too many.
LEMMA AskStep ==
  ASSUME IInv, NEW c \in Commands, Acts(c)
  PROVE  AskTypes'
<1> USE CommandsAssumption DEF CommandsAssumption
<1>1. ask \in [Commands -> Calls]
  BY DEF IInv, AskTypes
<1>2. Unasked \in Calls
  BY DEF Unasked, Calls
<1>3. CASE UNCHANGED ask \/ ask' = [ask EXCEPT ![c] = Unasked]
  BY <1>1, <1>2, <1>3 DEF AskTypes
<1>4. ASSUME NEW q \in Questions, Attempt(c, q) PROVE AskTypes'
  <2>1. ask[c][q] \in [tries : 0..(Attempts - 1), answer : {"open", "ok", "error"}]
    BY <1>1 DEF Calls
  <2>2. PICK x \in [tries : 0..(Attempts - 1), answer : {"open", "ok", "error"}] :
          ask' = [ask EXCEPT ![c][q] = x]
    <3>1. ASSUME NEW outcome \in {"ok", "error"}, Answered(c, q, outcome)
          PROVE  \E x \in [tries : 0..(Attempts - 1), answer : {"open", "ok", "error"}] :
                   ask' = [ask EXCEPT ![c][q] = x]
      <4> DEFINE x == [ask[c][q] EXCEPT !.answer = outcome]
      <4>1. x \in [tries : 0..(Attempts - 1), answer : {"open", "ok", "error"}]
        BY <2>1
      <4>2. ask' = [ask EXCEPT ![c][q] = x]
        BY <3>1, <1>1 DEF Answered
      <4> QED BY <4>1, <4>2
    <3>2. ASSUME ask[c][q].tries + 1 < Attempts, ask' = [ask EXCEPT ![c][q].tries = @ + 1]
          PROVE  \E x \in [tries : 0..(Attempts - 1), answer : {"open", "ok", "error"}] :
                   ask' = [ask EXCEPT ![c][q] = x]
      <4> DEFINE x == [ask[c][q] EXCEPT !.tries = @ + 1]
      <4>1. ask[c][q].tries + 1 \in 0..(Attempts - 1)
        BY <2>1, <3>2
      <4>2. x \in [tries : 0..(Attempts - 1), answer : {"open", "ok", "error"}]
        BY <2>1, <4>1
      <4>3. ask' = [ask EXCEPT ![c][q] = x]
        BY <3>2, <1>1
      <4> QED BY <4>2, <4>3
    <3> QED BY <1>4, <3>1, <3>2 DEF Attempt
  <2>3. [ask[c] EXCEPT ![q] = x] \in Calls
    BY <1>1, <2>2 DEF Calls
  <2>4. ask' = [ask EXCEPT ![c] = [ask[c] EXCEPT ![q] = x]]
    BY <2>2
  <2> QED BY <1>1, <2>3, <2>4 DEF AskTypes
<1>5. CASE Start(c) \/ Interrupt(c) \/ Dies(c)
  BY <1>3, <1>5 DEF Start, StartLens, StartSingle, StartAll, Starts, Interrupt, Dies
<1>6. ASSUME Step(c), ~\E q \in Questions : Attempt(c, q) PROVE AskTypes'
  BY <1>3, <1>6 DEF Step, NextFile, StagePdf, Convert, LoadPaper, TakeVerdict, WriteNote,
     RouteChecks, RouteReplaces, RouteMoves, RoutePdf, RouteAudits, CountError, ShelveFailed,
     Finally, Locate, WriteAtlas
<1> QED BY <1>4, <1>5, <1>6 DEF Acts

LEMMA SafeStep ==
  ASSUME IInv, NEW c \in Commands, Safe(c)
  PROVE  FileTypes' /\ CmdTypes' /\ Alone' /\ Paired' /\ Backed'
<1>1. /\ cmd \in [Commands -> Records] /\ cmd'[c] \in Records /\ Shaped(cmd'[c])
      /\ cmd' = [cmd EXCEPT ![c] = cmd'[c]]
      /\ clash \subseteq clash' /\ clash' \subseteq Papers
  BY DEF Safe, Stepped, IInv, CmdTypes
<1>2. \A d \in Commands \ {c} : cmd'[d] = cmd[d]
  BY <1>1
<1>3. CmdTypes'
  <2>1. cmd' \in [Commands -> Records]
    BY <1>1
  <2>2. \A d \in Commands : Shaped(cmd'[d])
    BY <1>1, <1>2 DEF IInv, CmdTypes
  <2> QED BY <1>1, <2>1, <2>2 DEF CmdTypes, Shaped
<1>4. Alone'
  <2> SUFFICES ASSUME NEW a \in Commands, NEW b \in Commands, a # b, Running(a)', Running(b)',
                      cmd'[a].paper = cmd'[b].paper, cmd'[a].paper # NoPaper
               PROVE  cmd'[a].paper \in clash'
    BY DEF Alone
  <2>1. CASE a = c
    BY <1>2, <2>1 DEF Safe, Stepped, Running
  <2>2. CASE b = c
    BY <1>2, <2>2 DEF Safe, Stepped, Running
  <2>3. CASE a # c /\ b # c
    BY <1>1, <1>2, <2>3 DEF IInv, Alone, Running
  <2> QED BY <2>1, <2>2, <2>3
<1>5. Paired'
  <2> SUFFICES ASSUME NEW d \in Commands,
                      cmd'[d].made \/ (cmd'[d].op = "pdf" /\ cmd'[d].at = "converting")
               PROVE  HasPdf(cmd[d].paper)'
    BY DEF Paired
  <2>1. CASE d = c
    BY <2>1 DEF Safe
  <2>2. CASE d # c
    <3>1. cmd'[d] = cmd[d] /\ HasPdf(cmd[d].paper)
      BY <1>2, <2>2 DEF IInv, Paired
    <3>2. cmd[d].paper \in Papers
      BY <1>2, <3>1 DEF IInv, CmdTypes, Shaped, Ended
    <3> QED BY <3>1, <3>2 DEF Safe, HasPdf
  <2> QED BY <2>1, <2>2
<1>6. Backed'
  <2> SUFFICES ASSUME NEW d \in Commands,
                      cmd'[d].at \in {"replacing", "moving"}, cmd'[d].paper \notin clash'
               PROVE  cmd'[d].paper \in clean'
    BY DEF Backed
  <2>1. CASE d = c
    BY <2>1 DEF Safe
  <2>2. CASE d # c
    <3>1. cmd'[d] = cmd[d] /\ cmd[d].paper \in clean
      BY <1>1, <1>2, <2>2 DEF IInv, Backed
    <3>2. Running(d) /\ cmd[d].paper \in Papers
      BY <3>1 DEF Running, Ended, IInv, FileTypes
    <3>3. cmd[d].paper \notin clash /\ cmd[d].paper # NoPaper
      BY <1>1, <3>1, <3>2, CommandsAssumption DEF CommandsAssumption
    <3>4. ~(Running(c) /\ cmd[c].paper = cmd[d].paper)
      BY <2>2, <3>2, <3>3 DEF IInv, Alone
    <3> QED BY <3>1, <3>4 DEF Safe
  <2> QED BY <2>1, <2>2
<1> QED BY <1>3, <1>4, <1>5, <1>6 DEF Safe

LEMMA NextIInv ==
  ASSUME IInv, [Next]_vars
  PROVE  IInv'
<1>1. ASSUME UNCHANGED <<files, cmd, clash>>
      PROVE  FileTypes' /\ CmdTypes' /\ Alone' /\ Paired' /\ Backed'
  BY <1>1 DEF IInv, FileTypes, CmdTypes, Shaped, Alone, Paired, Backed, HasPdf, Running, files, markdown
<1>2. ASSUME NEW c \in Commands, Acts(c) PROVE IInv'
  BY <1>1, <1>2, ActsSafe, AskStep, SafeStep DEF IInv
<1>3. CASE UNCHANGED vars
  BY <1>1, <1>3 DEF vars, IInv, AskTypes
<1> QED BY <1>2, <1>3 DEF Next, Acts

-----------------------------------------------------------------------------
(* Theorems *)

\* The invariant holds, for any commands at once on any papers.
THEOREM Invariance == Spec => []IInv
<1> QED BY InitIInv, NextIInv, PTL DEF Spec

\* Every variable keeps its type, and the retries of the LLM client stay under
\* stop_after_attempt.
THEOREM TypeCorrect == Spec => []TypeOK
<1>1. IInv => TypeOK
  BY DEF IInv, FileTypes, CmdTypes, AskTypes, Calls, Records, Places, TypeOK
<1> QED BY <1>1, Invariance, PTL

\* The archive adapter and run_single's cleanup lose no paper that one command at a
\* time has in hand.
THEOREM PapersAreKept == Spec => PaperIsKept
<1>1. IInv /\ [Next]_vars => [\A p \in Papers : Kept(p) /\ p \notin clash' => Kept(p)']_vars
  <2> SUFFICES ASSUME IInv, NEW c \in Commands, Acts(c), NEW p \in Papers, Kept(p), p \notin clash'
               PROVE  Kept(p)'
    BY DEF Next, Acts
  <2>1. CASE Safe(c)
    BY <2>1 DEF Safe
  <2>2. CASE UNCHANGED <<files, cmd, clash>>
    BY <2>2 DEF files, markdown, Kept
  <2> QED BY <2>1, <2>2, ActsSafe
<1> QED BY <1>1, Invariance, PTL DEF Spec, PaperIsKept

-----------------------------------------------------------------------------
(* What a command has done of what its exit code says *)

Judging == {"loading", "asking", "noting", "routing", "replacing", "moving", "pairing", "auditing"}

\* The places a script comes to, and that a command not yet started has no row.
OnCourse(c) ==
  LET op == cmd[c].op
      at == cmd[c].at
  IN /\ IsSingle(c) => at \in Judging \cup {"staging", "converting", "finally", "exited"}
     /\ op = "batch" => at \in Judging \cup {"next", "failing", "shelving", "exited"}
     /\ op = "ingest" => at \in {"next", "converting", "exited"}
     /\ op = "lens" => at \in {"locating", "asking", "exited"}
     /\ op = "none" => at \in {"idle", "dead"}
     /\ at = "idle" => RowsOf(c) = {}

\* A verdict that calls for a note has it once the paper is routed.
Noted(c) ==
  cmd[c].at \in {"routing", "replacing", "moving", "pairing", "auditing"}
    /\ WantsNote(c, cmd[c].verdict) => cmd[c].paper \in note

\* The paper of the command is in the log, with the note its verdict calls for.
Done(c) ==
  \E r \in rows : /\ r.by = c /\ r.paper = cmd[c].paper
                  /\ WantsNote(c, r.verdict) => r.paper \in note

\* run_single has a row once it leaves with 0, and none before.
SingleTold(c) ==
  IsSingle(c) =>
    IF cmd[c].at \in {"finally", "exited"}
    THEN (cmd[c].code = 0 => Done(c)) /\ (cmd[c].code \notin {0, 130} => RowsOf(c) = {})
    ELSE RowsOf(c) = {}

\* The files a batch has taken up that have no row.
Behind(c) == (cmd[c].found \ cmd[c].todo) \ RowsOf(c)

\* They are the errors it has counted, and the one in hand before it is counted.
BatchTold(c) ==
  cmd[c].op = "batch" =>
    IF cmd[c].at = "exited"
    THEN cmd[c].code \in {0, 1} => Cardinality(cmd[c].found \ RowsOf(c)) = cmd[c].errors
    ELSE /\ cmd[c].todo \subseteq cmd[c].found /\ RowsOf(c) \cap cmd[c].todo = {}
         /\ cmd[c].at # "next" => cmd[c].paper \in Behind(c)
         /\ Cardinality(Behind(c)) =
              cmd[c].errors + IF cmd[c].at \in {"next", "shelving"} THEN 0 ELSE 1

Told(c) == OnCourse(c) /\ Noted(c) /\ SingleTold(c) /\ BatchTold(c)

Honest == \A c \in Commands : Told(c)

LEMMA OthersTold ==
  ASSUME NEW c \in Commands, NEW d \in Commands, d # c, Told(d), cmd'[d] = cmd[d],
         rows \subseteq rows', \A r \in rows' \ rows : r.by = c, note \subseteq note'
  PROVE  Told(d)'
<1>1. RowsOf(d)' = RowsOf(d)
  BY DEF RowsOf
<1>2. OnCourse(d)'
  BY <1>1 DEF Told, OnCourse, IsSingle
<1>3. Noted(d)'
  BY DEF Told, Noted, WantsNote, IsSingle
<1>4. Done(d) => Done(d)'
  BY DEF Done, WantsNote, IsSingle
<1>5. SingleTold(d)'
  BY <1>1, <1>4 DEF Told, SingleTold, IsSingle
<1>6. BatchTold(d)'
  BY <1>1 DEF Told, BatchTold, Behind
<1> QED BY <1>2, <1>3, <1>5, <1>6 DEF Told

-----------------------------------------------------------------------------
(* The ways a command goes on *)

\* The command stays what it is, with the paper it has.
Same(c) ==
  /\ cmd'[c].op = cmd[c].op /\ cmd'[c].force = cmd[c].force /\ cmd'[c].paper = cmd[c].paper
  /\ cmd'[c].found = cmd[c].found /\ cmd'[c].errors = cmd[c].errors

LEMMA WaysOn ==
  ASSUME CmdTypes, NEW c \in Commands
  PROVE  /\ \A from, to : Moves(c, from, to) =>
              /\ Same(c) /\ cmd'[c].todo = cmd[c].todo
              /\ cmd[c].at = from /\ cmd'[c].at = to /\ cmd'[c].verdict = cmd[c].verdict
         /\ \A code : Leaves(c, code) =>
              /\ Same(c) /\ cmd'[c].todo = cmd[c].todo
              /\ cmd'[c].at = "finally" /\ cmd'[c].code = code
         /\ \A code : Exits(c, code) =>
              Same(c) /\ cmd'[c].at = "exited" /\ cmd'[c].code = code
         /\ PutsDown(c) =>
              /\ cmd'[c].op = cmd[c].op /\ cmd'[c].found = cmd[c].found
              /\ cmd'[c].errors = cmd[c].errors /\ cmd'[c].todo = cmd[c].todo
              /\ cmd'[c].at = "next"
         /\ Becomes(c, [cmd[c] EXCEPT !.at = "failing"]) =>
              Same(c) /\ cmd'[c].todo = cmd[c].todo /\ cmd'[c].at = "failing"
<1>1. cmd[c] \in Records /\ \A k : Becomes(c, k) => cmd'[c] = k
  BY DEF CmdTypes, Becomes
<1> DEFINE k0 == cmd[c]
<1>2. k0 \in Records
  BY <1>1
<1>3. \A from, to : Moves(c, from, to) => k0.at = from /\ cmd'[c] = [k0 EXCEPT !.at = to]
  BY <1>1 DEF Moves
<1>4. \A code : Leaves(c, code) =>
          cmd'[c] = [k0 EXCEPT !.at = "finally", !.code = code, !.verdict = "reject"]
  BY <1>1 DEF Leaves
<1>5. \A code : Exits(c, code) =>
          cmd'[c] = [k0 EXCEPT !.at = "exited", !.code = code, !.todo = {},
                               !.verdict = "reject", !.made = FALSE]
  BY <1>1 DEF Exits
<1>6. PutsDown(c) =>
          cmd'[c] = [k0 EXCEPT !.at = "next", !.paper = NoPaper, !.verdict = "reject"]
  BY <1>1 DEF PutsDown
<1>7. Becomes(c, [k0 EXCEPT !.at = "failing"]) => cmd'[c] = [k0 EXCEPT !.at = "failing"]
  BY <1>1
<1>8. Same(c) <=>
        /\ cmd'[c].op = k0.op /\ cmd'[c].force = k0.force /\ cmd'[c].paper = k0.paper
        /\ cmd'[c].found = k0.found /\ cmd'[c].errors = k0.errors
  BY DEF Same
<1> HIDE DEF k0
<1>9. ASSUME NEW from, NEW to, Moves(c, from, to)
      PROVE  /\ Same(c) /\ cmd'[c].todo = k0.todo
             /\ k0.at = from /\ cmd'[c].at = to /\ cmd'[c].verdict = k0.verdict
  <2>1. k0.at = from /\ cmd'[c] = [k0 EXCEPT !.at = to]
    BY <1>3, <1>9
  <2> QED BY <1>2, <1>8, <2>1 DEF Records
<1>10. ASSUME NEW code, Leaves(c, code)
       PROVE  /\ Same(c) /\ cmd'[c].todo = k0.todo
              /\ cmd'[c].at = "finally" /\ cmd'[c].code = code
  <2>1. cmd'[c] = [k0 EXCEPT !.at = "finally", !.code = code, !.verdict = "reject"]
    BY <1>4, <1>10
  <2> QED BY <1>2, <1>8, <2>1 DEF Records
<1>11. ASSUME NEW code, Exits(c, code)
       PROVE  Same(c) /\ cmd'[c].at = "exited" /\ cmd'[c].code = code
  <2>1. cmd'[c] = [k0 EXCEPT !.at = "exited", !.code = code, !.todo = {},
                             !.verdict = "reject", !.made = FALSE]
    BY <1>5, <1>11
  <2> QED BY <1>2, <1>8, <2>1 DEF Records
<1>12. PutsDown(c) =>
              /\ cmd'[c].op = k0.op /\ cmd'[c].found = k0.found
              /\ cmd'[c].errors = k0.errors /\ cmd'[c].todo = k0.todo
              /\ cmd'[c].at = "next"
  BY <1>2, <1>6 DEF Records
<1>13. Becomes(c, [k0 EXCEPT !.at = "failing"]) =>
              Same(c) /\ cmd'[c].todo = k0.todo /\ cmd'[c].at = "failing"
  BY <1>2, <1>7, <1>8 DEF Records
<1> QED BY <1>9, <1>10, <1>11, <1>12, <1>13 DEF k0

\* It goes on with the paper.
LEMMA KeepsOn ==
  ASSUME NEW c \in Commands, Told(c), Same(c), cmd'[c].todo = cmd[c].todo, UNCHANGED rows,
         OnCourse(c)', Noted(c)',
         cmd[c].at \notin {"next", "shelving", "finally", "exited"},
         cmd'[c].at \notin {"next", "shelving", "finally", "exited"}
  PROVE  Told(c)'
<1>1. RowsOf(c)' = RowsOf(c)
  BY DEF RowsOf
<1>2. SingleTold(c)'
  BY <1>1 DEF Told, SingleTold, IsSingle, Same
<1>3. BatchTold(c)'
  BY <1>1 DEF Told, BatchTold, Behind, Same
<1> QED BY <1>2, <1>3 DEF Told

\* run_single leaves with the code of a stage, or interrupted.
LEMMA LeavesEarly ==
  ASSUME IInv, NEW c \in Commands, Told(c), IsSingle(c), NEW code, code # 0, Leaves(c, code),
         UNCHANGED rows, cmd[c].at \notin {"finally", "exited"}
  PROVE  Told(c)'
<1>1. Same(c) /\ cmd'[c].at = "finally" /\ cmd'[c].code # 0
  BY WaysOn DEF IInv
<1>2. RowsOf(c)' = RowsOf(c) /\ RowsOf(c) = {}
  BY DEF RowsOf, Told, SingleTold
<1>3. OnCourse(c)' /\ Noted(c)'
  BY <1>1 DEF OnCourse, Noted, IsSingle, Same
<1>4. SingleTold(c)' /\ BatchTold(c)'
  BY <1>1, <1>2 DEF SingleTold, BatchTold, IsSingle, Same
<1> QED BY <1>3, <1>4 DEF Told

\* A process ends: run_single out of its finally clause, a batch when no file is left
\* or with another code.
LEMMA EndsTold ==
  ASSUME IInv, NEW c \in Commands, Told(c), NEW code, Exits(c, code), UNCHANGED rows,
         note \subseteq note', cmd[c].op # "none",
         IsSingle(c) => cmd[c].at = "finally" /\ code = cmd[c].code,
         cmd[c].op = "batch" => code \notin {0, 1} \/ (cmd[c].at = "next" /\ cmd[c].todo = {})
  PROVE  Told(c)'
<1>1. Same(c) /\ cmd'[c].at = "exited" /\ cmd'[c].code = code
  BY WaysOn DEF IInv
<1>2. RowsOf(c)' = RowsOf(c)
  BY DEF RowsOf
<1>3. OnCourse(c)' /\ Noted(c)'
  BY <1>1 DEF OnCourse, Noted, IsSingle, Same
<1>4. Done(c) => Done(c)'
  BY <1>1 DEF Done, WantsNote, IsSingle, Same
<1>5. SingleTold(c)'
  BY <1>1, <1>2, <1>4 DEF Told, SingleTold, IsSingle, Same
<1>6. BatchTold(c)'
  <2> SUFFICES ASSUME cmd[c].op = "batch", code \in {0, 1}
               PROVE  Cardinality(cmd[c].found \ RowsOf(c)) = cmd[c].errors
    BY <1>1, <1>2 DEF BatchTold, Same
  <2>1. cmd[c].at = "next" /\ cmd[c].todo = {}
    OBVIOUS
  <2>2. Cardinality(Behind(c)) = cmd[c].errors + 0
    BY <2>1 DEF Told, BatchTold
  <2>3. Behind(c) = cmd[c].found \ RowsOf(c) /\ cmd[c].errors \in Nat
    BY <2>1 DEF Behind, IInv, CmdTypes, Records
  <2> QED BY <2>2, <2>3
<1> QED BY <1>3, <1>5, <1>6 DEF Told

\* A loop over files puts the one in hand down: it is counted as an error, or it has
\* its row.
LEMMA PutsDownTold ==
  ASSUME IInv, NEW c \in Commands, Told(c), PutsDown(c), cmd[c].op \in {"batch", "ingest"},
         cmd[c].op = "batch" =>
           /\ cmd[c].at # "exited"
           /\ \/ cmd[c].at = "shelving" /\ UNCHANGED rows
              \/ /\ cmd[c].at = "auditing"
                 /\ rows' = rows \cup {[by |-> c, paper |-> cmd[c].paper, verdict |-> cmd[c].verdict]}
  PROVE  Told(c)'
<1> DEFINE p == cmd[c].paper
           row == [by |-> c, paper |-> p, verdict |-> cmd[c].verdict]
<1>1. /\ cmd'[c].op = cmd[c].op /\ cmd'[c].found = cmd[c].found /\ cmd'[c].at = "next"
      /\ cmd'[c].errors = cmd[c].errors /\ cmd'[c].todo = cmd[c].todo
  BY WaysOn DEF IInv
<1>2. OnCourse(c)' /\ Noted(c)' /\ SingleTold(c)'
  BY <1>1 DEF OnCourse, Noted, SingleTold, IsSingle
<1>3. BatchTold(c)'
  <2> SUFFICES ASSUME cmd[c].op = "batch"
               PROVE  /\ RowsOf(c)' \cap cmd[c].todo = {} /\ cmd[c].todo \subseteq cmd[c].found
                      /\ Cardinality((cmd[c].found \ cmd[c].todo) \ RowsOf(c)') = cmd[c].errors + 0
    BY <1>1 DEF BatchTold, Behind
  <2>1. /\ cmd[c].todo \subseteq cmd[c].found /\ RowsOf(c) \cap cmd[c].todo = {}
        /\ cmd[c].at # "next" => p \in Behind(c)
        /\ Cardinality(Behind(c)) = cmd[c].errors + IF cmd[c].at \in {"next", "shelving"} THEN 0 ELSE 1
    BY DEF Told, BatchTold
  <2>2. CASE cmd[c].at = "shelving" /\ UNCHANGED rows
    <3>1. RowsOf(c)' = RowsOf(c)
      BY <2>2 DEF RowsOf
    <3> QED BY <2>1, <2>2, <3>1 DEF Behind
  <2>3. CASE cmd[c].at = "auditing" /\ rows' = rows \cup {row}
    <3>1. RowsOf(c)' = RowsOf(c) \cup {p}
      <4>1. row.by = c /\ row.paper = p
        OBVIOUS
      <4> HIDE DEF row, p
      <4> QED BY <2>3, <4>1 DEF RowsOf
    <3>2. p \in Behind(c) /\ Cardinality(Behind(c)) = cmd[c].errors + 1
      BY <2>1, <2>3
    <3>3. IsFiniteSet(Behind(c)) /\ cmd[c].errors \in Nat
      <4>1. Behind(c) \subseteq Papers /\ cmd[c].errors \in Nat
        BY DEF Behind, IInv, CmdTypes, Records
      <4> QED BY <4>1, CommandsAssumption, FS_Subset DEF CommandsAssumption
    <3>4. Cardinality(Behind(c) \ {p}) = cmd[c].errors
      <4> DEFINE S == Behind(c)
      <4>1. IsFiniteSet(S) /\ p \in S /\ Cardinality(S) = cmd[c].errors + 1 /\ cmd[c].errors \in Nat
        BY <3>2, <3>3
      <4> HIDE DEF S, p
      <4>2. Cardinality(S \ {p}) = Cardinality(S) - 1
        BY <4>1, FS_RemoveElement
      <4>3. Cardinality(S \ {p}) = cmd[c].errors
        BY <4>1, <4>2
      <4> QED BY <4>3 DEF S
    <3>5. (cmd[c].found \ cmd[c].todo) \ RowsOf(c)' = Behind(c) \ {p}
      BY <3>1 DEF Behind
    <3> QED BY <2>1, <3>1, <3>2, <3>3, <3>4, <3>5 DEF Behind
  <2> QED BY <2>2, <2>3
<1> QED BY <1>2, <1>3 DEF Told

-----------------------------------------------------------------------------
(* The steps of a command *)

\* An exception in a stage before the end of the file.
LEMMA RaisesTold ==
  ASSUME IInv, NEW c \in Commands, Told(c), NEW code, code # 0, Raises(c, code), UNCHANGED rows,
         cmd[c].at \notin {"next", "shelving", "finally", "exited"}
  PROVE  Told(c)'
<1>1. CASE IsSingle(c) /\ Leaves(c, code)
  BY <1>1, LeavesEarly
<1>2. CASE cmd[c].op = "batch" /\ Becomes(c, [cmd[c] EXCEPT !.at = "failing"])
  <2>1. Same(c) /\ cmd'[c].todo = cmd[c].todo /\ cmd'[c].at = "failing"
    BY <1>2, WaysOn DEF IInv
  <2>2. OnCourse(c)' /\ Noted(c)'
    BY <1>2, <2>1 DEF OnCourse, Noted, IsSingle, Same
  <2> QED BY <2>1, <2>2, KeepsOn
<1> QED BY <1>1, <1>2 DEF Raises

\* A stage done, and the next of the same paper begun.
LEMMA MovesTold ==
  ASSUME IInv, NEW c \in Commands, Told(c), NEW from, NEW to, Moves(c, from, to), UNCHANGED rows,
         IsSingle(c) \/ cmd[c].op = "batch", note \subseteq note',
         \/ from = "staging" /\ to = "converting" /\ cmd[c].op # "batch"
         \/ from = "loading" /\ to = "asking"
         \/ from = "noting" /\ to = "routing" /\ cmd[c].paper \in note'
         \/ from \in Judging \ {"loading", "asking", "noting"} /\ to \in Judging
  PROVE  Told(c)'
<1>1. /\ Same(c) /\ cmd'[c].todo = cmd[c].todo
      /\ cmd[c].at = from /\ cmd'[c].at = to /\ cmd'[c].verdict = cmd[c].verdict
  BY WaysOn DEF IInv
<1>2. OnCourse(c)'
  BY <1>1 DEF OnCourse, IsSingle, Same, Judging
<1>3. Noted(c)'
  BY <1>1 DEF Told, Noted, WantsNote, IsSingle, Same, Judging
<1> QED BY <1>1, <1>2, <1>3, KeepsOn DEF Judging

\* What a command that judges papers is.
LEMMA JudgingOp ==
  ASSUME IInv, NEW c \in Commands, Told(c)
  PROVE  /\ cmd[c].at \in Judging /\ ~(cmd[c].at = "asking" /\ cmd[c].op = "lens")
              => IsSingle(c) \/ cmd[c].op = "batch"
         /\ cmd[c].at = "locating" => cmd[c].op = "lens"
         /\ cmd[c].at = "staging" => IsSingle(c)
         /\ cmd[c].at \in {"failing", "shelving"} => cmd[c].op = "batch"
         /\ cmd[c].at = "finally" => IsSingle(c)
         /\ cmd[c].at = "next" => cmd[c].op \in {"batch", "ingest"}
         /\ cmd[c].at \notin Ended => cmd[c].op # "none"
<1>1. cmd[c].op \in Scripts \cup {"none"}
  BY DEF IInv, CmdTypes, Records
<1> QED BY <1>1 DEF Told, OnCourse, IsSingle, Scripts, Judging, Ended

\* run_lens has neither rows nor errors to tell of.
LEMMA LensTold ==
  ASSUME NEW c \in Commands, cmd'[c].op = "lens", cmd'[c].at \in {"locating", "asking", "exited"}
  PROVE  Told(c)'
  BY DEF Told, OnCourse, Noted, SingleTold, BatchTold, IsSingle, Judging

LEMMA StartTold ==
  ASSUME IInv, NEW c \in Commands, Told(c), Start(c)
  PROVE  Told(c)'
<1>1. /\ cmd \in [Commands -> Records] /\ clean \subseteq Papers /\ pdf \subseteq Papers
  BY DEF IInv, CmdTypes, FileTypes
<1>2. ASSUME NEW k, Starts(c, k)
      PROVE  cmd'[c] = k /\ RowsOf(c)' = {}
  <2>1. RowsOf(c) = {} /\ UNCHANGED rows
    BY <1>2 DEF Starts, Told, OnCourse, files
  <2> QED BY <1>1, <1>2, <2>1 DEF Starts, Becomes, RowsOf
<1>3. ASSUME NEW p \in Papers, StartLens(c, p) PROVE Told(c)'
  <2> DEFINE k == [Unstarted EXCEPT !.op = "lens", !.paper = p, !.at = "locating"]
  <2>0. cmd'[c] = k
    BY <1>2, <1>3 DEF StartLens
  <2>1. cmd'[c].op = "lens" /\ cmd'[c].at = "locating"
    BY <2>0 DEF Unstarted
  <2> QED BY <2>1, LensTold
<1>4. ASSUME NEW p \in Papers, NEW op \in {"pdf", "md"}, NEW force \in BOOLEAN, StartSingle(c, op, p, force)
      PROVE  Told(c)'
  <2> DEFINE k == [Unstarted EXCEPT !.op = op, !.paper = p, !.force = force,
                                    !.at = IF op = "pdf" THEN "staging" ELSE "loading"]
  <2>0. cmd'[c] = k /\ RowsOf(c)' = {}
    BY <1>2, <1>4 DEF StartSingle
  <2>1. cmd'[c].op = op /\ cmd'[c].at \in {"staging", "loading"} /\ RowsOf(c)' = {}
    BY <2>0 DEF Unstarted
  <2> QED BY <2>1 DEF Told, OnCourse, Noted, SingleTold, BatchTold, IsSingle, Judging
<1>5. ASSUME NEW op \in {"batch", "ingest"}, NEW listed, StartAll(c, op, listed)
      PROVE  Told(c)'
  <2> DEFINE k == [Unstarted EXCEPT !.op = op, !.at = "next", !.found = listed, !.todo = listed]
  <2>0. cmd'[c] = k /\ RowsOf(c)' = {}
    BY <1>2, <1>5 DEF StartAll
  <2>1. /\ cmd'[c].op = op /\ cmd'[c].at = "next" /\ RowsOf(c)' = {}
        /\ cmd'[c].found = listed /\ cmd'[c].todo = listed /\ cmd'[c].errors = 0
    BY <2>0 DEF Unstarted
  <2>2. Behind(c)' = {}
    BY <2>1 DEF Behind
  <2>3. Cardinality(Behind(c)') = 0
    BY <2>2, FS_EmptySet
  <2>4. BatchTold(c)'
    BY <2>1, <2>3 DEF BatchTold
  <2> QED BY <2>1, <2>4 DEF Told, OnCourse, Noted, SingleTold, IsSingle, Judging
<1> QED BY <1>3, <1>4, <1>5 DEF Start

LEMMA NextTold ==
  ASSUME IInv, NEW c \in Commands, Told(c), NextFile(c)
  PROVE  Told(c)'
<1>1. /\ cmd[c] \in Records /\ cmd[c].at = "next" /\ cmd[c].op \in {"batch", "ingest"}
      /\ UNCHANGED <<rows, note>>
  BY JudgingOp DEF IInv, CmdTypes, NextFile, files
<1>2. ASSUME NEW code, Exits(c, code), cmd[c].op = "batch" => cmd[c].todo = {}
      PROVE  Told(c)'
  BY <1>1, <1>2, EndsTold DEF IsSingle
<1>3. ASSUME NEW p \in cmd[c].todo,
             Becomes(c, [cmd[c] EXCEPT !.paper = p, !.todo = @ \ {p}, !.verdict = "reject",
                           !.at = IF cmd[c].op = "batch" THEN "loading" ELSE "converting"])
      PROVE  Told(c)'
  <2>1. /\ cmd'[c].op = cmd[c].op /\ cmd'[c].paper = p /\ cmd'[c].todo = cmd[c].todo \ {p}
        /\ cmd'[c].found = cmd[c].found /\ cmd'[c].errors = cmd[c].errors
        /\ cmd'[c].at = IF cmd[c].op = "batch" THEN "loading" ELSE "converting"
    BY <1>1, <1>3 DEF Becomes, IInv, CmdTypes, Records
  <2>2. RowsOf(c)' = RowsOf(c)
    BY <1>1 DEF RowsOf
  <2>3. BatchTold(c)'
    <3> SUFFICES ASSUME cmd[c].op = "batch"
                 PROVE  BatchTold(c)'
      BY <2>1 DEF BatchTold
    <3>1. /\ cmd[c].todo \subseteq cmd[c].found /\ RowsOf(c) \cap cmd[c].todo = {}
          /\ Cardinality(Behind(c)) = cmd[c].errors + 0
      BY <1>1 DEF Told, BatchTold
    <3>2. Behind(c)' = Behind(c) \cup {p} /\ p \notin Behind(c)
      BY <2>1, <2>2, <3>1 DEF Behind
    <3>3. IsFiniteSet(Behind(c)) /\ cmd[c].errors \in Nat
      <4>1. Behind(c) \subseteq Papers /\ cmd[c].errors \in Nat
        BY <1>1 DEF Behind, Records
      <4> QED BY <4>1, CommandsAssumption, FS_Subset DEF CommandsAssumption
    <3>4. Cardinality(Behind(c)') = cmd[c].errors + 1
      <4>1. Cardinality(Behind(c) \cup {p}) = Cardinality(Behind(c)) + 1
        BY <3>2, <3>3, FS_AddElement
      <4> QED BY <3>1, <3>2, <3>3, <4>1
    <3> QED BY <2>1, <2>2, <3>1, <3>2, <3>4 DEF BatchTold
  <2> QED BY <1>1, <2>1, <2>3 DEF Told, OnCourse, Noted, SingleTold, IsSingle, Judging
<1>4. cmd[c].op = "ingest" => cmd[c].op # "batch"
  OBVIOUS
<1> QED BY <1>2, <1>3, <1>4 DEF NextFile

\* Up to the verdict and its note.
LEMMA JudgeTold ==
  ASSUME IInv, NEW c \in Commands, Told(c),
         StagePdf(c) \/ Convert(c) \/ LoadPaper(c) \/ TakeVerdict(c) \/ WriteNote(c)
  PROVE  Told(c)'
<1>1. cmd[c] \in Records /\ UNCHANGED rows /\ note \subseteq note'
  BY DEF IInv, CmdTypes, StagePdf, Convert, LoadPaper, TakeVerdict, WriteNote, files
<1>2. CASE StagePdf(c)
  <2>1. IsSingle(c) /\ cmd[c].at = "staging"
    BY <1>2, JudgingOp DEF StagePdf
  <2>2. CASE Moves(c, "staging", "converting")
    BY <1>1, <2>1, <2>2, MovesTold DEF IsSingle
  <2>3. CASE Leaves(c, 3)
    BY <1>1, <2>1, <2>3, LeavesEarly
  <2> QED BY <1>2, <2>2, <2>3 DEF StagePdf
<1>3. CASE Convert(c)
  <2>1. CASE cmd[c].op = "pdf" /\ Becomes(c, [cmd[c] EXCEPT !.at = "loading", !.made = TRUE])
    <3>1. Same(c) /\ cmd'[c].todo = cmd[c].todo /\ cmd'[c].at = "loading"
      BY <1>1, <2>1 DEF Becomes, IInv, CmdTypes, Records, Same
    <3>2. OnCourse(c)' /\ Noted(c)'
      BY <2>1, <3>1 DEF OnCourse, Noted, IsSingle, Same, Judging
    <3> QED BY <1>1, <1>3, <3>1, <3>2, KeepsOn DEF Convert
  <2>2. ASSUME cmd[c].op = "pdf", NEW code \in {2, 3}, Leaves(c, code)
        PROVE  Told(c)'
    BY <1>1, <1>3, <2>2, LeavesEarly DEF Convert, IsSingle
  <2>3. CASE cmd[c].op = "ingest" /\ PutsDown(c)
    BY <2>3, PutsDownTold
  <2> QED BY <1>3, <2>1, <2>2, <2>3 DEF Convert
<1>4. CASE LoadPaper(c)
  <2>1. cmd[c].at = "loading" /\ (IsSingle(c) \/ cmd[c].op = "batch")
    BY <1>4, JudgingOp DEF LoadPaper, Judging
  <2>2. CASE Moves(c, "loading", "asking")
    BY <1>1, <2>1, <2>2, MovesTold
  <2>3. CASE Raises(c, 4)
    BY <1>1, <2>1, <2>3, RaisesTold
  <2> QED BY <1>4, <2>2, <2>3 DEF LoadPaper
<1>5. CASE TakeVerdict(c)
  <2>1. cmd[c].at = "asking" /\ (IsSingle(c) \/ cmd[c].op = "batch")
    BY <1>5, JudgingOp DEF TakeVerdict, Judging
  <2>2. PICK v \in Verdict : Becomes(c, [cmd[c] EXCEPT !.verdict = v,
                               !.at = IF WantsNote(c, v) THEN "noting" ELSE "routing"])
    BY <1>5 DEF TakeVerdict, Verdict
  <2>3. /\ Same(c) /\ cmd'[c].todo = cmd[c].todo /\ cmd'[c].verdict = v
        /\ cmd'[c].at = IF WantsNote(c, v) THEN "noting" ELSE "routing"
    <3> DEFINE at == IF WantsNote(c, v) THEN "noting" ELSE "routing"
    <3>1. cmd'[c] = [cmd[c] EXCEPT !.verdict = v, !.at = at]
      BY <2>2 DEF Becomes, IInv, CmdTypes
    <3> HIDE DEF at
    <3>2. Same(c) /\ cmd'[c].todo = cmd[c].todo /\ cmd'[c].verdict = v /\ cmd'[c].at = at
      BY <1>1, <3>1 DEF Records, Same
    <3> QED BY <3>2 DEF at
  <2>4. OnCourse(c)'
    BY <2>1, <2>3 DEF OnCourse, IsSingle, Same, Judging
  <2>5. Noted(c)'
    BY <2>3 DEF Noted, WantsNote, IsSingle, Same
  <2> QED BY <1>1, <2>1, <2>3, <2>4, <2>5, KeepsOn
<1>6. CASE WriteNote(c)
  <2>1. cmd[c].at = "noting" /\ (IsSingle(c) \/ cmd[c].op = "batch")
    BY <1>6, JudgingOp DEF WriteNote, Judging
  <2>2. CASE Moves(c, "noting", "routing") /\ note' = note \cup {cmd[c].paper}
    BY <1>1, <2>1, <2>2, MovesTold
  <2>3. CASE Raises(c, 6)
    BY <1>1, <2>1, <2>3, RaisesTold
  <2> QED BY <1>6, <2>2, <2>3 DEF WriteNote
<1> QED BY <1>2, <1>3, <1>4, <1>5, <1>6

\* The routing, and its row in the log.
LEMMA RouteTold ==
  ASSUME IInv, NEW c \in Commands, Told(c),
         RouteChecks(c) \/ RouteReplaces(c) \/ RouteMoves(c) \/ RoutePdf(c) \/ RouteAudits(c)
  PROVE  Told(c)'
<1>1. UNCHANGED note /\ cmd[c].at \in {"routing", "replacing", "moving", "pairing", "auditing"}
  BY DEF RouteChecks, RouteReplaces, RouteMoves, RoutePdf, RouteAudits, Moves, files
<1>2. IsSingle(c) \/ cmd[c].op = "batch"
  BY <1>1, JudgingOp DEF Judging
<1>3. ASSUME NEW code, code # 0, Raises(c, code), UNCHANGED rows PROVE Told(c)'
  BY <1>1, <1>3, RaisesTold
<1>4. ASSUME NEW from, NEW to, Moves(c, from, to), UNCHANGED rows,
             from \in Judging \ {"loading", "asking", "noting"}, to \in Judging
      PROVE  Told(c)'
  BY <1>1, <1>2, <1>4, MovesTold
<1>5. CASE RouteChecks(c)
  BY <1>3, <1>4, <1>5 DEF RouteChecks, files, Judging
<1>6. CASE RouteReplaces(c)
  BY <1>3, <1>4, <1>6 DEF RouteReplaces, Judging
<1>7. CASE RouteMoves(c)
  BY <1>3, <1>4, <1>7 DEF RouteMoves, Judging
<1>8. CASE RoutePdf(c)
  BY <1>4, <1>8 DEF RoutePdf, Judging
<1>9. ASSUME NEW code, Leaves(c, code)
      PROVE  Same(c) /\ cmd'[c].at = "finally" /\ cmd'[c].code = code
  <2>1. CmdTypes
    BY DEF IInv
  <2>2. Leaves(c, code)
    BY <1>9
  <2>3. Leaves(c, code) => cmd'[c].at = "finally"
    BY <2>1, WaysOn
  <2>4. Leaves(c, code) => Same(c)
    BY <2>1, WaysOn
  <2>5. Leaves(c, code) => cmd'[c].code = code
    BY <2>1, WaysOn
  <2> QED BY <2>2, <2>3, <2>4, <2>5
<1>10. CASE RouteAudits(c)
  <2> DEFINE row == [by |-> c, paper |-> cmd[c].paper, verdict |-> cmd[c].verdict]
  <2>1. CASE Raises(c, 7) /\ UNCHANGED rows
    BY <1>3, <2>1
  <2>2. CASE rows' = rows \cup {row} /\ cmd[c].op = "batch" /\ PutsDown(c)
    BY <1>10, <2>2, PutsDownTold DEF RouteAudits
  <2>3. CASE rows' = rows \cup {row} /\ IsSingle(c) /\ Leaves(c, 0)
    <3>1. Same(c) /\ cmd'[c].at = "finally" /\ cmd'[c].code = 0
      BY <2>3, <1>9
    <3>2. WantsNote(c, cmd[c].verdict) => cmd[c].paper \in note
      BY <1>10 DEF Told, Noted, RouteAudits
    <3>3. Done(c)'
      <4>1. PICK r \in rows' : r.by = c /\ r.paper = cmd[c].paper /\ r.verdict = cmd[c].verdict
        <5>1. row \in rows' /\ row.by = c /\ row.paper = cmd[c].paper /\ row.verdict = cmd[c].verdict
          BY <2>3
        <5> QED BY <5>1
      <4>2. WantsNote(c, r.verdict)' => r.paper \in note'
        BY <1>1, <3>1, <3>2, <4>1 DEF WantsNote, IsSingle, Same
      <4> QED BY <3>1, <4>1, <4>2 DEF Done, Same
    <3>4. OnCourse(c)' /\ Noted(c)' /\ SingleTold(c)' /\ BatchTold(c)'
      BY <2>3, <3>1, <3>3 DEF OnCourse, Noted, SingleTold, BatchTold, IsSingle, Same
    <3> QED BY <3>4 DEF Told
  <2> QED BY <1>10, <2>1, <2>2, <2>3 DEF RouteAudits
<1> QED BY <1>5, <1>6, <1>7, <1>8, <1>10

\* A batch counts an error and shelves the paper; run_single and run_lens end.
LEMMA EndTold ==
  ASSUME IInv, NEW c \in Commands, Told(c),
         \/ CountError(c) \/ ShelveFailed(c) \/ Finally(c) \/ Locate(c) \/ WriteAtlas(c)
         \/ Interrupt(c) \/ Dies(c)
  PROVE  Told(c)'
<1>1. cmd \in [Commands -> Records] /\ cmd[c] \in Records /\ UNCHANGED <<rows, note>>
  BY DEF IInv, CmdTypes, CountError, ShelveFailed, Finally, Locate, WriteAtlas, Interrupt, Dies, files
<1>2. CASE CountError(c)
  <2>1. cmd[c].op = "batch" /\ cmd[c].at = "failing"
    BY <1>2, JudgingOp DEF CountError
  <2>2. /\ cmd'[c].op = cmd[c].op /\ cmd'[c].paper = cmd[c].paper /\ cmd'[c].todo = cmd[c].todo
        /\ cmd'[c].found = cmd[c].found /\ cmd'[c].errors = cmd[c].errors + 1
        /\ cmd'[c].at = "shelving"
    BY <1>1, <1>2 DEF CountError, Becomes, Records
  <2>3. RowsOf(c)' = RowsOf(c)
    BY <1>1 DEF RowsOf
  <2>4. Behind(c)' = Behind(c) /\ cmd[c].errors \in Nat
    BY <1>1, <2>2, <2>3 DEF Behind, Records
  <2>5. BatchTold(c)'
    BY <2>1, <2>2, <2>3, <2>4 DEF Told, BatchTold
  <2> QED BY <2>1, <2>2, <2>5 DEF Told, OnCourse, Noted, SingleTold, IsSingle
<1>3. CASE ShelveFailed(c)
  <2>1. cmd[c].op = "batch" /\ cmd[c].at = "shelving"
    BY <1>3, JudgingOp DEF ShelveFailed
  <2>2. CASE PutsDown(c)
    BY <1>1, <2>1, <2>2, PutsDownTold
  <2>3. CASE Exits(c, 99)
    BY <1>1, <2>1, <2>3, EndsTold DEF IsSingle
  <2> QED BY <1>3, <2>2, <2>3 DEF ShelveFailed
<1>4. CASE Finally(c)
  <2>1. IsSingle(c) /\ cmd[c].at = "finally" /\ Exits(c, cmd[c].code)
    BY <1>4, JudgingOp DEF Finally
  <2> QED BY <1>1, <2>1, EndsTold DEF IsSingle
<1>5. CASE Locate(c) \/ WriteAtlas(c)
  <2>1. cmd[c].op = "lens"
    BY <1>5, JudgingOp DEF Locate, WriteAtlas
  <2>2. ASSUME NEW code, Exits(c, code) PROVE Told(c)'
    BY <2>1, <2>2, WaysOn, LensTold DEF IInv, Same
  <2>3. ASSUME NEW from, NEW to, Moves(c, from, to), to = "asking" PROVE Told(c)'
    <3>1. Same(c) /\ cmd'[c].at = to
      BY <2>3, WaysOn DEF IInv
    <3> QED BY <2>1, <2>3, <3>1, LensTold DEF Same
  <2> QED BY <1>5, <2>2, <2>3 DEF Locate, WriteAtlas
<1>6. CASE Interrupt(c)
  <2>1. cmd[c].at \notin Ended \cup {"finally"} /\ cmd[c].op # "none"
    BY <1>6, JudgingOp DEF Interrupt, Running
  <2>2. CASE IsSingle(c)
    BY <1>1, <1>6, <2>1, <2>2, LeavesEarly DEF Interrupt, Ended
  <2>3. CASE ~IsSingle(c)
    BY <1>1, <1>6, <2>1, <2>3, EndsTold DEF Interrupt
  <2> QED BY <2>2, <2>3
<1>7. CASE Dies(c)
  <2>1. cmd'[c].op = "none" /\ cmd'[c].at = "dead"
    BY <1>1, <1>7 DEF Dies, Becomes, Unstarted
  <2> QED BY <2>1 DEF Told, OnCourse, Noted, SingleTold, BatchTold, IsSingle, Judging
<1> QED BY <1>2, <1>3, <1>4, <1>5, <1>6, <1>7

-----------------------------------------------------------------------------

LEMMA ActsTold ==
  ASSUME IInv, NEW c \in Commands, Told(c), Acts(c)
  PROVE  Told(c)'
<1>1. ASSUME NEW q \in Questions, Attempt(c, q) PROVE Told(c)'
  <2>1. UNCHANGED <<rows, note, cmd>>
    BY <1>1 DEF Attempt, files
  <2>2. OnCourse(c)' /\ Noted(c)'
    BY <2>1 DEF Told, OnCourse, Noted, WantsNote, IsSingle, RowsOf
  <2>3. SingleTold(c)' /\ BatchTold(c)'
    BY <2>1 DEF Told, SingleTold, BatchTold, Done, Behind, WantsNote, IsSingle, RowsOf
  <2> QED BY <2>2, <2>3 DEF Told
<1> QED BY <1>1, StartTold, NextTold, JudgeTold, RouteTold, EndTold DEF Acts, Step

\* A step writes rows in the name of its command alone, and takes no row or note away.
LEMMA OnlyOwnRows ==
  ASSUME NEW c \in Commands, Acts(c)
  PROVE  rows \subseteq rows' /\ (\A r \in rows' \ rows : r.by = c) /\ note \subseteq note'
<1>1. CASE RouteAudits(c)
  BY <1>1 DEF RouteAudits
<1>2. CASE WriteNote(c)
  BY <1>2 DEF WriteNote
<1>3. CASE Start(c) \/ Interrupt(c) \/ Dies(c)
  BY <1>3 DEF Start, StartLens, StartSingle, StartAll, Starts, Interrupt, Dies, files
<1>4. CASE \/ NextFile(c) \/ StagePdf(c) \/ Convert(c) \/ LoadPaper(c) \/ TakeVerdict(c)
           \/ \E q \in Questions : Attempt(c, q)
  BY <1>4 DEF NextFile, StagePdf, Convert, LoadPaper, TakeVerdict, Attempt, files
<1>5. CASE RouteChecks(c) \/ RouteReplaces(c) \/ RouteMoves(c) \/ RoutePdf(c)
  BY <1>5 DEF RouteChecks, RouteReplaces, RouteMoves, RoutePdf, files
<1>6. CASE CountError(c) \/ ShelveFailed(c) \/ Finally(c) \/ Locate(c) \/ WriteAtlas(c)
  BY <1>6 DEF CountError, ShelveFailed, Finally, Locate, WriteAtlas, files
<1> QED BY <1>1, <1>2, <1>3, <1>4, <1>5, <1>6 DEF Acts, Step

LEMMA InitHonest == Init => Honest
<1> SUFFICES ASSUME Init, NEW c \in Commands PROVE Told(c)
  BY DEF Honest
<1>1. cmd[c].op = "none" /\ cmd[c].at = "idle" /\ rows = {}
  BY DEF Init, Unstarted
<1> QED BY <1>1 DEF Told, OnCourse, Noted, SingleTold, BatchTold, IsSingle, RowsOf, Judging

LEMMA NextHonest ==
  ASSUME IInv, Honest, [Next]_vars
  PROVE  Honest'
<1>1. CASE UNCHANGED vars
  <2> SUFFICES ASSUME NEW d \in Commands PROVE Told(d)'
    BY DEF Honest
  <2>1. Told(d) /\ UNCHANGED <<rows, note, cmd>>
    BY <1>1 DEF Honest, vars, files
  <2>2. OnCourse(d)' /\ Noted(d)'
    BY <2>1 DEF Told, OnCourse, Noted, WantsNote, IsSingle, RowsOf
  <2>3. SingleTold(d)' /\ BatchTold(d)'
    BY <2>1 DEF Told, SingleTold, BatchTold, Done, Behind, WantsNote, IsSingle, RowsOf
  <2> QED BY <2>2, <2>3 DEF Told
<1>2. ASSUME NEW c \in Commands, Acts(c) PROVE Honest'
  <2>1. Told(c)'
    BY <1>2, ActsTold DEF Honest
  <2>2. ASSUME NEW d \in Commands, d # c PROVE Told(d)'
    <3>1. cmd'[d] = cmd[d]
      <4>1. Safe(c) \/ UNCHANGED <<files, cmd, clash>>
        BY <1>2, ActsSafe
      <4>2. CASE Safe(c)
        <5>1. cmd' = [cmd EXCEPT ![c] = cmd'[c]]
          BY <4>2 DEF Safe, Stepped
        <5>2. cmd \in [Commands -> Records]
          BY DEF IInv, CmdTypes
        <5> DEFINE k == cmd'[c]
        <5>3. cmd' = [cmd EXCEPT ![c] = k]
          BY <5>1
        <5> HIDE DEF k
        <5> QED BY <2>2, <5>2, <5>3
      <4> QED BY <4>1, <4>2
    <3> QED BY <1>2, <2>2, <3>1, OnlyOwnRows, OthersTold DEF Honest
  <2> QED BY <2>1, <2>2 DEF Honest
<1> QED BY <1>1, <1>2 DEF Next, Acts

\* The exit code of run_single says whether its paper is in the log, with the note its
\* verdict calls for, and what a batch prints as errors is what it did not log.
THEOREM ExitsAreHonest == Spec => []ExitIsHonest
<1>1. Honest => ExitIsHonest
  <2> SUFFICES ASSUME Honest, NEW c \in Commands, cmd[c].at = "exited"
               PROVE  /\ IsSingle(c) /\ cmd[c].code = 0 =>
                           \E r \in rows : /\ r.by = c /\ r.paper = cmd[c].paper
                                           /\ WantsNote(c, r.verdict) => r.paper \in note
                      /\ IsSingle(c) /\ cmd[c].code \notin {0, 130} => RowsOf(c) = {}
                      /\ cmd[c].op = "batch" /\ cmd[c].code \in {0, 1} =>
                           Cardinality(cmd[c].found \ RowsOf(c)) = cmd[c].errors
    BY DEF ExitIsHonest
  <2>1. SingleTold(c) /\ BatchTold(c)
    BY DEF Honest, Told
  <2> QED BY <2>1 DEF SingleTold, BatchTold, Done
<1> QED BY <1>1, Invariance, InitHonest, NextHonest, PTL DEF Spec
=============================================================================
