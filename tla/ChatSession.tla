----------------------------- MODULE ChatSession -----------------------------
(***************************************************************************)
(* The chat of Astrocyte: the webview (routes/+page.svelte), the Tauri     *)
(* commands behind it (lib.rs), the stream readers (llm_client.rs) and the *)
(* session files (memory.rs).  A turn is one call of evaluate_payload.     *)
(*                                                                         *)
(* Four things run beside one another: the webview with at most one        *)
(* command on its way, a reader per turn, a thread per append to a session *)
(* file, and the queue of events from Rust to the webview, which carries   *)
(* neither a session nor a turn: `turn' on an event is for the properties. *)
(*                                                                         *)
(* An entry is [id, text]: the id names the role and the turn that made    *)
(* it; the text is the set of turns whose words are in it.                 *)
(***************************************************************************)
EXTENDS Integers, Sequences, FiniteSets

CONSTANTS
    Sessions,    \* session ids the webview may make
    MaxTurns,    \* bound: calls of evaluate_payload
    MaxCommands, \* bound: what the user does besides asking and aborting
    MaxHasty,    \* bound: how often the user does not wait
    Length       \* number of chunks in a whole reply

ASSUME ChatAssumption ==
    MaxTurns \in Nat \ {0} /\ MaxCommands \in Nat /\ MaxHasty \in Nat
    /\ Length \in Nat \ {0} /\ Sessions # {}

Turns == 1 .. MaxTurns
None == 0                       \* no turn

UserId(n) == <<"user", n>>
ReplyId(n) == <<"bb", n>>
NoId == ReplyId(None)

VARIABLES
    active,       \* activeSessionId
    shown,        \* history of the webview, a sequence of rows
    generating,   \* isGenerating
    pending,      \* pendingAssistantMessageId, by its turn
    current,      \* currentBBMessageId
    cmd,          \* the command the webview waits for
    wire,         \* events on their way to the webview
    stage,        \* where each turn is
    home,         \* session each turn was sent in
    asked,        \* its user_message_id
    sent,         \* chunks its reader has emitted
    end,          \* how its stream ended
    finished,     \* bb-stream-done events emitted for it
    slot,         \* abort_token
    cancelled,    \* turns whose token is cancelled
    append,       \* state of the thread that files each turn
    draft,        \* what that thread is about to write
    open,         \* sessions in AstrocyteState
    file,         \* sessions/<id>.jsonl
    commands,     \* commands the user has given, up to MaxCommands
    hasty         \* acts of the user before everything had come to rest

webview == <<active, shown, generating, pending, current, cmd>>
turn == <<stage, home, asked, sent, end, finished>>
abort == <<slot, cancelled>>
archive == <<append, draft, open, file>>
user == <<commands, hasty>>
vars == <<webview, wire, turn, abort, archive, user>>

Row(id, text) == [id |-> id, text |-> text, loading |-> FALSE, aborted |-> FALSE]
Entry(id, text) == [id |-> id, text |-> text]
NoFile == {Entry(NoId, {})}     \* a file that is not there
Idle == [op |-> "none"]

Init ==
    /\ active = CHOOSE s \in Sessions : TRUE
    /\ shown = <<>> /\ generating = FALSE
    /\ pending = None /\ current = NoId /\ cmd = Idle /\ wire = <<>>
    /\ stage = [n \in Turns |-> "unsent"] /\ home = [n \in Turns |-> active]
    /\ asked = [n \in Turns |-> UserId(n)] /\ sent = [n \in Turns |-> 0]
    /\ end = [n \in Turns |-> "none"] /\ finished = [n \in Turns |-> 0]
    /\ slot = None /\ cancelled = {}
    /\ append = [n \in Turns |-> "none"] /\ draft = [n \in Turns |-> {}]
    /\ open = {} /\ file = [s \in Sessions |-> NoFile]
    /\ commands = 0 /\ hasty = 0

-----------------------------------------------------------------------------
\* The webview's view of its history

LastIs(rows, id) == rows # <<>> /\ rows[Len(rows)].id = id

IsUser(row) == row.id[1] = "user"

\* toSyncEntries
SyncEntries(rows) ==
    {Entry(r.id, r.text) : r \in {rows[i] : i \in
        {j \in DOMAIN rows : ~rows[j].loading /\ ~rows[j].aborted}}}

\* the rows of an archive, oldest turn first
RowsOf(entries) ==
    {rows \in [1 .. Cardinality(entries) -> {Row(e.id, e.text) : e \in entries}] :
        /\ \A i, j \in DOMAIN rows : i # j => rows[i] # rows[j]
        /\ \A i, j \in DOMAIN rows : i < j =>
              \/ rows[i].id[2] < rows[j].id[2]
              \/ rows[i].id[2] = rows[j].id[2] /\ (IsUser(rows[i]) \/ ~IsUser(rows[j]))}

\* the rows that do not have the id, in their order
Without(rows, id) ==
    LET kept[n \in 0 .. Len(rows)] ==
            IF n = 0 THEN <<>>
            ELSE IF rows[n].id = id THEN kept[n - 1]
            ELSE Append(kept[n - 1], rows[n])
    IN kept[Len(rows)]

\* Nothing is on its way: what a user who waits acts in, aborts aside.
Quiet ==
    /\ ~generating /\ cmd = Idle /\ wire = <<>>
    /\ \A n \in Turns : stage[n] \in {"unsent", "ended"} /\ append[n] \in {"none", "written"}

Acts == (~Quiet => hasty < MaxHasty) /\ hasty' = hasty + (IF Quiet THEN 0 ELSE 1)

\* a session id nobody has used, as makeSessionId makes one
Fresh == {s \in Sessions :
    /\ s # active /\ s \notin open /\ file[s] = NoFile
    /\ \A n \in Turns : stage[n] # "unsent" => home[n] # s}

Unsent == {n \in Turns : stage[n] = "unsent" /\ \A m \in 1 .. n - 1 : stage[m] # "unsent"}

\* dispatchEvaluate, up to the invoke: shown becomes rows, the user message is id
Dispatch(n, rows, id, s) ==
    /\ shown' = rows
    /\ current' = NoId /\ pending' = n /\ generating' = TRUE
    /\ stage' = [stage EXCEPT ![n] = "asked"]
    /\ home' = [home EXCEPT ![n] = s]
    /\ asked' = [asked EXCEPT ![n] = id]
    /\ UNCHANGED <<sent, end, finished>>

\* submitInput
Submit ==
    /\ Acts /\ ~generating
    /\ \E n \in Unsent :
          Dispatch(n, Append(shown, Row(UserId(n), {n})), UserId(n), active)
    /\ UNCHANGED <<active, cmd, wire, abort, archive>>

\* onAbortGeneration: abort_generation, then the flag
Abort ==
    /\ generating
    /\ cancelled' = cancelled \cup ({slot} \ {None})
    /\ slot' = None
    /\ generating' = FALSE
    /\ UNCHANGED <<active, shown, pending, current, cmd, wire, turn, archive>>

\* clearTransientState
ClearTransient == generating' = FALSE /\ pending' = None /\ current' = NoId

\* startNewSignal
NewSignal ==
    /\ Acts
    /\ active' \in Fresh
    /\ shown' = <<>>
    /\ ClearTransient
    /\ UNCHANGED <<cmd, wire, turn, abort, archive>>

-----------------------------------------------------------------------------
\* Commands of the webview that reach the archive: the invoke, the blocking
\* call on the file, and the rest once that call has returned

\* loadSession: the transient state is cleared before the invoke
Load(s) ==
    /\ Acts /\ cmd = Idle /\ file[s] # NoFile
    /\ ClearTransient
    /\ cmd' = [op |-> "load", at |-> s, step |-> "file", entries |-> {}]
    /\ UNCHANGED <<active, shown, wire, turn, abort, archive>>

\* deleteSession
Delete(s) ==
    /\ Acts /\ cmd = Idle /\ file[s] # NoFile
    /\ cmd' = [op |-> "delete", at |-> s, step |-> "file", entries |-> {}]
    /\ UNCHANGED <<active, shown, generating, pending, current, wire, turn, abort, archive>>

\* syncTimelineToBackend of the rows; `text' is kept for a retry
Sync(rows, then) ==
    /\ cmd' = [op |-> "sync", at |-> active, step |-> "file",
               entries |-> SyncEntries(rows), then |-> then]
    /\ open' = open \cup {active}

\* commitEditingMessage: the ids stay, so the entries do
Edit ==
    /\ Acts /\ cmd = Idle /\ \E i \in DOMAIN shown : ~shown[i].loading
    /\ Sync(shown, "nothing")
    /\ UNCHANGED <<active, shown, generating, pending, current, wire, turn, abort,
                   append, draft, file>>

\* retryFromMessage: cut after the last user row before the reply, then sync
Retry ==
    /\ Acts /\ cmd = Idle /\ ~generating
    /\ \E i, j \in DOMAIN shown :
          /\ j < i /\ IsUser(shown[j]) /\ ~IsUser(shown[i]) /\ ~shown[i].loading
          /\ \A k \in j + 1 .. i - 1 : ~IsUser(shown[k])
          /\ shown' = SubSeq(shown, 1, j)
    /\ Sync(shown', "retry")
    /\ UNCHANGED <<active, generating, pending, current, wire, turn, abort,
                   append, draft, file>>

\* deleteMessage
Erase ==
    /\ Acts /\ cmd = Idle
    /\ \E i \in DOMAIN shown :
          /\ ~shown[i].loading
          /\ cmd' = [op |-> "erase", at |-> active, step |-> "file",
                     entries |-> {}, id |-> shown[i].id]
    /\ UNCHANGED <<active, shown, generating, pending, current, wire, turn, abort, archive>>

\* save_session_entries, delete_session_file, get_entries_for_session, delete_entry
CmdFile ==
    /\ cmd # Idle /\ cmd.step = "file"
    /\ \/ /\ cmd.op = "sync"
          /\ file' = [file EXCEPT ![cmd.at] = cmd.entries]
          /\ cmd' = [cmd EXCEPT !.step = "back"]
       \/ /\ cmd.op = "delete"
          /\ file' = [file EXCEPT ![cmd.at] = NoFile]
          /\ cmd' = [cmd EXCEPT !.step = "back"]
       \/ /\ cmd.op = "load"
          /\ cmd' = [cmd EXCEPT !.step = "back",
                        !.entries = IF file[cmd.at] = NoFile THEN {} ELSE file[cmd.at]]
          /\ UNCHANGED file
       \/ /\ cmd.op = "erase"
          /\ cmd' = [cmd EXCEPT !.step = "back", !.entries = file[cmd.at]]
          /\ file' = IF file[cmd.at] = NoFile THEN file
                     ELSE [file EXCEPT ![cmd.at] = {e \in @ : e.id # cmd.id}]
    /\ UNCHANGED <<active, shown, generating, pending, current, wire, turn, abort,
                   append, draft, open>>

Returned(op) == cmd # Idle /\ cmd.op = op /\ cmd.step = "back"

LoadReturns ==
    /\ Returned("load")
    /\ open' = open \cup {cmd.at}
    /\ active' = cmd.at
    /\ shown' \in RowsOf(cmd.entries)
    /\ cmd' = Idle
    /\ UNCHANGED <<generating, pending, current, wire, turn, abort, append, draft, file>>

DeleteReturns ==
    /\ Returned("delete")
    /\ open' = open \ {cmd.at}
    /\ IF active = cmd.at
       THEN active' \in Fresh /\ shown' = <<>> /\ ClearTransient
       ELSE UNCHANGED <<active, shown, generating, pending, current>>
    /\ cmd' = Idle
    /\ UNCHANGED <<wire, turn, abort, append, draft, file>>

\* sync_session_history fails if the session is gone; a retry that got through
\* dispatches with the last user message shown by now
SyncReturns ==
    /\ Returned("sync")
    /\ cmd' = Idle
    /\ IF cmd.then = "retry" /\ cmd.at \in open /\ ~generating /\ Unsent # {}
       THEN LET n == CHOOSE m \in Unsent : TRUE
                users == {i \in DOMAIN shown : IsUser(shown[i])}
                last == CHOOSE i \in users : \A j \in users : j <= i
            IN Dispatch(n, shown, IF users = {} THEN UserId(n) ELSE shown[last].id, active)
       ELSE UNCHANGED <<shown, generating, pending, current, turn>>
    /\ UNCHANGED <<active, wire, abort, archive>>

EraseReturns ==
    /\ Returned("erase")
    /\ LET rows == Without(shown, cmd.id)
       IN /\ shown' = rows
          /\ cmd' = [op |-> "sync", at |-> active, step |-> "file",
                     entries |-> SyncEntries(rows), then |-> "nothing"]
    /\ IF current = cmd.id THEN current' = NoId /\ generating' = FALSE
       ELSE UNCHANGED <<current, generating>>
    /\ open' = open \cup {active} \cup (IF cmd.entries = NoFile THEN {} ELSE {cmd.at})
    /\ UNCHANGED <<active, pending, wire, turn, abort, append, draft, file>>

-----------------------------------------------------------------------------
\* evaluate_payload and the task it spawns

Event(what, n) == [what |-> what, turn |-> n]

\* Mutant: the reply's row takes the user's side.
EnsureRow_AsUser ==
    IF current # NoId /\ LastIs(shown, current) THEN shown
    ELSE Append(shown, [Row(UserId(pending), {}) EXCEPT !.loading = TRUE])

\* ensureBBStreamEntry
EnsureRow ==
    IF current # NoId /\ LastIs(shown, current) THEN shown
    ELSE Append(shown, [Row(ReplyId(pending), {}) EXCEPT !.loading = TRUE])

\* evaluate_payload returns an error: the catch of dispatchEvaluate
Refuse(n) ==
    /\ stage[n] = "asked"
    /\ stage' = [stage EXCEPT ![n] = "ended"]
    /\ end' = [end EXCEPT ![n] = "refused"]
    /\ shown' = [EnsureRow EXCEPT ![Len(EnsureRow)].text = {},
                                  ![Len(EnsureRow)].loading = FALSE]
    /\ ClearTransient
    /\ UNCHANGED <<active, cmd, wire, home, asked, sent, finished, abort, archive>>

Evaluate(n) ==
    /\ stage[n] = "asked"
    /\ open' = open \cup {home[n]}
    /\ slot' = n
    /\ stage' = [stage EXCEPT ![n] = "streaming"]
    /\ UNCHANGED <<webview, wire, home, asked, sent, end, finished, cancelled,
                   append, draft, file>>

\* a chunk; select! may still take one after the token is cancelled
Chunk(n) ==
    /\ stage[n] = "streaming" /\ sent[n] < Length
    /\ sent' = [sent EXCEPT ![n] = @ + 1]
    /\ wire' = Append(wire, Event("chunk", n))
    /\ UNCHANGED <<webview, stage, home, asked, end, finished, abort, archive>>

\* How a stream ends.  The end of the response and a broken connection are the
\* same Err to the reader, which makes a reply of any text it has.
Endings(n) ==
    (IF sent[n] = Length THEN {"whole"} ELSE IF sent[n] > 0 THEN {"cut"} ELSE {"failed"})
    \cup {"toldError", "toldGone"}
    \cup (IF n \in cancelled THEN {"aborted"} ELSE {})

IsReply(how) == how \in {"whole", "cut"}
IsTold(how) == how \in {"toldError", "toldGone"}
DoneOf(how) == CASE IsReply(how) -> "done"
                 [] how \in {"aborted", "toldGone"} -> "aborted"
                 [] OTHER -> "error"

\* the reader returns; it forwards a bb-stream-done of the server itself
EndStream(n, how) ==
    /\ stage[n] = "streaming" /\ how \in Endings(n)
    /\ stage' = [stage EXCEPT ![n] = "closing"]
    /\ end' = [end EXCEPT ![n] = how]
    /\ IF IsTold(how)
       THEN /\ wire' = Append(wire, Event(DoneOf(how), n))
            /\ finished' = [finished EXCEPT ![n] = @ + 1]
       ELSE UNCHANGED <<wire, finished>>
    /\ UNCHANGED <<webview, home, asked, sent, abort, archive>>

\* Mutant: DONE even when the server has told the end itself.
Announce_Twice(n) ==
    IF end[n] = "failed" THEN <<Event("chunk", n), Event("error", n)>>
    ELSE <<Event(DoneOf(end[n]), n)>>

\* Mutant: a request that failed leaves its text and no end.
Announce_TextOnly(n) ==
    CASE IsTold(end[n]) -> <<>>
      [] end[n] = "failed" -> <<Event("chunk", n)>>
      [] OTHER -> <<Event(DoneOf(end[n]), n)>>

\* what the spawned task emits when the reader has returned
Announce(n) ==
    CASE IsTold(end[n]) -> <<>>
      [] end[n] = "failed" -> <<Event("chunk", n), Event("error", n)>>
      [] OTHER -> <<Event(DoneOf(end[n]), n)>>

\* Mutant: only a reply is worth a line in the archive.
Files_Replies(n) == IsReply(end[n])

\* what is filed: nothing of a request that failed
Files(n) == end[n] # "failed"

\* Mutant: the slot is cleared on the paths without a reply only.
SlotAfter_Failure(n) == IF IsReply(end[n]) THEN slot ELSE None

\* clear_abort_slot empties the slot, whosever token it holds
SlotAfter(n) == None

Close(n) ==
    /\ stage[n] = "closing"
    /\ stage' = [stage EXCEPT ![n] = "ended"]
    /\ slot' = SlotAfter(n)
    /\ append' = [append EXCEPT ![n] = IF Files(n) THEN "queued" ELSE "none"]
    /\ wire' = wire \o Announce(n)
    /\ finished' = [finished EXCEPT ![n] = @ + (IF IsTold(end[n]) THEN 0 ELSE 1)]
    /\ UNCHANGED <<webview, home, asked, sent, end, cancelled, draft, open, file>>

\* append_session_entries: read, then write back
EntriesOf(n) ==
    {Entry(asked[n], {asked[n][2]})}
    \cup (IF IsReply(end[n]) THEN {Entry(ReplyId(n), {n})} ELSE {})

\* Mutant: the write starts from nothing.
Before_Nothing(n) == {}

Before(n) == IF file[home[n]] = NoFile THEN {} ELSE file[home[n]]

AppendRead(n) ==
    /\ append[n] = "queued"
    /\ append' = [append EXCEPT ![n] = "read"]
    /\ draft' = [draft EXCEPT ![n] = Before(n) \cup EntriesOf(n)]
    /\ UNCHANGED <<webview, wire, turn, abort, open, file>>

AppendWrite(n) ==
    /\ append[n] = "read"
    /\ append' = [append EXCEPT ![n] = "written"]
    /\ file' = [file EXCEPT ![home[n]] = draft[n]]
    /\ draft' = [draft EXCEPT ![n] = {}]
    /\ UNCHANGED <<webview, wire, turn, abort, open>>

-----------------------------------------------------------------------------
\* The webview's listeners

OnChunk ==
    /\ wire # <<>> /\ Head(wire).what = "chunk"
    /\ wire' = Tail(wire)
    /\ LET rows == EnsureRow
       IN /\ shown' = [rows EXCEPT ![Len(rows)].text = @ \cup {Head(wire).turn}]
          /\ current' = rows[Len(rows)].id
          /\ pending' = IF rows = shown THEN pending ELSE None
    /\ UNCHANGED <<active, generating, cmd, turn, abort, archive>>

\* bb-stream-done: settles the current row, whichever turn has ended
OnDone ==
    /\ wire # <<>> /\ Head(wire).what # "chunk"
    /\ wire' = Tail(wire)
    /\ LET stopped == Head(wire).what = "aborted"
       IN shown' = [i \in DOMAIN shown |->
                       IF shown[i].id = current
                       THEN [shown[i] EXCEPT !.loading = FALSE,
                                             !.aborted = @ \/ stopped]
                       ELSE shown[i]]
    /\ ClearTransient
    /\ UNCHANGED <<active, cmd, turn, abort, archive>>

-----------------------------------------------------------------------------
Finish == LoadReturns \/ DeleteReturns \/ SyncReturns \/ EraseReturns

Command ==
    \/ NewSignal \/ Edit \/ Retry \/ Erase
    \/ \E s \in Sessions : Load(s) \/ Delete(s)

System ==
    \/ Abort \/ CmdFile \/ Finish \/ OnChunk \/ OnDone
    \/ \E n \in Turns : \/ Refuse(n) \/ Evaluate(n) \/ Chunk(n) \/ Close(n)
                        \/ AppendRead(n) \/ AppendWrite(n)
                        \/ \E how \in Endings(n) : EndStream(n, how)

Next ==
    \/ System /\ UNCHANGED user
    \/ Submit /\ UNCHANGED commands
    \/ commands < MaxCommands /\ Command /\ commands' = commands + 1

Spec == Init /\ [][Next]_vars

\* The runtime polls what is ready.  A stream ends: the client of an agent
\* request carries a timeout of 300 s.
FairSpec ==
    /\ Spec
    /\ WF_vars(CmdFile /\ UNCHANGED user)
    /\ WF_vars(Finish /\ UNCHANGED user)
    /\ WF_vars((OnChunk \/ OnDone) /\ UNCHANGED user)
    /\ \A n \in Turns :
          /\ WF_vars((Refuse(n) \/ Evaluate(n)) /\ UNCHANGED user)
          /\ WF_vars((\E how \in Endings(n) : EndStream(n, how)) /\ UNCHANGED user)
          /\ WF_vars(Close(n) /\ UNCHANGED user)
          /\ WF_vars((AppendRead(n) \/ AppendWrite(n)) /\ UNCHANGED user)

-----------------------------------------------------------------------------
\* Properties

Entries == [id : {"user", "bb"} \X (Turns \cup {None}), text : SUBSET Turns]
Events == [what : {"chunk", "done", "aborted", "error"}, turn : Turns]

\* Types of the webview, the turns, the slot and the archive.
TypeOK ==
    /\ active \in Sessions /\ generating \in BOOLEAN
    /\ commands \in 0 .. MaxCommands /\ hasty \in 0 .. MaxHasty
    /\ pending \in Turns \cup {None}
    /\ current \in {"bb"} \X (Turns \cup {None})
    /\ \A i \in DOMAIN shown : Entry(shown[i].id, shown[i].text) \in Entries
    /\ cmd # Idle => cmd.at \in Sessions /\ cmd.step \in {"file", "back"}
    /\ \A i \in DOMAIN wire : wire[i] \in Events
    /\ stage \in [Turns -> {"unsent", "asked", "streaming", "closing", "ended"}]
    /\ home \in [Turns -> Sessions] /\ asked \in [Turns -> {"user"} \X Turns]
    /\ sent \in [Turns -> 0 .. Length]
    /\ finished \in [Turns -> Nat]
    /\ slot \in Turns \cup {None} /\ cancelled \subseteq Turns
    /\ append \in [Turns -> {"none", "queued", "read", "written"}]
    /\ open \subseteq Sessions
    /\ \A s \in Sessions : file[s] \subseteq Entries

\* The abort slot never keeps the token of a turn that is over or cancelled: an
\* abort that finds a token stops a turn (abort_generation, clear_abort_slot).
\* The converse does not hold: a turn that ends late empties the slot of the next.
SlotIsLive ==
    slot # None => stage[slot] \in {"streaming", "closing"} /\ slot \notin cancelled

\* For a user who waits, the session shown and its file agree on every turn
\* that brought a reply: both hold it, with its own words, or neither does.
ArchiveMatches ==
    hasty = 0 /\ Quiet => \A n \in Turns :
        home[n] = active /\ stage[n] = "ended" /\ IsReply(end[n]) =>
            LET e == Entry(ReplyId(n), {n})
                kept == file[active] # NoFile /\ e \in file[active]
            IN kept <=> e \in SyncEntries(shown)

CountOf(w, n) == Cardinality({i \in DOMAIN w : w[i].turn = n})

\* Once a turn has announced its end it emits nothing more, and no second end:
\* one completion authority of the three that emit bb-stream-done.
CompletionIsFinal ==
    [][\A n \in Turns : finished[n] # 0 =>
          finished'[n] = finished[n] /\ CountOf(wire', n) <= CountOf(wire, n)]_vars

\* The input is unlocked again, whatever the turn ends with.
InputUnlocks == generating ~> ~generating

\* What was asked in a turn is written to the session's file, unless the request
\* failed or was refused.
TurnIsFiled ==
    \A n \in Turns :
        stage[n] = "asked" ~> append[n] = "written" \/ end[n] \in {"failed", "refused"}
=============================================================================
