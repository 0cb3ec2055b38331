---------------------------------- MODULE Vault ----------------------------------
(***************************************************************************)
(* The Obsidian vault as the Oligo server uses it.                         *)
(*                                                                         *)
(* crucible/ports/vault/vault_read_adapter.py: the read-only tools read    *)
(* notes through a cache that is checked by modification time.  read_file  *)
(* runs on the event loop; the searches and the graph query run in threads *)
(* of asyncio.to_thread and share the cache under a lock that is not held  *)
(* while a file is read.                                                   *)
(*                                                                         *)
(* crucible/services/staging_service.py with oligo/api/staging_routes.py:  *)
(* drafts of notes wait in a staging directory until the user promotes one *)
(* to the vault or rejects it.  The handlers never await, so that the loop *)
(* runs one of them, or one read_file, at a time, but threads, editors and *)
(* a crash may come between any two of their file operations.              *)
(*                                                                         *)
(* Notes also change behind the server's back: the user's editor, a sync   *)
(* tool and the note writer of the paper pipelines write and delete them.  *)
(***************************************************************************)
EXTENDS Naturals, Sequences, FiniteSets

CONSTANTS
  Notes,      \* the paths of notes; a link names a note by its stem
  Texts,      \* what a note may say, its frontmatter and links included
  Links,      \* [Texts -> SUBSET Notes], its wikilinks and graph_edges
  Vaults,     \* bounds what the vault says at first: a set of functions from Notes
  Wanted,     \* the texts that a query looks for, by type, attribute or word
  Drafted,    \* the texts that drafts are made with
  Dest,       \* [Drafted -> Notes], where promote puts a draft that says it
  Drafts,     \* the file names in the staging directory
  Readers,    \* the threads that serve tools, the event loop's reads included
  CacheSize,  \* vault.cache_size
  TopK,       \* top_k of an attribute search
  MaxResults, \* the notes a graph query returns at most (200 in the code)
  MaxDepth,   \* the largest max_depth a query asks for (8 in the code)
  Serves,     \* [Readers -> SUBSET Calls], bounds what a thread is asked
  MaxWrites,  \* bounds the writes and deletions of notes
  None,       \* no entry
  Free        \* nobody on the event loop

\* A file may also be empty, or not be there.  (One that is not UTF-8 is read like one
\* that was deleted after its stat.)
Blank == "blank"
Absent == "absent"

Calls == {"read", "search", "attribute", "graph"}

ASSUME VaultAssumption ==
  /\ CacheSize \in Nat /\ TopK \in Nat /\ MaxResults \in Nat /\ MaxWrites \in Nat
  /\ MaxDepth \in Nat \ {0}
  /\ {Blank, Absent} \cap Texts = {}
  /\ Vaults \subseteq [Notes -> Texts \cup {Absent}]
  /\ Links \in [Texts -> SUBSET Notes]
  /\ Dest \in [Drafted -> Notes]
  /\ Wanted \subseteq Texts /\ Drafted \subseteq Texts
  /\ Serves \in [Readers -> SUBSET Calls]
  /\ IsFiniteSet(Notes)
  /\ None \notin Notes \cup [mtime : Nat, text : Texts \cup {Blank}]
  /\ Free \notin Readers
  /\ \A h \in [at : {"promoting", "unlinking"}, draft : Drafts, text : Drafted] :
       h \notin Readers \cup {Free}

VARIABLES
  file,    \* [Notes -> [mtime, text]]; a deleted note keeps its last mtime here
  clock,   \* the modification time the file system gives to what is written now
  past,    \* [Notes -> set of [mtime, text]], every version a note has had
  writes,  \* how many writes and deletions of notes there were
  cache,   \* [Notes -> [mtime, text] or None], VaultReadAdapter._cache
  order,   \* its keys, the least recently used first
  at,      \* [Readers -> ...], where a reader is in _read_file_cached
  cur,     \* [Readers -> [note, mtime, text]], the note it reads
  got,     \* [Readers -> [Notes -> [mtime, text] or None]], what it was given
  job,     \* [Readers -> ...], the call it serves
  quiet,   \* the readers of a graph that saw no note change since their call began
  loop,    \* who holds the event loop: "free", a reader, or a staging handler
  staging, \* [Drafts -> text or Absent], the staging directory
  owed     \* the pairs of a draft and a text whose fate is not decided

vault == <<file, clock, past, writes, quiet>>
caching == <<cache, order>>
inbox == <<staging, owed>>
vars == <<vault, caching, at, cur, got, job, loop, inbox>>

Readable == Texts \cup {Blank}
NoNote == [note |-> None, mtime |-> 0, text |-> Blank]
Nothing == [n \in Notes |-> None]

NoJob == [op |-> "none", phase |-> "scan", depth |-> 1, hops |-> 0,
          listed |-> {}, todo |-> {}, frontier |-> {}, result |-> {}]

Init ==
  /\ \E says \in Vaults : file = [n \in Notes |-> [mtime |-> 0, text |-> says[n]]]
  /\ clock = 0
  /\ past = [n \in Notes |-> IF file[n].text = Absent THEN {} ELSE {file[n]}]
  /\ writes = 0 /\ quiet = {}
  /\ cache = Nothing /\ order = <<>>
  /\ at = [r \in Readers |-> "idle"]
  /\ cur = [r \in Readers |-> NoNote]
  /\ got = [r \in Readers |-> Nothing]
  /\ job = [r \in Readers |-> NoJob]
  /\ loop = Free
  /\ staging = [d \in Drafts |-> Absent]
  /\ owed = {}

Present == {n \in Notes : file[n].text # Absent}

-----------------------------------------------------------------------------
(* Writing a note *)

\* A write stamps the note with the time of the moment; a tick of the file system's
\* clock may cover several writes.
Writes(n, t) ==
  /\ writes < MaxWrites /\ writes' = writes + 1
  /\ clock' \in {clock, clock + 1}
  /\ file' = [file EXCEPT ![n] = [mtime |-> clock', text |-> t]]
  /\ past' = [past EXCEPT ![n] = @ \cup {[mtime |-> clock', text |-> t]}]
  /\ quiet' = {}

\* Someone else writes or deletes a note.
Edit(n) ==
  /\ \E t \in Texts : Writes(n, t)
  /\ UNCHANGED <<caching, at, cur, got, job, loop, inbox>>

Delete(n) ==
  /\ n \in Present
  /\ writes < MaxWrites /\ writes' = writes + 1
  /\ file' = [file EXCEPT ![n].text = Absent]
  /\ quiet' = {}
  /\ UNCHANGED <<clock, past, caching, at, cur, got, job, loop, inbox>>

-----------------------------------------------------------------------------
(* Reading one note: _read_file_cached *)

Goes(r, from, to) ==
  /\ at[r] = from
  /\ at' = [at EXCEPT ![r] = to]

\* _read_file_cached returns a text, or None.
Gives(r, mtime, text) ==
  /\ got' = [got EXCEPT ![r][cur[r].note] = [mtime |-> mtime, text |-> text]]
  /\ cur' = [cur EXCEPT ![r] = NoNote]

GivesNothing(r) ==
  /\ cur' = [cur EXCEPT ![r] = NoNote]
  /\ UNCHANGED got

\* The note is gone: the scan goes on without it.  Without a cache (cache_size 0)
\* the file is read at once, and its mtime is not looked at.
Stat(r) ==
  /\ \E n \in job[r].todo :
       /\ job' = [job EXCEPT ![r].todo = @ \ {n}]
       /\ got' = [got EXCEPT ![r][n] = None]
       /\ \/ n \notin Present /\ Goes(r, "next", "next") /\ UNCHANGED cur
          \/ /\ n \in Present
             /\ Goes(r, "next", IF CacheSize = 0 THEN "read" ELSE "lookup")
             /\ cur' = [cur EXCEPT ![r] = [note |-> n, mtime |-> file[n].mtime, text |-> Blank]]
  /\ UNCHANGED <<vault, caching, loop, inbox>>

Hit(r) ==
  /\ cache[cur[r].note] # None
  /\ cache[cur[r].note].mtime = cur[r].mtime

\* The keys after one of n was used: it moves, or comes, to the end.
Used(n) ==
  IF n \in {order[i] : i \in DOMAIN order}
  THEN LET i == CHOOSE i \in DOMAIN order : order[i] = n IN
         [j \in DOMAIN order |->
            IF j < i THEN order[j] ELSE IF j < Len(order) THEN order[j + 1] ELSE n]
  ELSE Append(order, n)

\* Under the lock: an entry of the same mtime is given back and becomes the newest.
Lookup(r) ==
  LET n == cur[r].note IN
    /\ at[r] = "lookup"
    /\ \/ /\ Hit(r)
          /\ Goes(r, "lookup", "next")
          /\ Gives(r, cur[r].mtime, cache[n].text)
          /\ order' = Used(n)
       \/ ~Hit(r) /\ Goes(r, "lookup", "read") /\ UNCHANGED <<cur, got, order>>
    /\ UNCHANGED <<vault, cache, job, loop, inbox>>

\* Outside the lock: whatever the file says by now, or nothing.
ReadText(r) ==
  LET text == file[cur[r].note].text IN
    /\ at[r] = "read"
    /\ \/ /\ text \in Readable /\ CacheSize > 0
          /\ Goes(r, "read", "insert")
          /\ cur' = [cur EXCEPT ![r].text = text]
          /\ UNCHANGED got
       \/ text \in Readable /\ CacheSize = 0 /\ Goes(r, "read", "next") /\ Gives(r, cur[r].mtime, text)
       \/ text \notin Readable /\ Goes(r, "read", "next") /\ GivesNothing(r)
    /\ UNCHANGED <<vault, caching, job, loop, inbox>>

\* The entry of a note, and the cache without its oldest entries.
Stored(n, entry) ==
  LET full == [cache EXCEPT ![n] = entry] IN
    IF Len(Used(n)) > CacheSize THEN [full EXCEPT ![Head(Used(n))] = None] ELSE full

\* Mutant: the file is looked at again after it was read.
Insert_Restat(r) ==
  LET n == cur[r].note IN
    /\ Goes(r, "insert", "next")
    /\ cache' = Stored(n, [mtime |-> file[n].mtime, text |-> cur[r].text])
    /\ order' = IF Len(Used(n)) > CacheSize THEN Tail(Used(n)) ELSE Used(n)
    /\ Gives(r, cur[r].mtime, cur[r].text)
    /\ UNCHANGED <<vault, job, loop, inbox>>

\* Mutant: the oldest entry leaves the order but not the cache.
Insert_Hoards(r) ==
  LET n == cur[r].note IN
    /\ Goes(r, "insert", "next")
    /\ cache' = [cache EXCEPT ![n] = [mtime |-> cur[r].mtime, text |-> cur[r].text]]
    /\ order' = IF Len(Used(n)) > CacheSize THEN Tail(Used(n)) ELSE Used(n)
    /\ Gives(r, cur[r].mtime, cur[r].text)
    /\ UNCHANGED <<vault, job, loop, inbox>>

\* Under the lock again: the text is kept with the mtime seen before it was read.
Insert(r) ==
  LET n == cur[r].note IN
    /\ Goes(r, "insert", "next")
    /\ cache' = Stored(n, [mtime |-> cur[r].mtime, text |-> cur[r].text])
    /\ order' = IF Len(Used(n)) > CacheSize THEN Tail(Used(n)) ELSE Used(n)
    /\ Gives(r, cur[r].mtime, cur[r].text)
    /\ UNCHANGED <<vault, job, loop, inbox>>

-----------------------------------------------------------------------------
(* The tools *)

Starts(r, call) ==
  /\ call.op \in Serves[r]
  /\ Goes(r, "idle", "next")
  /\ job' = [job EXCEPT ![r] = call]
  /\ quiet' = IF call.op = "graph" THEN quiet \cup {r} ELSE quiet
  /\ UNCHANGED <<file, clock, past, writes, caching, cur, got, inbox>>

\* read_vault_file: synchronous on the event loop.
ReadFile(r, n) ==
  /\ n \in Present
  /\ loop = Free /\ loop' = r
  /\ Starts(r, [NoJob EXCEPT !.op = "read", !.todo = {n}])

\* search_notes and search_by_attribute walk the vault while they read it: a note
\* made meanwhile may be found or not.
Search(r, op) ==
  /\ \E more \in SUBSET (Notes \ Present) :
       Starts(r, [NoJob EXCEPT !.op = op, !.todo = Present \cup more])
  /\ UNCHANGED loop

\* Mutant: max_depth hops instead of max_depth - 1.
QueryGraph_OneMore(r, depth) ==
  /\ Starts(r, [NoJob EXCEPT !.op = "graph", !.phase = "seeds", !.depth = depth,
                             !.hops = depth, !.listed = Present, !.todo = Present])
  /\ UNCHANGED loop

\* query_graph lists the vault first.
QueryGraph(r, depth) ==
  /\ Starts(r, [NoJob EXCEPT !.op = "graph", !.phase = "seeds", !.depth = depth,
                             !.hops = depth - 1, !.listed = Present, !.todo = Present])
  /\ UNCHANGED loop

Hits(r) == {n \in Notes : got[r][n] # None /\ got[r][n].text \in Wanted}

\* A search reads every note; an attribute search stops at top_k hits.
ScanOver(r) ==
  /\ job[r].op \in {"read", "search", "attribute"}
  /\ \/ job[r].todo = {}
     \/ job[r].op = "attribute" /\ TopK > 0 /\ Cardinality(Hits(r)) >= TopK

LinksOf(r, n) ==
  IF got[r][n] # None /\ got[r][n].text \in Texts THEN Links[got[r][n].text] ELSE {}

Phase(r, from) ==
  /\ job[r].op = "graph" /\ job[r].phase = from /\ job[r].todo = {}
  /\ at[r] = "next"

\* A frontier is read again for its links while hops are left and there is room in
\* the result; then every row is read again.
Then(r, result, frontier, hops) ==
  LET more == hops > 0 /\ frontier # {} /\ Cardinality(result) < MaxResults
      left == [op |-> "graph", depth |-> job[r].depth, result |-> result,
               phase |-> IF more THEN "expand" ELSE "rows",
               hops |-> IF more THEN hops ELSE 0,
               listed |-> IF more THEN job[r].listed ELSE {},
               todo |-> IF more THEN frontier ELSE result,
               frontier |-> IF more THEN frontier ELSE {}]
  IN /\ job' = [job EXCEPT ![r] = left]
     /\ got' = [got EXCEPT ![r] = Nothing]
     /\ UNCHANGED <<vault, caching, at, cur, loop, inbox>>

FindSeeds(r) ==
  /\ Phase(r, "seeds")
  /\ Then(r, Hits(r), Hits(r), job[r].hops)

\* The listed notes that the frontier links to, as many as there is room for.
Expand(r) ==
  /\ Phase(r, "expand")
  /\ LET found == ((UNION {LinksOf(r, n) : n \in job[r].frontier}) \cap job[r].listed)
                   \ job[r].result
         room == MaxResults - Cardinality(job[r].result)
     IN \E new \in SUBSET found :
          /\ Cardinality(new) = IF Cardinality(found) > room THEN room ELSE Cardinality(found)
          /\ Then(r, job[r].result \cup new, new, job[r].hops - 1)

FinishGraph(r) ==
  /\ Phase(r, "rows")
  /\ Goes(r, "next", "done")
  /\ \E rows \in SUBSET job[r].result :
       /\ rows = job[r].result \/ Cardinality(rows) = MaxResults
       /\ Cardinality(rows) <= MaxResults
       /\ job' = [job EXCEPT ![r].result = rows]
  /\ got' = [got EXCEPT ![r] = Nothing]
  /\ UNCHANGED <<vault, caching, cur, loop, inbox>>

Return(r) ==
  /\ Goes(r, "done", "idle") \/ (ScanOver(r) /\ Goes(r, "next", "idle"))
  /\ job' = [job EXCEPT ![r] = NoJob]
  /\ got' = [got EXCEPT ![r] = Nothing]
  /\ quiet' = quiet \ {r}
  /\ loop' = IF loop = r THEN Free ELSE loop
  /\ UNCHANGED <<file, clock, past, writes, caching, cur, inbox>>

-----------------------------------------------------------------------------
(* Staging *)

Handler(step, d, t) == [at |-> step, draft |-> d, text |-> t]
Handling(step) == loop \in {Handler(step, d, t) : d \in Drafts, t \in Drafted}

Forget(d) == {p \in owed : p[1] # d}

\* write_text truncates, then writes: a full disk leaves an empty draft, and the error
\* tells the user.  A draft of the same second and slug is overwritten.
Create(d, t) ==
  /\ loop = Free
  /\ \/ /\ staging' = [staging EXCEPT ![d] = t]
        /\ owed' = Forget(d) \cup {<<d, t>>}
     \/ /\ staging' = [staging EXCEPT ![d] = Blank]
        /\ owed' = Forget(d)
  /\ UNCHANGED <<vault, caching, at, cur, got, job, loop>>

\* Mutant: the draft is gone before the note is written.
PromoteOpens_Unlinks(d) ==
  /\ loop = Free /\ staging[d] \in Drafted
  /\ loop' = Handler("promoting", d, staging[d])
  /\ Writes(Dest[staging[d]], Blank)
  /\ staging' = [staging EXCEPT ![d] = Absent]
  /\ UNCHANGED <<caching, at, cur, got, job, owed>>

\* promote_node reads the draft, a missing or an empty one being an error, and opens
\* the note its frontmatter calls for, whatever is there.
PromoteOpens(d) ==
  /\ loop = Free /\ staging[d] \in Drafted
  /\ loop' = Handler("promoting", d, staging[d])
  /\ Writes(Dest[staging[d]], Blank)
  /\ UNCHANGED <<caching, at, cur, got, job, inbox>>

\* The disk may be full: the error leaves the truncated note and the draft.
PromoteFills ==
  /\ Handling("promoting")
  /\ \/ Writes(Dest[loop.text], loop.text) /\ loop' = [loop EXCEPT !.at = "unlinking"]
     \/ loop' = Free /\ UNCHANGED vault
  /\ UNCHANGED <<caching, at, cur, got, job, inbox>>

PromoteUnlinks ==
  /\ Handling("unlinking")
  /\ loop' = Free
  /\ staging' = [staging EXCEPT ![loop.draft] = Absent]
  /\ UNCHANGED <<vault, caching, at, cur, got, job, owed>>

Reject(d) ==
  /\ loop = Free /\ staging[d] # Absent
  /\ staging' = [staging EXCEPT ![d] = Absent]
  /\ owed' = Forget(d)
  /\ UNCHANGED <<vault, caching, at, cur, got, job, loop>>

\* The server dies and is started again: the files stay.
Crash ==
  /\ loop' = Free
  /\ cache' = Nothing /\ order' = <<>>
  /\ at' = [r \in Readers |-> "idle"]
  /\ cur' = [r \in Readers |-> NoNote]
  /\ got' = [r \in Readers |-> Nothing]
  /\ job' = [r \in Readers |-> NoJob]
  /\ quiet' = {}
  /\ UNCHANGED <<file, clock, past, writes, inbox>>

-----------------------------------------------------------------------------

Environment == \E n \in Notes : Edit(n) \/ Delete(n)

CachedRead(r) == Stat(r) \/ Lookup(r) \/ ReadText(r) \/ Insert(r)

Tool(r) ==
  \/ \E n \in Notes : ReadFile(r, n)
  \/ \E op \in {"search", "attribute"} : Search(r, op)
  \/ \E depth \in 1..MaxDepth : QueryGraph(r, depth)
  \/ FindSeeds(r) \/ Expand(r) \/ FinishGraph(r) \/ Return(r)

Staging ==
  \/ \E d \in Drafts : (\E t \in Drafted : Create(d, t)) \/ PromoteOpens(d) \/ Reject(d)
  \/ PromoteFills \/ PromoteUnlinks

Next ==
  \/ Environment
  \/ \E r \in Readers : CachedRead(r) \/ Tool(r)
  \/ Staging
  \/ Crash

Spec == Init /\ [][Next]_vars

-----------------------------------------------------------------------------
(* Properties *)

Version(texts) == [mtime : Nat, text : texts]

\* Types; an entry the cache gave up has left its order too, and the bound holds.
TypeOK ==
  /\ file \in [Notes -> Version(Readable \cup {Absent})]
  /\ clock \in Nat
  /\ past \in [Notes -> SUBSET Version(Readable)]
  /\ writes \in 0..MaxWrites
  /\ quiet \subseteq Readers
  /\ cache \in [Notes -> Version(Readable) \cup {None}]
  /\ Len(order) <= CacheSize
  /\ {order[i] : i \in DOMAIN order} = {n \in Notes : cache[n] # None}
  /\ at \in [Readers -> {"idle", "next", "lookup", "read", "insert", "done"}]
  /\ cur \in [Readers -> [note : Notes \cup {None}, mtime : Nat, text : Readable]]
  /\ got \in [Readers -> [Notes -> Version(Readable) \cup {None}]]
  /\ job \in [Readers ->
       [op : Calls \cup {"none"},
        phase : {"scan", "seeds", "expand", "rows"}, depth : Nat, hops : Nat,
        listed : SUBSET Notes, todo : SUBSET Notes, frontier : SUBSET Notes,
        result : SUBSET Notes]]
  /\ loop \in {Free} \cup Readers
       \cup [at : {"promoting", "unlinking"}, draft : Drafts, text : Drafted]
  /\ staging \in [Drafts -> Drafted \cup {Blank, Absent}]
  /\ owed \subseteq Drafts \X Drafted

\* What a tool is told a note says, the note has said in the tick of the mtime it had
\* when it was looked at, or since: no interleaving of readers, writers and evictions
\* makes the cache give an older text for a newer mtime.
NoStaleRead ==
  \A r \in Readers, n \in Notes :
    got[r][n] # None =>
      \E v \in past[n] : v.text = got[r][n].text /\ v.mtime >= got[r][n].mtime

\* A draft the user was told of stays in the staging directory until it is rejected
\* or overwritten, or else its text has been written to the vault in full: errors,
\* other writers and crashes included.
DraftIsKept ==
  \A p \in owed :
    \/ staging[p[1]] = p[2]
    \/ \E v \in past[Dest[p[2]]] : v.text = p[2]

\* No two texts of a note share a tick.
Settled ==
  \A n \in Notes : \A v, w \in past[n] : v.mtime = w.mtime => v = w

LinkedTo(n) == IF file[n].text \in Texts THEN Links[file[n].text] \cap Present ELSE {}

Walks(hops) == {w \in [0..hops -> Present] : \A i \in 1..hops : w[i] \in LinkedTo(w[i - 1])}

\* The answer of a graph query over a vault that did not change meanwhile is the notes
\* that a wanted note reaches in fewer than max_depth links.
GraphIsReach ==
  \A r \in quiet :
    at[r] = "done" /\ job[r].op = "graph" /\ Settled /\ Cardinality(Present) <= MaxResults =>
      job[r].result =
        UNION {{w[hops] : w \in {x \in Walks(hops) : file[x[0]].text \in Wanted}} :
                 hops \in 0..(job[r].depth - 1)}
=============================================================================
