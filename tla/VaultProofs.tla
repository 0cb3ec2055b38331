------------------------------ MODULE VaultProofs ------------------------------
(***************************************************************************)
(* Theorems about Vault, for any notes, texts, readers, drafts and cache   *)
(* size, from VaultAssumption alone: what the cache gives is never stale,  *)
(* the cache keeps to its bound, a graph query over a vault at rest is     *)
(* reachability, and a draft is never lost.                                *)
(***************************************************************************)
EXTENDS Vault, Integers, FiniteSetTheorems, WellFoundedInduction, TLAPS

Jobs ==
  [op : Calls \cup {"none"}, phase : {"scan", "seeds", "expand", "rows"},
   depth : Nat, hops : Nat, listed : SUBSET Notes, todo : SUBSET Notes,
   frontier : SUBSET Notes, result : SUBSET Notes]

Places == [note : Notes \cup {None}, mtime : Nat, text : Readable]

\* The types of what the proofs read; the order of the cache comes in Ordered.
Types ==
  /\ file \in [Notes -> Version(Readable \cup {Absent})]
  /\ clock \in Nat
  /\ past \in [Notes -> SUBSET Version(Readable)]
  /\ cache \in [Notes -> Version(Readable) \cup {None}]
  /\ at \in [Readers -> {"idle", "next", "lookup", "read", "insert", "done"}]
  /\ cur \in [Readers -> Places]
  /\ got \in [Readers -> [Notes -> Version(Readable) \cup {None}]]
  /\ job \in [Readers -> Jobs]
  /\ staging \in [Drafts -> Drafted \cup {Blank, Absent}]
  /\ owed \subseteq Drafts \X Drafted

\* Note n has said text in the tick of mtime, or since.
Said(n, mtime, text) == \E v \in past[n] : v.text = text /\ v.mtime >= mtime

FilesArePast ==
  \A n \in Notes :
    /\ file[n].mtime <= clock
    /\ file[n].text # Absent => file[n] \in past[n]

CacheIsTrue == \A n \in Notes : cache[n] # None => Said(n, cache[n].mtime, cache[n].text)

\* Between its stat and its read a reader holds an mtime that the file has reached;
\* between its read and its insertion, a text that the note has said since.
ReadsAreTrue ==
  \A r \in Readers :
    /\ at[r] \in {"lookup", "read", "insert"} => cur[r].note \in Notes
    /\ at[r] \in {"lookup", "read"} => cur[r].mtime <= file[cur[r].note].mtime
    /\ at[r] = "insert" => Said(cur[r].note, cur[r].mtime, cur[r].text)

GotIsTrue ==
  \A r \in Readers, n \in Notes :
    got[r][n] # None => Said(n, got[r][n].mtime, got[r][n].text)

Truth == FilesArePast /\ CacheIsTrue /\ ReadsAreTrue /\ GotIsTrue

Written(t) == \E v \in past[Dest[t]] : v.text = t

\* The handler that promotes a draft is alone with it: nobody else has the loop.
HandlerHolds ==
  \A d \in Drafts, t \in Drafted :
    /\ loop = Handler("promoting", d, t) => staging[d] = t
    /\ loop = Handler("unlinking", d, t) => staging[d] = t /\ Written(t)

Drafting == HandlerHolds /\ DraftIsKept

-----------------------------------------------------------------------------
(* Types *)

LEMMA InitTypes == Init => Types
  BY VaultAssumption, SMTT(30)
  DEF VaultAssumption, Init, Types, Version, Readable, Blank, Absent, Nothing, NoNote, Places, NoJob, Jobs, Calls

LEMMA WritesTypes ==
  ASSUME Types, NEW n \in Notes, NEW t \in Readable, Writes(n, t)
  PROVE  /\ file' \in [Notes -> Version(Readable \cup {Absent})]
         /\ clock' \in Nat
         /\ past' \in [Notes -> SUBSET Version(Readable)]
  BY DEF Types, Writes, Version

LEMMA ThenTypes ==
  ASSUME Types, NEW r \in Readers, NEW result \in SUBSET Notes, NEW frontier \in SUBSET Notes,
         NEW hops \in Int, Then(r, result, frontier, hops)
  PROVE  Types'
<1> DEFINE more == hops > 0 /\ frontier # {} /\ Cardinality(result) < MaxResults
<1>1. job' \in [Readers -> Jobs]
  <2> DEFINE left == [op |-> "graph", depth |-> job[r].depth, result |-> result,
                      phase |-> IF more THEN "expand" ELSE "rows",
                      hops |-> IF more THEN hops ELSE 0,
                      listed |-> IF more THEN job[r].listed ELSE {},
                      todo |-> IF more THEN frontier ELSE result,
                      frontier |-> IF more THEN frontier ELSE {}]
  <2>1. job' = [job EXCEPT ![r] = left]
    BY DEF Then
  <2>2. left \in Jobs
    <3>1. more => hops \in Nat
      OBVIOUS
    <3>2. job[r] \in Jobs
      BY DEF Types
    <3> HIDE DEF more
    <3>3. CASE more
      BY <3>1, <3>2, <3>3 DEF Jobs, Calls
    <3>4. CASE ~more
      BY <3>2, <3>4 DEF Jobs, Calls
    <3> QED BY <3>3, <3>4
  <2> HIDE DEF left
  <2> QED BY <2>1, <2>2 DEF Types
<1>2. got' = [got EXCEPT ![r] = Nothing]
  BY DEF Then
<1>3. UNCHANGED <<vault, caching, at, cur, loop, inbox>>
  BY DEF Then
<1> QED BY <1>1, <1>2, <1>3 DEF Types, Nothing, vault, caching, inbox

LEMMA StartsTypes ==
  ASSUME Types, NEW r \in Readers, NEW call \in Jobs, Starts(r, call)
  PROVE  Types'
  BY DEF Types, Starts, Goes, caching, inbox

LEMMA NoNotePlace == NoNote \in Places
  BY DEF NoNote, Places, Readable

LEMMA GivesTypes ==
  ASSUME Types, NEW r \in Readers, NEW mtime, NEW text, Gives(r, mtime, text),
         cur[r].note \in Notes => [mtime |-> mtime, text |-> text] \in Version(Readable)
  PROVE  cur' \in [Readers -> Places] /\ got' \in [Readers -> [Notes -> Version(Readable) \cup {None}]]
<1> DEFINE entry == [mtime |-> mtime, text |-> text]
<1>1. cur' = [cur EXCEPT ![r] = NoNote] /\ got' = [got EXCEPT ![r][cur[r].note] = entry]
  BY DEF Gives
<1>2. cur[r].note \in Notes => entry \in Version(Readable)
  OBVIOUS
<1> HIDE DEF entry
<1>3. got[r] \in [Notes -> Version(Readable) \cup {None}]
  BY DEF Types
<1>4. [got[r] EXCEPT ![cur[r].note] = entry] \in [Notes -> Version(Readable) \cup {None}]
  BY <1>2, <1>3
<1> QED BY <1>1, <1>4, NoNotePlace DEF Types

LEMMA CachedReadTypes ==
  ASSUME Types, NEW r \in Readers, CachedRead(r)
  PROVE  Types'
<1>1. CASE Stat(r)
  <2>1. PICK n \in job[r].todo :
          /\ job' = [job EXCEPT ![r].todo = @ \ {n}]
          /\ got' = [got EXCEPT ![r][n] = None]
          /\ \/ Goes(r, "next", "next") /\ UNCHANGED cur
             \/ /\ Goes(r, "next", "read") \/ Goes(r, "next", "lookup")
                /\ cur' = [cur EXCEPT ![r] = [note |-> n, mtime |-> file[n].mtime, text |-> Blank]]
    BY <1>1 DEF Stat
  <2>2. n \in Notes /\ job' \in [Readers -> Jobs]
    <3>1. job[r] \in Jobs
      BY DEF Types
    <3>2. [job[r] EXCEPT !.todo = @ \ {n}] \in Jobs
      BY <3>1 DEF Jobs
    <3> QED BY <2>1, <3>1, <3>2 DEF Types, Jobs
  <2>3. UNCHANGED <<vault, caching, inbox>>
    BY <1>1 DEF Stat
  <2>4. at' \in [Readers -> {"idle", "next", "lookup", "read", "insert", "done"}]
    BY <2>1 DEF Types, Goes
  <2>5. cur' \in [Readers -> Places]
    <3>1. [note |-> n, mtime |-> file[n].mtime, text |-> Blank] \in Places
      BY <2>2 DEF Types, Version, Readable, Places
    <3> QED BY <2>1, <3>1 DEF Types
  <2>6. got' \in [Readers -> [Notes -> Version(Readable) \cup {None}]]
    BY <2>1, <2>2 DEF Types
  <2> QED BY <2>2, <2>3, <2>4, <2>5, <2>6 DEF Types, vault, caching, inbox
<1>2. CASE Lookup(r)
  <2>1. UNCHANGED <<vault, cache, job, inbox>>
    BY <1>2 DEF Lookup
  <2>2. at' \in [Readers -> {"idle", "next", "lookup", "read", "insert", "done"}]
    BY <1>2 DEF Lookup, Goes, Types
  <2>3. cur' \in [Readers -> Places] /\ got' \in [Readers -> [Notes -> Version(Readable) \cup {None}]]
    <3>1. CASE Hit(r) /\ Gives(r, cur[r].mtime, cache[cur[r].note].text)
      <4>1. cur[r].note \in Notes => cache[cur[r].note] \in Version(Readable) \cup {None}
        BY DEF Types
      <4>2. cur[r] \in Places /\ got[r] \in [Notes -> Version(Readable) \cup {None}]
        BY DEF Types
      <4>3. cur[r].note \in Notes =>
              [mtime |-> cur[r].mtime, text |-> cache[cur[r].note].text] \in Version(Readable)
        BY <3>1, <4>1, <4>2 DEF Hit, Version, Places
      <4> QED BY <3>1, <4>3, GivesTypes
    <3>2. CASE UNCHANGED <<cur, got>>
      BY <3>2 DEF Types
    <3> QED BY <1>2, <3>1, <3>2 DEF Lookup
  <2> QED BY <2>1, <2>2, <2>3 DEF Types, vault, inbox
<1>3. CASE ReadText(r)
  <2> DEFINE text == file[cur[r].note].text
  <2>1. UNCHANGED <<vault, caching, job, inbox>>
    BY <1>3 DEF ReadText
  <2>2. at' \in [Readers -> {"idle", "next", "lookup", "read", "insert", "done"}]
    BY <1>3 DEF ReadText, Goes, Types
  <2>3. cur[r] \in Places
    BY DEF Types
  <2>4. cur' \in [Readers -> Places] /\ got' \in [Readers -> [Notes -> Version(Readable) \cup {None}]]
    <3>1. CASE text \in Readable /\ cur' = [cur EXCEPT ![r].text = text] /\ UNCHANGED got
      <4>1. [cur[r] EXCEPT !.text = text] \in Places
        BY <2>3, <3>1 DEF Places
      <4> QED BY <3>1, <4>1 DEF Types
    <3>2. CASE text \in Readable /\ Gives(r, cur[r].mtime, text)
      <4>1. [mtime |-> cur[r].mtime, text |-> text] \in Version(Readable)
        BY <2>3, <3>2 DEF Places, Version
      <4> QED BY <3>2, <4>1, GivesTypes
    <3>3. CASE GivesNothing(r)
      BY <3>3, NoNotePlace DEF GivesNothing, Types
    <3> QED BY <1>3, <3>1, <3>2, <3>3 DEF ReadText
  <2> QED BY <2>1, <2>2, <2>4 DEF Types, vault, caching, inbox
<1>4. CASE Insert(r)
  <2> DEFINE n == cur[r].note
             entry == [mtime |-> cur[r].mtime, text |-> cur[r].text]
  <2>1. entry \in Version(Readable)
    BY DEF Types, Version, Places
  <2>2. cache' \in [Notes -> Version(Readable) \cup {None}]
    <3>1. cache' = Stored(n, entry)
      BY <1>4 DEF Insert
    <3> HIDE DEF n, entry
    <3> QED BY <3>1, <2>1 DEF Stored, Types
  <2>3. cur' \in [Readers -> Places] /\ got' \in [Readers -> [Notes -> Version(Readable) \cup {None}]]
    BY <1>4, <2>1, GivesTypes DEF Insert
  <2>4. at' \in [Readers -> {"idle", "next", "lookup", "read", "insert", "done"}]
    BY <1>4 DEF Insert, Goes, Types
  <2>5. UNCHANGED <<vault, job, inbox>>
    BY <1>4 DEF Insert
  <2> QED BY <2>2, <2>3, <2>4, <2>5 DEF Types, vault, inbox
<1> QED BY <1>1, <1>2, <1>3, <1>4 DEF CachedRead

LEMMA ToolTypes ==
  ASSUME Types, NEW r \in Readers, Tool(r)
  PROVE  Types'
<1>0. job[r] \in Jobs
  BY DEF Types
<1>1. ASSUME NEW n \in Notes, ReadFile(r, n) PROVE Types'
  <2>1. [NoJob EXCEPT !.op = "read", !.todo = {n}] \in Jobs
    BY DEF NoJob, Jobs, Calls
  <2> QED BY <1>1, <2>1, StartsTypes DEF ReadFile
<1>2. ASSUME NEW op \in {"search", "attribute"}, Search(r, op) PROVE Types'
  <2>1. PICK more \in SUBSET (Notes \ Present) :
          Starts(r, [NoJob EXCEPT !.op = op, !.todo = Present \cup more])
    BY <1>2 DEF Search
  <2>2. [NoJob EXCEPT !.op = op, !.todo = Present \cup more] \in Jobs
    BY DEF NoJob, Jobs, Calls, Present
  <2> QED BY <2>1, <2>2, StartsTypes
<1>3. ASSUME NEW depth \in 1..MaxDepth, QueryGraph(r, depth) PROVE Types'
  <2>1. [NoJob EXCEPT !.op = "graph", !.phase = "seeds", !.depth = depth,
                      !.hops = depth - 1, !.listed = Present, !.todo = Present] \in Jobs
    <3>1. depth \in Nat /\ depth - 1 \in Nat
      BY VaultAssumption DEF VaultAssumption
    <3>2. Present \in SUBSET Notes
      BY DEF Present
    <3> DEFINE hops == depth - 1
               found == [NoJob EXCEPT !.op = "graph", !.phase = "seeds", !.depth = depth]
    <3>3. found \in Jobs
      BY <3>1 DEF NoJob, Jobs, Calls
    <3>4. hops \in Nat
      BY <3>1
    <3> HIDE DEF hops, found
    <3>5. [found EXCEPT !.hops = hops, !.listed = Present, !.todo = Present] \in Jobs
      BY <3>2, <3>3, <3>4 DEF Jobs
    <3> QED BY <3>5 DEF found, hops
  <2> QED BY <1>3, <2>1, StartsTypes DEF QueryGraph
<1>4. CASE FindSeeds(r)
  <2>1. Hits(r) \in SUBSET Notes /\ job[r].hops \in Int
    BY <1>0 DEF Hits, Jobs
  <2> QED BY <1>4, <2>1, ThenTypes DEF FindSeeds
<1>5. CASE Expand(r)
  <2>1. PICK new \in SUBSET (((UNION {LinksOf(r, n) : n \in job[r].frontier}) \cap job[r].listed)
                             \ job[r].result) :
          Then(r, job[r].result \cup new, new, job[r].hops - 1)
    BY <1>5 DEF Expand
  <2>2. new \in SUBSET Notes /\ job[r].result \cup new \in SUBSET Notes /\ job[r].hops - 1 \in Int
    BY <1>0 DEF Jobs
  <2> QED BY <2>1, <2>2, ThenTypes
<1>6. CASE FinishGraph(r)
  <2>1. PICK rows \in SUBSET job[r].result : job' = [job EXCEPT ![r].result = rows]
    BY <1>6 DEF FinishGraph
  <2>2. [job[r] EXCEPT !.result = rows] \in Jobs
    BY <1>0 DEF Jobs
  <2>3. job' \in [Readers -> Jobs]
    BY <2>1, <2>2 DEF Types
  <2> QED BY <1>6, <2>3 DEF FinishGraph, Types, Goes, Nothing, vault, caching, inbox
<1>7. CASE Return(r)
  <2>1. NoJob \in Jobs
    BY DEF NoJob, Jobs
  <2> QED BY <1>7, <2>1 DEF Return, Types, Goes, Nothing, caching, inbox
<1> QED BY <1>1, <1>2, <1>3, <1>4, <1>5, <1>6, <1>7 DEF Tool

LEMMA TypesStep ==
  ASSUME Types, [Next]_vars
  PROVE  Types'
<1> USE VaultAssumption DEF VaultAssumption
<1>1. ASSUME NEW n \in Notes, Edit(n) PROVE Types'
  <2>1. PICK t \in Texts : Writes(n, t)
    BY <1>1 DEF Edit
  <2>2. UNCHANGED <<caching, at, cur, got, job, inbox>>
    BY <1>1 DEF Edit
  <2> QED BY <2>1, <2>2, WritesTypes DEF Types, Readable, caching, inbox
<1>2. ASSUME NEW n \in Notes, Delete(n) PROVE Types'
  BY <1>2 DEF Delete, Types, Version, caching, inbox
<1>3. ASSUME NEW r \in Readers, CachedRead(r) \/ Tool(r) PROVE Types'
  BY <1>3, CachedReadTypes, ToolTypes
<1>4. ASSUME NEW d \in Drafts, NEW t \in Drafted, Create(d, t) PROVE Types'
  <2>1. owed' \subseteq Drafts \X Drafted
    BY <1>4 DEF Create, Forget, Types
  <2>2. staging' \in [Drafts -> Drafted \cup {Blank, Absent}]
    BY <1>4 DEF Create, Types
  <2> QED BY <1>4, <2>1, <2>2 DEF Create, Types, vault, caching
<1>5. ASSUME NEW d \in Drafts, PromoteOpens(d) PROVE Types'
  <2>1. staging[d] \in Drafted /\ Writes(Dest[staging[d]], Blank)
    BY <1>5 DEF PromoteOpens
  <2>2. UNCHANGED <<caching, at, cur, got, job, inbox>>
    BY <1>5 DEF PromoteOpens
  <2>3. Dest[staging[d]] \in Notes /\ Blank \in Readable
    BY <2>1 DEF Readable
  <2> QED BY <2>1, <2>2, <2>3, WritesTypes DEF Types, caching, inbox
<1>6. CASE PromoteFills
  <2>1. UNCHANGED <<caching, at, cur, got, job, inbox>>
    BY <1>6 DEF PromoteFills
  <2>2. CASE Writes(Dest[loop.text], loop.text)
    <3>1. loop.text \in Drafted
      BY <1>6 DEF PromoteFills, Handling, Handler
    <3>2. Dest[loop.text] \in Notes /\ loop.text \in Readable
      BY <3>1 DEF Readable
    <3> QED BY <2>1, <2>2, <3>2, WritesTypes DEF Types, caching, inbox
  <2>3. CASE UNCHANGED vault
    BY <2>1, <2>3 DEF Types, vault, caching, inbox
  <2> QED BY <1>6, <2>2, <2>3 DEF PromoteFills
<1>7. CASE PromoteUnlinks
  BY <1>7 DEF PromoteUnlinks, Types, vault, caching
<1>8. ASSUME NEW d \in Drafts, Reject(d) PROVE Types'
  BY <1>8 DEF Reject, Forget, Types, vault, caching
<1>9. CASE Crash
  <2>1. NoJob \in Jobs
    BY DEF NoJob, Jobs
  <2> QED BY <1>9, <2>1, NoNotePlace DEF Crash, Types, Nothing, inbox
<1>10. CASE UNCHANGED vars
  BY <1>10 DEF vars, Types, vault, caching, inbox
<1> QED BY <1>1, <1>2, <1>3, <1>4, <1>5, <1>6, <1>7, <1>8, <1>9, <1>10
        DEF Next, Environment, Staging

-----------------------------------------------------------------------------
(* What the cache gives is true *)

LEMMA InitTruth == Init => Truth
<1> SUFFICES ASSUME Init PROVE Truth
  OBVIOUS
<1>1. FilesArePast
  BY VaultAssumption DEF VaultAssumption, Init, FilesArePast
<1>2. CacheIsTrue /\ ReadsAreTrue /\ GotIsTrue
  BY DEF Init, CacheIsTrue, ReadsAreTrue, GotIsTrue, Nothing
<1> QED BY <1>1, <1>2 DEF Truth

\* A write makes a note say more, later.
LEMMA WritesTruth ==
  ASSUME Types, Truth, NEW n \in Notes, NEW t \in Readable, Writes(n, t),
         UNCHANGED <<caching, at, cur, got>>
  PROVE  Truth'
<1>1. clock' \in Nat /\ clock' >= clock
  BY DEF Writes, Types
<1>2. file' = [file EXCEPT ![n] = [mtime |-> clock', text |-> t]]
  BY DEF Writes
<1>3. past' = [past EXCEPT ![n] = @ \cup {[mtime |-> clock', text |-> t]}]
  BY DEF Writes
<1>4. \A m \in Notes : past[m] \subseteq past'[m]
  BY <1>3 DEF Types
<1>5. \A m \in Notes : \A mtime, text : Said(m, mtime, text) => Said(m, mtime, text)'
  BY <1>4 DEF Said
<1>6. \A m \in Notes : file[m].mtime \in Nat /\ file[m].mtime <= clock
  BY DEF Types, Version, Truth, FilesArePast
<1>7. FilesArePast'
  BY <1>1, <1>2, <1>3, <1>6 DEF Types, Truth, FilesArePast
<1>8. \A m \in Notes : file[m].mtime <= file'[m].mtime
  BY <1>1, <1>2, <1>6 DEF Types
<1>9. CacheIsTrue'
  BY <1>5 DEF Truth, CacheIsTrue, caching
<1>10. GotIsTrue'
  BY <1>5 DEF Truth, GotIsTrue
<1>11. ReadsAreTrue'
  <2> SUFFICES ASSUME NEW r \in Readers
               PROVE  /\ at[r] \in {"lookup", "read", "insert"} => cur[r].note \in Notes
                      /\ at[r] \in {"lookup", "read"} => cur[r].mtime <= file'[cur[r].note].mtime
                      /\ at[r] = "insert" => Said(cur[r].note, cur[r].mtime, cur[r].text)'
    BY DEF ReadsAreTrue
  <2>1. cur[r].mtime \in Nat /\ \A m \in Notes : file'[m].mtime \in Nat
    BY <1>1, <1>2, <1>6 DEF Types, Places
  <2> QED BY <1>5, <1>6, <1>8, <2>1 DEF Truth, ReadsAreTrue
<1> QED BY <1>7, <1>9, <1>10, <1>11 DEF Truth

\* While the vault rests, a step may only move readers on, with what they say true.
LEMMA RestTruth ==
  ASSUME Truth, UNCHANGED vault, CacheIsTrue', ReadsAreTrue', GotIsTrue'
  PROVE  Truth'
  BY DEF Truth, FilesArePast, vault

LEMMA GivesTruth ==
  ASSUME Types, Truth, UNCHANGED vault, NEW r \in Readers, NEW mtime, NEW text,
         Gives(r, mtime, text), Said(cur[r].note, mtime, text), cur[r].note \in Notes
  PROVE  GotIsTrue'
<1> DEFINE entry == [mtime |-> mtime, text |-> text]
<1>1. got' = [got EXCEPT ![r][cur[r].note] = entry]
  BY DEF Gives
<1>2. Said(cur[r].note, entry.mtime, entry.text)
  OBVIOUS
<1> HIDE DEF entry
<1>3. SUFFICES ASSUME NEW q \in Readers, NEW n \in Notes, got'[q][n] # None
               PROVE  Said(n, got[q][n].mtime, got[q][n].text)'
  BY DEF GotIsTrue
<1>4. CASE q = r /\ n = cur[r].note
  BY <1>1, <1>2, <1>4 DEF Types, Said, vault
<1>5. CASE ~(q = r /\ n = cur[r].note)
  <2>1. got'[q][n] = got[q][n]
    BY <1>1, <1>5 DEF Types
  <2> QED BY <1>3, <2>1 DEF Truth, GotIsTrue, Said, vault
<1> QED BY <1>4, <1>5

LEMMA CachedReadTruth ==
  ASSUME Types, Truth, NEW r \in Readers, CachedRead(r)
  PROVE  Truth'
<1>0. /\ \A n \in Notes : \A mtime, text :
           UNCHANGED vault /\ Said(n, mtime, text) => Said(n, mtime, text)'
      /\ cur[r] \in Places
  BY DEF Said, vault, Types
<1>1. CASE Stat(r)
  <2>1. UNCHANGED <<vault, caching>>
    BY <1>1 DEF Stat
  <2>2. PICK n \in job[r].todo :
          /\ got' = [got EXCEPT ![r][n] = None]
          /\ \/ Goes(r, "next", "next") /\ UNCHANGED cur
             \/ /\ Goes(r, "next", "read") \/ Goes(r, "next", "lookup")
                /\ cur' = [cur EXCEPT ![r] = [note |-> n, mtime |-> file[n].mtime, text |-> Blank]]
    BY <1>1 DEF Stat
  <2>3. n \in Notes
    BY DEF Types, Jobs
  <2>4. GotIsTrue'
    BY <1>0, <2>1, <2>2, <2>3 DEF Types, Truth, GotIsTrue
  <2>5. CacheIsTrue'
    BY <1>0, <2>1 DEF Truth, CacheIsTrue, caching
  <2>6. ReadsAreTrue'
    <3>1. CASE Goes(r, "next", "next") /\ UNCHANGED cur
      BY <1>0, <2>1, <3>1 DEF Goes, Types, Truth, ReadsAreTrue, Said, vault
    <3>2. CASE /\ Goes(r, "next", "read") \/ Goes(r, "next", "lookup")
               /\ cur' = [cur EXCEPT ![r] = [note |-> n, mtime |-> file[n].mtime, text |-> Blank]]
      <4>1. file[n].mtime \in Nat
        BY <2>3 DEF Types, Version
      <4>2. ASSUME NEW q \in Readers, q # r PROVE at'[q] = at[q] /\ cur'[q] = cur[q]
        BY <3>2, <4>2 DEF Goes, Types
      <4>3. at'[r] \in {"read", "lookup"} /\ cur'[r] = [note |-> n, mtime |-> file[n].mtime, text |-> Blank]
        BY <3>2 DEF Goes, Types
      <4> QED BY <2>1, <2>3, <4>1, <4>2, <4>3 DEF Truth, ReadsAreTrue, Said, vault
    <3> QED BY <2>2, <3>1, <3>2
  <2> QED BY <2>1, <2>4, <2>5, <2>6, RestTruth
<1>2. CASE Lookup(r)
  <2> DEFINE n == cur[r].note
  <2>1. UNCHANGED <<vault, cache>> /\ n \in Notes /\ at[r] = "lookup"
    BY <1>2 DEF Lookup, Truth, ReadsAreTrue
  <2>2. CacheIsTrue'
    BY <1>0, <2>1 DEF Truth, CacheIsTrue
  <2>3. CASE Hit(r) /\ Goes(r, "lookup", "next") /\ Gives(r, cur[r].mtime, cache[n].text)
    <3>1. Said(n, cur[r].mtime, cache[n].text)
      BY <2>1, <2>3 DEF Hit, Truth, CacheIsTrue
    <3>2. GotIsTrue'
      BY <2>1, <2>3, <3>1, GivesTruth
    <3>3. ReadsAreTrue'
      BY <1>0, <2>1, <2>3 DEF Goes, Gives, Types, Truth, ReadsAreTrue, Said, vault
    <3> QED BY <2>1, <2>2, <3>2, <3>3, RestTruth
  <2>4. CASE Goes(r, "lookup", "read") /\ UNCHANGED <<cur, got>>
    <3>1. GotIsTrue'
      BY <1>0, <2>1, <2>4 DEF Truth, GotIsTrue
    <3>2. ReadsAreTrue'
      BY <1>0, <2>1, <2>4 DEF Goes, Types, Truth, ReadsAreTrue, Said, vault
    <3> QED BY <2>1, <2>2, <3>1, <3>2, RestTruth
  <2> QED BY <1>2, <2>3, <2>4 DEF Lookup
<1>3. CASE ReadText(r)
  <2> DEFINE n == cur[r].note
             text == file[n].text
  <2>1. UNCHANGED <<vault, caching>> /\ n \in Notes /\ at[r] = "read"
    BY <1>3 DEF ReadText, Truth, ReadsAreTrue
  <2>2. CacheIsTrue'
    BY <1>0, <2>1 DEF Truth, CacheIsTrue, caching
  <2>3. text \in Readable => Said(n, cur[r].mtime, text)
    <3>1. Absent \notin Readable
      BY VaultAssumption DEF VaultAssumption, Readable, Blank, Absent
    <3>2. cur[r].mtime <= file[n].mtime
      BY <2>1 DEF Truth, ReadsAreTrue
    <3>3. text \in Readable => file[n] \in past[n]
      BY <2>1, <3>1 DEF Truth, FilesArePast
    <3> QED BY <3>2, <3>3, <2>1 DEF Said, Types, Version, Places
  <2>4. CASE text \in Readable /\ Goes(r, "read", "insert") /\ cur' = [cur EXCEPT ![r].text = text] /\ UNCHANGED got
    <3>1. GotIsTrue'
      BY <1>0, <2>1, <2>4 DEF Truth, GotIsTrue
    <3>2. ASSUME NEW q \in Readers, q # r PROVE at'[q] = at[q] /\ cur'[q] = cur[q]
      BY <2>4, <3>2 DEF Goes, Types
    <3>3. at'[r] = "insert" /\ cur'[r].note = n /\ cur'[r].mtime = cur[r].mtime /\ cur'[r].text = text
      BY <1>0, <2>4 DEF Goes, Types, Places
    <3>4. ReadsAreTrue'
      BY <2>1, <2>3, <2>4, <3>2, <3>3 DEF Truth, ReadsAreTrue, Said, vault
    <3> QED BY <2>1, <2>2, <3>1, <3>4, RestTruth
  <2>5. CASE text \in Readable /\ Goes(r, "read", "next") /\ Gives(r, cur[r].mtime, text)
    <3>1. GotIsTrue'
      BY <2>1, <2>3, <2>5, GivesTruth
    <3>2. ReadsAreTrue'
      BY <2>1, <2>5 DEF Goes, Gives, Types, Truth, ReadsAreTrue, Said, vault
    <3> QED BY <2>1, <2>2, <3>1, <3>2, RestTruth
  <2>6. CASE Goes(r, "read", "next") /\ GivesNothing(r)
    <3>1. GotIsTrue'
      BY <1>0, <2>1, <2>6 DEF Truth, GotIsTrue, GivesNothing
    <3>2. ReadsAreTrue'
      BY <2>1, <2>6 DEF Goes, GivesNothing, Types, Truth, ReadsAreTrue, Said, vault
    <3> QED BY <2>1, <2>2, <3>1, <3>2, RestTruth
  <2> QED BY <1>3, <2>4, <2>5, <2>6 DEF ReadText
<1>4. CASE Insert(r)
  <2> DEFINE n == cur[r].note
             entry == [mtime |-> cur[r].mtime, text |-> cur[r].text]
  <2>1. UNCHANGED vault /\ Goes(r, "insert", "next") /\ Gives(r, cur[r].mtime, cur[r].text)
    BY <1>4 DEF Insert
  <2>2. n \in Notes /\ Said(n, cur[r].mtime, cur[r].text)
    BY <2>1 DEF Goes, Truth, ReadsAreTrue
  <2>3. GotIsTrue'
    BY <2>1, <2>2, GivesTruth
  <2>4. ReadsAreTrue'
    BY <2>1 DEF Goes, Gives, Types, Truth, ReadsAreTrue, Said, vault
  <2>5. CacheIsTrue'
    <3>1. cache' = Stored(n, entry)
      BY <1>4 DEF Insert
    <3>2. Said(n, entry.mtime, entry.text)
      BY <2>2
    <3> HIDE DEF n, entry
    <3>3. ASSUME NEW m \in Notes, cache'[m] # None
          PROVE  cache'[m] = cache[m] \/ (m = n /\ cache'[m] = entry)
      BY <3>1, <3>3 DEF Stored, Types
    <3> QED BY <1>0, <2>1, <3>2, <3>3 DEF Truth, CacheIsTrue
  <2> QED BY <2>1, <2>3, <2>4, <2>5, RestTruth
<1> QED BY <1>1, <1>2, <1>3, <1>4 DEF CachedRead

LEMMA StartsTruth ==
  ASSUME Types, Truth, NEW r \in Readers, NEW call, Starts(r, call)
  PROVE  Truth'
<1>1. UNCHANGED <<file, clock, past, cache, cur, got>>
  BY DEF Starts, caching
<1>2. \A q \in Readers : at'[q] \in {"lookup", "read", "insert"} => at'[q] = at[q]
  BY DEF Starts, Goes, Types
<1> QED BY <1>1, <1>2 DEF Truth, FilesArePast, CacheIsTrue, ReadsAreTrue, GotIsTrue, Said

LEMMA ToolTruth ==
  ASSUME Types, Truth, NEW r \in Readers, Tool(r)
  PROVE  Truth'
<1>2. ASSUME UNCHANGED <<file, clock, past, cache, cur>>,
             \A q \in Readers : at'[q] \in {"lookup", "read", "insert"} => at'[q] = at[q],
             got' = [got EXCEPT ![r] = Nothing]
      PROVE Truth'
  BY <1>2 DEF Types, Truth, FilesArePast, CacheIsTrue, ReadsAreTrue, GotIsTrue, Said, Nothing
<1>3. ASSUME NEW result, NEW frontier, NEW hops, Then(r, result, frontier, hops) PROVE Truth'
  <2>1. UNCHANGED <<vault, caching, at, cur>> /\ got' = [got EXCEPT ![r] = Nothing]
    BY <1>3 DEF Then
  <2> QED BY <1>2, <2>1 DEF vault, caching
<1>4. ASSUME NEW n \in Notes, ReadFile(r, n) PROVE Truth'
  BY <1>4, StartsTruth DEF ReadFile
<1>5. ASSUME NEW op \in {"search", "attribute"}, Search(r, op) PROVE Truth'
  BY <1>5, StartsTruth DEF Search
<1>6. ASSUME NEW depth \in 1..MaxDepth, QueryGraph(r, depth) PROVE Truth'
  BY <1>6, StartsTruth DEF QueryGraph
<1>7. CASE FindSeeds(r) \/ Expand(r)
  BY <1>3, <1>7 DEF FindSeeds, Expand
<1>8. CASE FinishGraph(r) \/ Return(r)
  <2>1. UNCHANGED <<file, clock, past, cache, cur>> /\ got' = [got EXCEPT ![r] = Nothing]
    BY <1>8 DEF FinishGraph, Return, vault, caching
  <2>2. \A q \in Readers : at'[q] \in {"lookup", "read", "insert"} => at'[q] = at[q]
    BY <1>8 DEF FinishGraph, Return, Goes, Types
  <2> QED BY <1>2, <2>1, <2>2
<1> QED BY <1>4, <1>5, <1>6, <1>7, <1>8 DEF Tool

LEMMA TruthStep ==
  ASSUME Types, Truth, [Next]_vars
  PROVE  Truth'
<1> USE VaultAssumption DEF VaultAssumption
<1>1. ASSUME NEW n \in Notes, Edit(n) PROVE Truth'
  <2>1. PICK t \in Texts : Writes(n, t)
    BY <1>1 DEF Edit
  <2> QED BY <1>1, <2>1, WritesTruth DEF Edit, Readable
<1>2. ASSUME NEW n \in Notes, Delete(n) PROVE Truth'
  <2>1. file' = [file EXCEPT ![n].text = Absent] /\ UNCHANGED <<clock, past, caching, at, cur, got>>
    BY <1>2 DEF Delete
  <2>2. \A m \in Notes : /\ file'[m].mtime = file[m].mtime
                         /\ file'[m].text # Absent => file'[m] = file[m]
    BY <2>1 DEF Types, Version
  <2> QED BY <2>1, <2>2 DEF Truth, FilesArePast, CacheIsTrue, ReadsAreTrue, GotIsTrue, Said, caching
<1>3. ASSUME NEW r \in Readers, CachedRead(r) \/ Tool(r) PROVE Truth'
  BY <1>3, CachedReadTruth, ToolTruth
<1>4. CASE UNCHANGED <<vault, caching, at, cur, got>>
  BY <1>4 DEF Truth, FilesArePast, CacheIsTrue, ReadsAreTrue, GotIsTrue, Said, vault, caching
<1>5. ASSUME NEW d \in Drafts, PromoteOpens(d) PROVE Truth'
  <2>1. staging[d] \in Drafted /\ Writes(Dest[staging[d]], Blank) /\ UNCHANGED <<caching, at, cur, got>>
    BY <1>5 DEF PromoteOpens
  <2>2. Dest[staging[d]] \in Notes /\ Blank \in Readable
    BY <2>1 DEF Readable
  <2> QED BY <2>1, <2>2, WritesTruth
<1>6. CASE PromoteFills
  <2>1. UNCHANGED <<caching, at, cur, got>>
    BY <1>6 DEF PromoteFills
  <2>2. CASE Writes(Dest[loop.text], loop.text)
    <3>1. loop.text \in Drafted
      BY <1>6 DEF PromoteFills, Handling, Handler
    <3>2. Dest[loop.text] \in Notes /\ loop.text \in Readable
      BY <3>1 DEF Readable
    <3> QED BY <2>1, <2>2, <3>2, WritesTruth
  <2>3. CASE UNCHANGED vault
    BY <1>4, <2>1, <2>3
  <2> QED BY <1>6, <2>2, <2>3 DEF PromoteFills
<1>7. CASE Crash
  BY <1>7 DEF Crash, Truth, FilesArePast, CacheIsTrue, ReadsAreTrue, GotIsTrue, Said, Nothing
<1>8. ASSUME NEW d \in Drafts, (\E t \in Drafted : Create(d, t)) \/ Reject(d) PROVE Truth'
  BY <1>4, <1>8 DEF Create, Reject
<1>9. CASE PromoteUnlinks \/ UNCHANGED vars
  BY <1>4, <1>9 DEF PromoteUnlinks, vars
<1> QED BY <1>1, <1>2, <1>3, <1>5, <1>6, <1>7, <1>8, <1>9 DEF Next, Environment, Staging

-----------------------------------------------------------------------------
(* The order of the cache: every key once *)

Distinct(s) == \A i, j \in DOMAIN s : s[i] = s[j] => i = j

\* The keys of the cache, least recently used first, as many as fit.
Ordered ==
  /\ order \in Seq(Notes)
  /\ Distinct(order)
  /\ {order[i] : i \in DOMAIN order} = {n \in Notes : cache[n] # None}
  /\ Len(order) <= CacheSize

\* Using a note moves it to the end, or puts it there.
LEMMA UsedIs ==
  ASSUME order \in Seq(Notes), Distinct(order), NEW n \in Notes
  PROVE  /\ Used(n) \in Seq(Notes) /\ Distinct(Used(n))
         /\ {Used(n)[i] : i \in DOMAIN Used(n)} = {order[i] : i \in DOMAIN order} \cup {n}
         /\ Len(Used(n)) =
              Len(order) + (IF n \in {order[i] : i \in DOMAIN order} THEN 0 ELSE 1)
         /\ Used(n) # <<>>
<1> DEFINE L == Len(order)
<1>0. L \in Nat /\ DOMAIN order = 1..L /\ \A i \in 1..L : order[i] \in Notes
  OBVIOUS
<1>1. CASE n \in {order[i] : i \in DOMAIN order}
  <2> DEFINE at0 == CHOOSE i \in DOMAIN order : order[i] = n
             s == [j \in 1..L |->
                     IF j < at0 THEN order[j] ELSE IF j < L THEN order[j + 1] ELSE n]
  <2>1. at0 \in 1..L /\ order[at0] = n
    BY <1>0, <1>1
  <2>2. Used(n) = s
    BY <1>0, <1>1 DEF Used
  <2> HIDE DEF at0
  <2>3. \A j \in 1..L : /\ j < at0 => s[j] = order[j]
                        /\ ~(j < at0) /\ j < L => s[j] = order[j + 1]
                        /\ j = L => s[j] = n
    <3>1. L \in Nat /\ at0 \in Nat /\ at0 <= L
      BY <1>0, <2>1
    <3> HIDE DEF L
    <3> QED BY <3>1
  <2>4. \A j \in 1..L : s[j] \in Notes
    BY <1>0, <2>1
  <2>5. s \in Seq(Notes) /\ Len(s) = L /\ DOMAIN s = 1..L
    BY <1>0, <2>4
  <2> HIDE DEF s, L
  <2>6. \A i, j \in 1..L : order[i] = order[j] => i = j
    BY <1>0 DEF Distinct
  <2>7. Distinct(s)
    <3> SUFFICES ASSUME NEW i \in 1..L, NEW j \in 1..L, i < j PROVE s[i] # s[j]
      BY <1>0, <2>5 DEF Distinct
    <3>1. CASE i < at0 /\ j < at0
      BY <1>0, <2>1, <2>3, <2>6, <3>1
    <3>2. CASE i < at0 /\ ~(j < at0) /\ j < L
      <4>1. j + 1 \in 1..L /\ i # j + 1
        BY <1>0, <3>2
      <4> QED BY <2>3, <2>6, <3>2, <4>1
    <3>3. CASE j = L /\ i < at0
      BY <2>1, <2>3, <2>6, <3>3
    <3>4. CASE j = L /\ ~(i < at0)
      <4>1. i + 1 \in 1..L /\ i + 1 # at0 /\ i < L
        BY <1>0, <2>1, <3>4
      <4> QED BY <2>1, <2>3, <2>6, <3>4, <4>1
    <3>5. CASE ~(i < at0) /\ j < L
      <4>1. i + 1 \in 1..L /\ j + 1 \in 1..L /\ i < L /\ ~(j < at0)
        BY <1>0, <2>1, <3>5
      <4> QED BY <2>3, <2>6, <3>5, <4>1
    <3> QED BY <1>0, <2>1, <3>1, <3>2, <3>3, <3>4, <3>5
  <2>8. ASSUME NEW m \in {order[i] : i \in 1..L} PROVE \E j \in 1..L : s[j] = m
    <3>1. PICK i \in 1..L : order[i] = m
      OBVIOUS
    <3>2. CASE i < at0
      BY <2>3, <3>1, <3>2
    <3>3. CASE i = at0
      <4>1. L \in 1..L
        BY <1>0, <2>1
      <4> QED BY <2>1, <2>3, <3>1, <3>3, <4>1
    <3>4. CASE i > at0
      <4>1. i - 1 \in 1..L /\ ~(i - 1 < at0) /\ i - 1 < L /\ (i - 1) + 1 = i
        BY <1>0, <2>1, <3>4
      <4> QED BY <2>3, <3>1, <4>1
    <3> QED BY <1>0, <2>1, <3>2, <3>3, <3>4
  <2>9. ASSUME NEW j \in 1..L PROVE \E i \in 1..L : s[j] = order[i]
    <3>1. CASE j < at0
      BY <2>3, <3>1
    <3>2. CASE ~(j < at0) /\ j < L
      <4>1. j + 1 \in 1..L
        BY <1>0, <3>2
      <4> QED BY <2>3, <3>2, <4>1
    <3>3. CASE j = L
      BY <2>1, <2>3, <3>3
    <3> QED BY <1>0, <3>1, <3>2, <3>3
  <2>10. {s[i] : i \in 1..L} = {order[i] : i \in 1..L} \cup {n}
    <3>1. n \in {order[i] : i \in 1..L}
      BY <2>1
    <3>2. \A j \in 1..L : s[j] \in {order[i] : i \in 1..L}
      BY <2>9
    <3>3. \A m \in {order[i] : i \in 1..L} : m \in {s[i] : i \in 1..L}
      BY <2>8
    <3> QED BY <3>1, <3>2, <3>3
  <2>11. s # <<>>
    BY <1>0, <2>1, <2>5
  <2>12. L = Len(order)
    BY DEF L
  <2>13. Len(s) = Len(order) + 0
    BY <1>0, <2>5, <2>12
  <2>14. {s[i] : i \in DOMAIN s} = {order[i] : i \in DOMAIN order} \cup {n}
    BY <1>0, <2>5, <2>10
  <2> QED BY <1>1, <2>2, <2>5, <2>7, <2>11, <2>13, <2>14
<1>2. CASE n \notin {order[i] : i \in DOMAIN order}
  <2>1. Used(n) = Append(order, n)
    BY <1>2 DEF Used
  <2>2. /\ Append(order, n) \in Seq(Notes) /\ Len(Append(order, n)) = L + 1
        /\ DOMAIN Append(order, n) = 1..(L + 1)
        /\ Append(order, n)[L + 1] = n
        /\ \A i \in 1..L : Append(order, n)[i] = order[i]
    BY <1>0
  <2> DEFINE s == Append(order, n)
  <2>3. s \in Seq(Notes) /\ Len(s) = L + 1 /\ DOMAIN s = 1..(L + 1) /\ s[L + 1] = n
        /\ \A i \in 1..L : s[i] = order[i]
    BY <2>2
  <2> HIDE DEF s, L
  <2>4. \A i \in 1..(L + 1) : i \in 1..L \/ i = L + 1
    BY <1>0
  <2>5. \A i \in 1..L : order[i] # n
    BY <1>0, <1>2
  <2>6. Distinct(s)
    BY <1>0, <2>3, <2>4, <2>5 DEF Distinct
  <2>7. {s[i] : i \in 1..(L + 1)} = {order[i] : i \in 1..L} \cup {n}
    <3>1. L + 1 \in 1..(L + 1) /\ \A i \in 1..L : i \in 1..(L + 1)
      BY <1>0
    <3> QED BY <2>3, <2>4, <3>1
  <2>8. s # <<>>
    BY <1>0, <2>3
  <2> QED BY <1>0, <1>2, <2>1, <2>3, <2>6, <2>7, <2>8 DEF s, L
<1> QED BY <1>1, <1>2

\* Without its first key an order has all the others.
LEMMA TailIs ==
  ASSUME NEW s \in Seq(Notes), Distinct(s), s # <<>>
  PROVE  /\ Tail(s) \in Seq(Notes) /\ Distinct(Tail(s)) /\ Len(Tail(s)) = Len(s) - 1
         /\ {Tail(s)[i] : i \in DOMAIN Tail(s)} = {s[i] : i \in DOMAIN s} \ {Head(s)}
<1>1. /\ Len(s) \in Nat /\ Len(s) # 0 /\ DOMAIN s = 1..Len(s) /\ Head(s) = s[1]
      /\ Tail(s) \in Seq(Notes) /\ Len(Tail(s)) = Len(s) - 1
      /\ DOMAIN Tail(s) = 1..(Len(s) - 1)
      /\ \A i \in 1..(Len(s) - 1) : Tail(s)[i] = s[i + 1]
  OBVIOUS
<1> DEFINE t == Tail(s)
           L == Len(s)
           h == Head(s)
<1>2. /\ L \in Nat /\ L # 0 /\ DOMAIN s = 1..L /\ h = s[1] /\ DOMAIN t = 1..(L - 1)
      /\ \A i \in 1..(L - 1) : t[i] = s[i + 1]
  BY <1>1
<1> HIDE DEF t, L, h
<1>3. \A i \in 1..(L - 1) : i + 1 \in 1..L /\ i + 1 # 1
  BY <1>2
<1>4. Distinct(t)
  BY <1>2, <1>3 DEF Distinct
<1>5. {t[i] : i \in 1..(L - 1)} = {s[i] : i \in 1..L} \ {h}
  <2>1. \A i \in 1..(L - 1) : t[i] \in {s[j] : j \in 1..L} /\ t[i] # h
    <3>1. 1 \in 1..L
      BY <1>2
    <3> QED BY <1>2, <1>3, <3>1 DEF Distinct
  <2>2. ASSUME NEW j \in 1..L, s[j] # h PROVE \E i \in 1..(L - 1) : t[i] = s[j]
    <3>1. j - 1 \in 1..(L - 1) /\ (j - 1) + 1 = j
      BY <1>2, <2>2
    <3> QED BY <1>2, <3>1
  <2> QED BY <2>1, <2>2
<1> QED BY <1>1, <1>2, <1>4, <1>5 DEF t, L, h

LEMMA InitOrdered == Init => Ordered
<1> SUFFICES ASSUME Init PROVE Ordered
  OBVIOUS
<1>1. order = <<>> /\ \A n \in Notes : cache[n] = None
  BY DEF Init, Nothing
<1>2. order \in Seq(Notes) /\ Len(order) = 0 /\ DOMAIN order = {}
  BY <1>1
<1> QED BY <1>1, <1>2, VaultAssumption DEF VaultAssumption, Ordered, Distinct

\* Whoever was used is in the cache already: the order is all that changes.
LEMMA LookupOrdered ==
  ASSUME Types, Truth, Ordered, NEW r \in Readers, Lookup(r)
  PROVE  Ordered'
<1> DEFINE n == cur[r].note
<1>1. at[r] = "lookup" /\ cache' = cache /\ (UNCHANGED order \/ (Hit(r) /\ order' = Used(n)))
  BY DEF Lookup
<1>2. n \in Notes
  BY <1>1 DEF Truth, ReadsAreTrue
<1>3. CASE UNCHANGED order
  BY <1>1, <1>3 DEF Ordered
<1>4. CASE Hit(r) /\ order' = Used(n)
  <2>1. n \in {order[i] : i \in DOMAIN order}
    BY <1>2, <1>4 DEF Hit, Ordered
  <2>2. Len(order) \in Nat
    BY DEF Ordered
  <2> HIDE DEF n
  <2> DEFINE keys == {order[i] : i \in DOMAIN order}
  <2>3. order \in Seq(Notes) /\ Distinct(order)
    BY DEF Ordered
  <2>4. /\ Used(n) \in Seq(Notes) /\ Distinct(Used(n))
        /\ {Used(n)[i] : i \in DOMAIN Used(n)} = keys \cup {n}
        /\ Len(Used(n)) = Len(order) + (IF n \in keys THEN 0 ELSE 1)
    BY <1>2, <2>3, UsedIs
  <2>5. order' = Used(n) /\ keys \cup {n} = keys /\ Len(Used(n)) = Len(order)
    <3> HIDE DEF keys
    <3>1. n \in keys
      BY <2>1 DEF keys
    <3> QED BY <1>4, <2>2, <2>4, <3>1
  <2> QED BY <1>1, <2>4, <2>5 DEF Ordered
<1> QED BY <1>1, <1>3, <1>4

\* The entry that goes when the cache is full is the one that leaves the order.
LEMMA InsertOrdered ==
  ASSUME Types, Truth, Ordered, NEW r \in Readers, Insert(r)
  PROVE  Ordered'
<1> DEFINE n == cur[r].note
           entry == [mtime |-> cur[r].mtime, text |-> cur[r].text]
           keys == {m \in Notes : cache[m] # None}
<1>1. /\ at[r] = "insert" /\ cache' = Stored(n, entry)
      /\ order' = IF Len(Used(n)) > CacheSize THEN Tail(Used(n)) ELSE Used(n)
  BY DEF Insert, Goes
<1>2. n \in Notes
  BY <1>1 DEF Truth, ReadsAreTrue
<1>3. entry # None
  <2>1. entry \in [mtime : Nat, text : Readable]
    BY DEF Types, Places
  <2> QED BY <2>1, VaultAssumption DEF VaultAssumption, Readable
<1>4. cache \in [Notes -> Version(Readable) \cup {None}]
  BY DEF Types
<1> HIDE DEF n, entry
<1> DEFINE s == Used(n)
<1>5. /\ s \in Seq(Notes) /\ Distinct(s) /\ s # <<>>
      /\ {s[i] : i \in DOMAIN s} = keys \cup {n}
      /\ Len(s) = Len(order) + (IF n \in keys THEN 0 ELSE 1)
  BY <1>2, UsedIs DEF Ordered
<1>6. Len(order) \in Nat /\ Len(order) <= CacheSize /\ Len(s) \in Nat
  BY <1>5 DEF Ordered
<1> HIDE DEF s
<1>7. CASE Len(s) > CacheSize
  <2>1. order' = Tail(s) /\ cache' = [[cache EXCEPT ![n] = entry] EXCEPT ![Head(s)] = None]
    BY <1>1, <1>7 DEF Stored, s
  <2>2. /\ Tail(s) \in Seq(Notes) /\ Distinct(Tail(s)) /\ Len(Tail(s)) = Len(s) - 1
        /\ {Tail(s)[i] : i \in DOMAIN Tail(s)} = (keys \cup {n}) \ {Head(s)}
    BY <1>5, TailIs
  <2>3. Len(Tail(s)) <= CacheSize
    BY <1>5, <1>6, <2>2, VaultAssumption DEF VaultAssumption
  <2>4. {m \in Notes : cache'[m] # None} = (keys \cup {n}) \ {Head(s)}
    BY <1>2, <1>3, <1>4, <2>1
  <2> QED BY <2>1, <2>2, <2>3, <2>4 DEF Ordered
<1>8. CASE ~(Len(s) > CacheSize)
  <2>1. order' = s /\ cache' = [cache EXCEPT ![n] = entry]
    BY <1>1, <1>8 DEF Stored, s
  <2>2. {m \in Notes : cache'[m] # None} = keys \cup {n}
    BY <1>2, <1>3, <1>4, <2>1
  <2>3. Len(s) <= CacheSize
    BY <1>6, <1>8, VaultAssumption DEF VaultAssumption
  <2> QED BY <1>5, <2>1, <2>2, <2>3 DEF Ordered
<1> QED BY <1>7, <1>8

LEMMA OrderedStep ==
  ASSUME Types, Truth, Ordered, [Next]_vars
  PROVE  Ordered'
<1>1. CASE UNCHANGED caching
  BY <1>1 DEF Ordered, caching
<1>2. ASSUME NEW r \in Readers, CachedRead(r) PROVE Ordered'
  BY <1>1, <1>2, LookupOrdered, InsertOrdered DEF CachedRead, Stat, ReadText
<1>3. ASSUME NEW r \in Readers, Tool(r) PROVE UNCHANGED caching
  BY <1>3 DEF Tool, ReadFile, Search, QueryGraph, FindSeeds, Expand, FinishGraph, Return, Then, Starts
<1>4. CASE Crash
  <2>1. order' = <<>> /\ \A n \in Notes : cache'[n] = None
    BY <1>4 DEF Crash, Nothing
  <2>2. order' \in Seq(Notes) /\ Len(order') = 0 /\ DOMAIN order' = {}
    BY <2>1
  <2> QED BY <2>1, <2>2, VaultAssumption DEF VaultAssumption, Ordered, Distinct
<1>5. CASE Environment \/ Staging \/ UNCHANGED vars
  BY <1>1, <1>5 DEF Environment, Edit, Delete, Staging, Create, PromoteOpens, Reject,
                    PromoteFills, PromoteUnlinks, vars
<1> QED BY <1>1, <1>2, <1>3, <1>4, <1>5 DEF Next

-----------------------------------------------------------------------------
(* Who holds the loop, whose query saw no change, and how much was written *)

Rest ==
  /\ writes \in 0..MaxWrites
  /\ quiet \subseteq Readers
  /\ loop \in {Free} \cup Readers
       \cup [at : {"promoting", "unlinking"}, draft : Drafts, text : Drafted]

LEMMA InitRest == Init => Rest
  BY VaultAssumption DEF VaultAssumption, Init, Rest

LEMMA RestStep ==
  ASSUME Types, Rest, [Next]_vars
  PROVE  Rest'
<1> DEFINE Holders == {Free} \cup Readers
                        \cup [at : {"promoting", "unlinking"}, draft : Drafts, text : Drafted]
<1>0. MaxWrites \in Nat
  BY VaultAssumption DEF VaultAssumption
<1>1. ASSUME NEW n, NEW t, Writes(n, t) PROVE writes' \in 0..MaxWrites /\ quiet' \subseteq Readers
  BY <1>0, <1>1 DEF Writes, Rest
<1>2. CASE Environment
  BY <1>0, <1>1, <1>2 DEF Environment, Edit, Delete, Rest
<1>3. ASSUME NEW r \in Readers, CachedRead(r) PROVE Rest'
  BY <1>3 DEF CachedRead, Stat, Lookup, ReadText, Insert, Rest, vault
<1>4. ASSUME NEW r \in Readers, Tool(r) PROVE Rest'
  <2>1. writes' = writes /\ quiet' \subseteq quiet \cup {r} /\ loop' \in {loop, r, Free}
    BY <1>4 DEF Tool, ReadFile, Search, QueryGraph, FindSeeds, Expand, FinishGraph, Return,
                Then, Starts, vault
  <2> QED BY <2>1 DEF Rest
<1>5. ASSUME NEW d \in Drafts, PromoteOpens(d) PROVE Rest'
  <2>1. loop' \in Holders
    BY <1>5 DEF PromoteOpens, Handler
  <2> QED BY <1>1, <1>5, <2>1 DEF PromoteOpens, Rest
<1>6. CASE PromoteFills
  <2>1. PICK d \in Drafts, t \in Drafted : loop = Handler("promoting", d, t)
    BY <1>6 DEF PromoteFills, Handling
  <2>2. CASE Writes(Dest[loop.text], loop.text) /\ loop' = [loop EXCEPT !.at = "unlinking"]
    <3>1. loop' \in Holders
      BY <2>1, <2>2 DEF Handler
    <3> QED BY <1>1, <2>2, <3>1 DEF Rest
  <2>3. CASE loop' = Free /\ UNCHANGED vault
    BY <2>3 DEF Rest, vault
  <2> QED BY <1>6, <2>2, <2>3 DEF PromoteFills
<1>7. ASSUME NEW d \in Drafts, (\E t \in Drafted : Create(d, t)) \/ Reject(d) PROVE Rest'
  BY <1>7 DEF Create, Reject, Rest, vault
<1>8. CASE PromoteUnlinks \/ Crash \/ UNCHANGED vars
  BY <1>8 DEF PromoteUnlinks, Crash, Rest, vault, vars
<1> QED BY <1>2, <1>3, <1>4, <1>5, <1>6, <1>7, <1>8 DEF Next, Staging

-----------------------------------------------------------------------------
(* Walks over the links of the vault *)

LEMMA Smallest ==
  ASSUME NEW T, T \subseteq Nat, T # {}
  PROVE  \E m \in T : \A n \in T : m <= n
<1> DEFINE R == OpToRel(<, Nat)
<1>1. \E x \in T : \A y \in T : ~ (<<y, x>> \in R)
  BY NatLessThanWellFounded, WFMin
<1>2. \A x, y \in Nat : <<y, x>> \in R <=> y < x
  BY DEF OpToRel
<1> HIDE DEF R
<1>3. PICK x \in T : \A y \in T : ~ (<<y, x>> \in R)
  BY <1>1
<1>4. ASSUME NEW y \in T PROVE x <= y
  <2>1. x \in Nat /\ y \in Nat /\ ~(<<y, x>> \in R)
    BY <1>3
  <2> QED BY <1>2, <2>1
<1> QED BY <1>3, <1>4

LEMMA Induction ==
  ASSUME NEW S, 0 \in S, \A n \in Nat : n \in S => n + 1 \in S
  PROVE  Nat \subseteq S
<1> SUFFICES ASSUME Nat \ S # {} PROVE FALSE
  OBVIOUS
<1>1. PICK m \in Nat \ S : \A n \in Nat \ S : m <= n
  BY Smallest
<1>2. m - 1 \in Nat /\ m - 1 \in S
  BY <1>1
<1> QED BY <1>1, <1>2

\* The notes that a wanted note reaches in at most k links.
Reach(k) ==
  UNION {{w[hops] : w \in {x \in Walks(hops) : file[x[0]].text \in Wanted}} : hops \in 0..k}

Reaches(m, j) == \E w \in Walks(j) : file[w[0]].text \in Wanted /\ w[j] = m

LinkedFrom(from) == UNION {LinkedTo(n) : n \in from}

LEMMA ReachIs == \A k, m : m \in Reach(k) <=> \E j \in 0..k : Reaches(m, j)
  BY DEF Reach, Reaches

LEMMA ReachGrows == ASSUME NEW k \in Nat, NEW l \in Nat, k <= l PROVE Reach(k) \subseteq Reach(l)
<1>1. \A j \in 0..k : j \in 0..l
  OBVIOUS
<1> QED BY <1>1, ReachIs

LEMMA ReachPresent == ASSUME NEW k \in Nat PROVE Reach(k) \subseteq Present
<1> SUFFICES ASSUME NEW m \in Reach(k) PROVE m \in Present
  OBVIOUS
<1>1. PICK j \in 0..k : Reaches(m, j)
  BY ReachIs
<1>2. PICK w \in Walks(j) : w[j] = m
  BY <1>1 DEF Reaches
<1>3. w \in [0..j -> Present] /\ j \in 0..j
  BY <1>1, <1>2 DEF Walks
<1> QED BY <1>2, <1>3

LEMMA ReachZero == Reach(0) = {n \in Present : file[n].text \in Wanted}
<1>1. ASSUME NEW m \in Reach(0) PROVE m \in Present /\ file[m].text \in Wanted
  <2>1. PICK j \in 0..0 : Reaches(m, j)
    BY <1>1, ReachIs
  <2>2. j = 0
    BY <2>1
  <2>3. m \in Present
    BY <1>1, ReachPresent
  <2> QED BY <2>1, <2>2, <2>3 DEF Reaches
<1>2. ASSUME NEW m \in Present, file[m].text \in Wanted PROVE m \in Reach(0)
  <2> DEFINE w == [i \in 0..0 |-> m]
  <2>1. w \in [0..0 -> Present] /\ w[0] = m /\ 1..0 = {}
    OBVIOUS
  <2>2. w \in Walks(0)
    BY <2>1 DEF Walks
  <2>3. Reaches(m, 0)
    BY <1>2, <2>1, <2>2 DEF Reaches
  <2>4. 0 \in 0..0
    OBVIOUS
  <2> QED BY <2>3, <2>4, ReachIs
<1> QED BY <1>1, <1>2

LEMMA ReachNext ==
  ASSUME NEW k \in Nat
  PROVE  Reach(k + 1) = Reach(k) \cup LinkedFrom(Reach(k))
<1>1. ASSUME NEW m \in Reach(k + 1), m \notin Reach(k) PROVE m \in LinkedFrom(Reach(k))
  <2>1. PICK j \in 0..(k + 1) : Reaches(m, j)
    BY ReachIs
  <2>2. j = k + 1
    <3>1. j \notin 0..k
      BY <1>1, <2>1, ReachIs
    <3> QED BY <3>1
  <2>3. PICK w \in Walks(k + 1) : file[w[0]].text \in Wanted /\ w[k + 1] = m
    BY <2>1, <2>2 DEF Reaches
  <2>4. w \in [0..(k + 1) -> Present] /\ \A i \in 1..(k + 1) : w[i] \in LinkedTo(w[i - 1])
    BY <2>3 DEF Walks
  <2> DEFINE v == [i \in 0..k |-> w[i]]
  <2>5. v \in Walks(k) /\ v[0] = w[0] /\ v[k] = w[k]
    <3>1. \A i \in 0..k : i \in 0..(k + 1) /\ v[i] = w[i]
      OBVIOUS
    <3>2. v \in [0..k -> Present]
      BY <2>4, <3>1
    <3>3. \A i \in 1..k : i \in 0..k /\ i - 1 \in 0..k /\ i \in 1..(k + 1)
      OBVIOUS
    <3>4. \A i \in 1..k : v[i] \in LinkedTo(v[i - 1])
      BY <2>4, <3>1, <3>3
    <3> QED BY <3>1, <3>2, <3>4 DEF Walks
  <2>6. w[k] \in Reach(k)
    <3>1. k \in 0..k
      OBVIOUS
    <3>2. Reaches(w[k], k)
      BY <2>3, <2>5 DEF Reaches
    <3> QED BY <3>1, <3>2, ReachIs
  <2>7. m \in LinkedTo(w[k])
    <3>1. k + 1 \in 1..(k + 1) /\ (k + 1) - 1 = k
      OBVIOUS
    <3> QED BY <2>3, <2>4, <3>1
  <2> QED BY <2>6, <2>7 DEF LinkedFrom
<1>2. ASSUME NEW m \in LinkedFrom(Reach(k)) PROVE m \in Reach(k + 1)
  <2>1. PICK n \in Reach(k) : m \in LinkedTo(n)
    BY <1>2 DEF LinkedFrom
  <2>2. PICK j \in 0..k : Reaches(n, j)
    BY <2>1, ReachIs
  <2>3. PICK w \in Walks(j) : file[w[0]].text \in Wanted /\ w[j] = n
    BY <2>2 DEF Reaches
  <2>4. w \in [0..j -> Present] /\ (\A i \in 1..j : w[i] \in LinkedTo(w[i - 1])) /\ j \in Nat
    BY <2>2, <2>3 DEF Walks
  <2>5. m \in Present
    BY <2>1 DEF LinkedTo
  <2> DEFINE v == [i \in 0..(j + 1) |-> IF i = j + 1 THEN m ELSE w[i]]
  <2>6. \A i \in 0..j : i \in 0..(j + 1) /\ i # j + 1 /\ v[i] = w[i]
    BY <2>4
  <2>7. v[j + 1] = m
    BY <2>4
  <2>8. v \in [0..(j + 1) -> Present]
    <3>1. \A i \in 0..(j + 1) : i \in 0..j \/ i = j + 1
      BY <2>4
    <3> QED BY <2>4, <2>5, <3>1
  <2> HIDE DEF v
  <2>9. \A i \in 1..(j + 1) : v[i] \in LinkedTo(v[i - 1])
    <3> SUFFICES ASSUME NEW i \in 1..(j + 1) PROVE v[i] \in LinkedTo(v[i - 1])
      OBVIOUS
    <3>1. i - 1 \in 0..j /\ v[i - 1] = w[i - 1]
      BY <2>4, <2>6
    <3>2. CASE i = j + 1
      <4>1. i - 1 = j
        BY <2>4, <3>2
      <4> QED BY <2>1, <2>3, <2>7, <3>1, <3>2, <4>1
    <3>3. CASE i # j + 1
      <4>1. i \in 1..j /\ i \in 0..j
        BY <2>4, <3>3
      <4> QED BY <2>4, <2>6, <3>1, <4>1
    <3> QED BY <3>2, <3>3
  <2>10. v \in Walks(j + 1)
    BY <2>8, <2>9 DEF Walks
  <2>11. v[0] = w[0] /\ j + 1 \in 0..(k + 1)
    BY <2>2, <2>4, <2>6
  <2>12. Reaches(m, j + 1)
    BY <2>3, <2>7, <2>10, <2>11 DEF Reaches
  <2> QED BY <2>11, <2>12, ReachIs
<1>3. Reach(k) \subseteq Reach(k + 1)
  BY ReachGrows
<1> QED BY <1>1, <1>2, <1>3

\* Once nothing new is linked to, more links reach nothing more.
LEMMA ReachClosed ==
  ASSUME NEW k \in Nat, LinkedFrom(Reach(k)) \subseteq Reach(k), NEW l \in Nat, k <= l
  PROVE  Reach(l) = Reach(k)
<1> DEFINE S == {i \in Nat : Reach(k + i) = Reach(k)}
<1>1. 0 \in S
  OBVIOUS
<1>2. ASSUME NEW i \in Nat, i \in S PROVE i + 1 \in S
  <2>1. Reach((k + i) + 1) = Reach(k + i) \cup LinkedFrom(Reach(k + i)) /\ k + (i + 1) = (k + i) + 1
    BY ReachNext
  <2> QED BY <1>2, <2>1
<1> HIDE DEF S
<1>3. Nat \subseteq S
  BY <1>1, <1>2, Induction
<1>4. l - k \in S /\ k + (l - k) = l
  BY <1>3
<1> QED BY <1>4 DEF S

LEMMA ReachSame == file' = file => \A k : Reach(k)' = Reach(k)
  BY DEF Reach, Walks, LinkedTo, Present

LEMMA LinksSame == file' = file => Present' = Present /\ \A n : LinkedTo(n)' = LinkedTo(n)
  BY DEF LinkedTo, Present

-----------------------------------------------------------------------------
(* Graph queries over a vault at rest *)

\* No note is older than what it has said, not even a deleted one.
FilesAreLast == \A n \in Notes : \A v \in past[n] : v.mtime <= file[n].mtime

\* A query that is quiet is under way.
QuietIsGraph == \A r \in quiet : job[r].op = "graph" /\ at[r] # "idle"

\* What the answer of a quiet query is claimed for.
Calm == Settled /\ Cardinality(Present) <= MaxResults

InFlight(r, n) == at[r] \in {"lookup", "read", "insert"} /\ cur[r].note = n

\* What a quiet query has in hand and was given is what the vault says.
SeesVault(r) ==
  /\ at[r] \in {"lookup", "read", "insert"} =>
       /\ cur[r].note \in Present
       /\ cur[r].mtime = file[cur[r].note].mtime
       /\ at[r] = "insert" => cur[r].text = file[cur[r].note].text
  /\ \A n \in Notes : got[r][n] # None => n \in Present /\ got[r][n].text = file[n].text

\* It has been given every note of the phase that it need not read any more.
HasRead(r) ==
  \A n \in IF job[r].phase = "seeds" THEN Present ELSE job[r].frontier :
    n \in job[r].todo \/ InFlight(r, n) \/ got[r][n] # None

\* With h hops left it knows what is reached without them, and has followed all links
\* but those of the frontier.
Seeding(r) ==
  /\ job[r].listed = Present
  /\ job[r].hops = job[r].depth - 1

Expanding(r) ==
  /\ job[r].listed = Present
  /\ job[r].hops # 0 /\ job[r].hops <= job[r].depth - 1
  /\ job[r].result = Reach(job[r].depth - 1 - job[r].hops)
  /\ job[r].frontier \subseteq job[r].result
  /\ LinkedFrom(job[r].result \ job[r].frontier) \subseteq job[r].result

Walking(r) ==
  /\ job[r].phase \in {"seeds", "expand", "rows"}
  /\ job[r].depth # 0
  /\ at[r] = "done" => job[r].phase = "rows"
  /\ job[r].phase = "seeds" => Seeding(r)
  /\ job[r].phase = "expand" => Expanding(r)
  /\ job[r].phase \in {"seeds", "expand"} => HasRead(r)
  /\ job[r].phase = "rows" => job[r].result = Reach(job[r].depth - 1)

QueryIsTrue(r) == SeesVault(r) /\ Walking(r)

\* A reader that starts has been given nothing yet.
IdleHasNothing == \A r \in Readers : at[r] = "idle" => \A n \in Notes : got[r][n] = None

Querying ==
  /\ FilesAreLast
  /\ QuietIsGraph
  /\ IdleHasNothing
  /\ Calm => \A r \in quiet : QueryIsTrue(r)

LEMMA InitQuerying == Init => Querying
  BY VaultAssumption DEF VaultAssumption, Init, Querying, FilesAreLast, QuietIsGraph, IdleHasNothing, Nothing

LEMMA CalmSame == UNCHANGED <<file, past>> => Calm' = Calm
<1> SUFFICES ASSUME UNCHANGED <<file, past>> PROVE Calm' = Calm
  OBVIOUS
<1>1. Present' = Present
  BY LinksSame
<1> QED BY <1>1 DEF Calm, Settled

\* A query is not disturbed by what leaves it and the vault alone.
LEMMA QueryRests ==
  ASSUME NEW r, QueryIsTrue(r), file' = file, at'[r] = at[r], cur'[r] = cur[r],
         got'[r] = got[r], job'[r] = job[r]
  PROVE  QueryIsTrue(r)'
<1>1. Present' = Present /\ (\A n : LinkedTo(n)' = LinkedTo(n)) /\ (\A k : Reach(k)' = Reach(k))
  BY LinksSame, ReachSame
<1>2. LinkedFrom(job[r].result \ job[r].frontier)' = LinkedFrom(job[r].result \ job[r].frontier)
  BY <1>1 DEF LinkedFrom
<1>3. SeesVault(r)'
  BY <1>1 DEF QueryIsTrue, SeesVault
<1>4. Seeding(r) => Seeding(r)'
  BY <1>1 DEF Seeding
<1>5. Expanding(r) => Expanding(r)'
  BY <1>1, <1>2 DEF Expanding
<1>6. HasRead(r) => HasRead(r)'
  BY <1>1 DEF HasRead, InFlight
<1> QED BY <1>1, <1>3, <1>4, <1>5, <1>6 DEF QueryIsTrue, Walking

\* So a step of one reader has to be looked at for that reader alone.
LEMMA OneReader ==
  ASSUME Types, Querying, NEW r \in Readers, UNCHANGED <<file, past>>,
         \A q \in Readers : q # r => /\ at'[q] = at[q] /\ cur'[q] = cur[q]
                                     /\ got'[q] = got[q] /\ job'[q] = job[q],
         quiet' \subseteq quiet \cup {r}, quiet' \subseteq Readers,
         r \in quiet' => job'[r].op = "graph" /\ at'[r] # "idle",
         at'[r] = "idle" => \A n \in Notes : got'[r][n] = None,
         Calm /\ r \in quiet' => QueryIsTrue(r)'
  PROVE  Querying'
<1>1. FilesAreLast'
  BY DEF Querying, FilesAreLast
<1>2. QuietIsGraph'
  BY DEF Querying, QuietIsGraph
<1>3. Calm' = Calm
  BY CalmSame
<1>4. ASSUME Calm, NEW q \in quiet', q # r PROVE QueryIsTrue(q)'
  <2>1. QueryIsTrue(q) /\ q \in Readers
    BY <1>4 DEF Querying
  <2> QED BY <1>4, <2>1, QueryRests
<1>5. IdleHasNothing'
  BY DEF Querying, IdleHasNothing
<1> QED BY <1>1, <1>2, <1>3, <1>4, <1>5 DEF Querying

\* A change of a note ends the quiet of every query.
LEMMA NoneIsQuiet ==
  ASSUME FilesAreLast', IdleHasNothing', quiet' = {}
  PROVE  Querying'
  BY DEF Querying, QuietIsGraph

LEMMA WritesQuerying ==
  ASSUME Types, Truth, Querying, NEW n \in Notes, NEW t \in Readable, Writes(n, t),
         UNCHANGED <<at, got>>
  PROVE  Querying'
<1>1. /\ clock' \in {clock, clock + 1} /\ quiet' = {}
      /\ file' = [file EXCEPT ![n] = [mtime |-> clock', text |-> t]]
      /\ past' = [past EXCEPT ![n] = @ \cup {[mtime |-> clock', text |-> t]}]
  BY DEF Writes
<1>2. clock \in Nat /\ file[n].mtime \in Nat /\ file[n].mtime <= clock
  BY DEF Types, Version, Truth, FilesArePast
<1>3. \A v \in past[n] : v.mtime \in Nat /\ v.mtime <= file[n].mtime
  BY DEF Types, Version, Querying, FilesAreLast
<1>4. clock' >= clock /\ clock' \in Nat
  BY <1>1, <1>2
<1>5. \A v \in past'[n] : v.mtime <= file'[n].mtime
  <2>1. file'[n].mtime = clock' /\ past'[n] = past[n] \cup {[mtime |-> clock', text |-> t]}
    BY <1>1 DEF Types
  <2> QED BY <1>2, <1>3, <1>4, <2>1
<1>6. \A m \in Notes : m # n => file'[m] = file[m] /\ past'[m] = past[m]
  BY <1>1 DEF Types
<1>7. FilesAreLast'
  BY <1>5, <1>6 DEF Querying, FilesAreLast
<1>8. IdleHasNothing'
  BY DEF Querying, IdleHasNothing
<1> QED BY <1>1, <1>7, <1>8, NoneIsQuiet

\* What the cache holds for the mtime of the file, the file says.
LEMMA HitIsTrue ==
  ASSUME Types, Truth, Querying, Settled, NEW n \in Present, cache[n] # None,
         cache[n].mtime = file[n].mtime
  PROVE  cache[n].text = file[n].text
<1>1. n \in Notes /\ file[n].text # Absent
  BY DEF Present
<1>2. PICK v \in past[n] : v.text = cache[n].text /\ v.mtime >= cache[n].mtime
  BY <1>1 DEF Truth, CacheIsTrue, Said
<1>3. v.mtime <= file[n].mtime /\ v.mtime \in Nat /\ file[n].mtime \in Nat
  BY <1>1, <1>2 DEF Querying, FilesAreLast, Types, Version
<1>4. v.mtime = file[n].mtime
  BY <1>2, <1>3
<1>5. file[n] \in past[n]
  BY <1>1 DEF Truth, FilesArePast
<1> QED BY <1>1, <1>2, <1>4, <1>5 DEF Settled

\* A read moves a query on only in what it has in hand and was given.
LEMMA ReadWalks ==
  ASSUME NEW r, Walking(r), file' = file, at'[r] # "done",
         job'[r].phase = job[r].phase, job'[r].depth = job[r].depth,
         job'[r].hops = job[r].hops, job'[r].listed = job[r].listed,
         job'[r].frontier = job[r].frontier, job'[r].result = job[r].result,
         job[r].phase \in {"seeds", "expand"} /\ HasRead(r) => HasRead(r)'
  PROVE  Walking(r)'
<1>1. Present' = Present /\ (\A n : LinkedTo(n)' = LinkedTo(n)) /\ (\A k : Reach(k)' = Reach(k))
  BY LinksSame, ReachSame
<1>2. LinkedFrom(job[r].result \ job[r].frontier)' = LinkedFrom(job[r].result \ job[r].frontier)
  BY <1>1 DEF LinkedFrom
<1>3. Seeding(r) => Seeding(r)'
  BY <1>1 DEF Seeding
<1>4. Expanding(r) => Expanding(r)'
  BY <1>1, <1>2 DEF Expanding
<1> QED BY <1>1, <1>3, <1>4 DEF Walking

\* A query that is given what the file says of the note in its hands.
LEMMA GivesQuery ==
  ASSUME Types, NEW r \in Readers, QueryIsTrue(r), file' = file, job' = job,
         at[r] \in {"lookup", "read", "insert"}, at'[r] = "next",
         NEW mtime \in Nat, Gives(r, mtime, file[cur[r].note].text)
  PROVE  QueryIsTrue(r)'
<1> DEFINE n == cur[r].note
           entry == [mtime |-> mtime, text |-> file[n].text]
<1>1. n \in Present /\ n \in Notes
  BY DEF QueryIsTrue, SeesVault, Present
<1>2. entry # None
  <2>1. entry \in [mtime : Nat, text : Texts \cup {Blank}]
    BY <1>1 DEF Types, Version, Readable, Present
  <2> QED BY <2>1, VaultAssumption DEF VaultAssumption
<1>3. got' = [got EXCEPT ![r][n] = entry] /\ entry.text = file[n].text
  BY DEF Gives
<1> HIDE DEF entry
<1>4. got'[r] = [got[r] EXCEPT ![n] = entry] /\ got[r] \in [Notes -> Version(Readable) \cup {None}]
  BY <1>3 DEF Types
<1>5. got'[r][n] = entry /\ \A m \in Notes : m # n => got'[r][m] = got[r][m]
  BY <1>1, <1>4
<1>6. SeesVault(r)'
  BY <1>1, <1>3, <1>5, LinksSame DEF QueryIsTrue, SeesVault
<1>7. HasRead(r) => HasRead(r)'
  <2>1. \A m : m \in Notes /\ InFlight(r, m) => m = n
    BY DEF InFlight
  <2>2. \A m \in Notes : got[r][m] # None \/ InFlight(r, m) => got'[r][m] # None
    BY <1>2, <1>5, <2>1
  <2>3. job[r].frontier \subseteq Notes /\ Present \subseteq Notes
    BY DEF Types, Jobs, Present
  <2> QED BY <2>2, <2>3, LinksSame DEF HasRead
<1> QED BY <1>6, <1>7, ReadWalks DEF QueryIsTrue

\* The notes that a query reads for seeds or links are there.
LEMMA ScopeIsThere ==
  ASSUME Types, NEW r \in Readers, Walking(r), job[r].phase = "expand"
  PROVE  job[r].frontier \subseteq Present
<1>1. job[r] \in Jobs
  BY DEF Types
<1>2. Expanding(r)
  BY DEF Walking
<1>3. job[r].depth - 1 - job[r].hops \in Nat
  BY <1>1, <1>2 DEF Jobs, Expanding
<1> QED BY <1>2, <1>3, ReachPresent DEF Expanding

LEMMA StatQuery ==
  ASSUME Types, Truth, NEW r \in Readers, QueryIsTrue(r), Stat(r)
  PROVE  QueryIsTrue(r)'
<1>1. PICK n \in job[r].todo :
        /\ job' = [job EXCEPT ![r].todo = @ \ {n}]
        /\ got' = [got EXCEPT ![r][n] = None]
        /\ \/ n \notin Present /\ Goes(r, "next", "next") /\ UNCHANGED cur
           \/ /\ n \in Present
              /\ Goes(r, "next", IF CacheSize = 0 THEN "read" ELSE "lookup")
              /\ cur' = [cur EXCEPT ![r] = [note |-> n, mtime |-> file[n].mtime, text |-> Blank]]
  BY DEF Stat
<1>2. file' = file /\ at[r] = "next"
  BY <1>1 DEF Stat, vault, Goes
<1>3. job[r] \in Jobs /\ n \in Notes
  BY <1>1 DEF Types, Jobs
<1>4. /\ job'[r] = [job[r] EXCEPT !.todo = @ \ {n}]
      /\ got'[r] = [got[r] EXCEPT ![n] = None]
      /\ got[r] \in [Notes -> Version(Readable) \cup {None}]
  BY <1>1 DEF Types
<1>5. got'[r][n] = None /\ \A m \in Notes : m # n => got'[r][m] = got[r][m]
  BY <1>3, <1>4
<1>6. \/ n \notin Present /\ at'[r] = "next"
      \/ /\ n \in Present /\ at'[r] \in {"read", "lookup"}
         /\ cur'[r] = [note |-> n, mtime |-> file[n].mtime, text |-> Blank]
  BY <1>1 DEF Goes, Types
<1>7. SeesVault(r)'
  BY <1>2, <1>5, <1>6, LinksSame DEF QueryIsTrue, SeesVault
<1>8. /\ job'[r].phase = job[r].phase /\ job'[r].depth = job[r].depth
      /\ job'[r].hops = job[r].hops /\ job'[r].listed = job[r].listed
      /\ job'[r].frontier = job[r].frontier /\ job'[r].result = job[r].result
      /\ job'[r].todo = job[r].todo \ {n}
  BY <1>3, <1>4 DEF Jobs
<1>9. ASSUME job[r].phase \in {"seeds", "expand"}, HasRead(r) PROVE HasRead(r)'
  <2> DEFINE scope == IF job[r].phase = "seeds" THEN Present ELSE job[r].frontier
  <2>1. scope \subseteq Present /\ Present \subseteq Notes
    BY <1>9, ScopeIsThere DEF QueryIsTrue, Present
  <2>2. ASSUME NEW m \in scope PROVE m \in job'[r].todo \/ InFlight(r, m)' \/ got'[r][m] # None
    <3>1. CASE m = n
      BY <1>6, <2>1, <3>1 DEF InFlight
    <3>2. CASE m # n
      <4>1. ~InFlight(r, m)
        BY <1>2 DEF InFlight
      <4>2. m \in job[r].todo \/ got[r][m] # None
        BY <1>9, <4>1 DEF HasRead
      <4> QED BY <1>5, <1>8, <2>1, <3>2, <4>2
    <3> QED BY <3>1, <3>2
  <2> QED BY <1>2, <1>8, <2>2, LinksSame DEF HasRead
<1>10. at'[r] # "done"
  BY <1>6
<1> QED BY <1>2, <1>7, <1>8, <1>9, <1>10, ReadWalks DEF QueryIsTrue

LEMMA CachedReadQuery ==
  ASSUME Types, Truth, Querying, Settled, NEW r \in quiet, r \in Readers, QueryIsTrue(r),
         CachedRead(r)
  PROVE  QueryIsTrue(r)'
<1> DEFINE n == cur[r].note
<1>0. at[r] \in {"lookup", "read", "insert"} =>
        n \in Present /\ n \in Notes /\ cur[r].mtime = file[n].mtime /\ cur[r].mtime \in Nat
  BY DEF QueryIsTrue, SeesVault, Present, Types, Places
<1>1. CASE Stat(r)
  BY <1>1, StatQuery
<1>2. CASE Lookup(r)
  <2>1. file' = file /\ job' = job /\ at[r] = "lookup"
    BY <1>2 DEF Lookup, vault
  <2>2. CASE Hit(r) /\ Goes(r, "lookup", "next") /\ Gives(r, cur[r].mtime, cache[n].text)
    <3>1. cache[n].text = file[n].text
      BY <1>0, <2>1, <2>2, HitIsTrue DEF Hit
    <3>2. at'[r] = "next"
      BY <2>2 DEF Goes, Types
    <3> QED BY <1>0, <2>1, <2>2, <3>1, <3>2, GivesQuery
  <2>3. CASE Goes(r, "lookup", "read") /\ UNCHANGED <<cur, got>>
    <3>1. at'[r] = "read"
      BY <2>3 DEF Goes, Types
    <3>2. SeesVault(r)'
      BY <2>1, <2>3, <3>1, LinksSame DEF QueryIsTrue, SeesVault
    <3>3. HasRead(r) => HasRead(r)'
      BY <2>1, <2>3, <3>1, LinksSame DEF HasRead, InFlight
    <3> QED BY <2>1, <3>1, <3>2, <3>3, ReadWalks DEF QueryIsTrue
  <2> QED BY <1>2, <2>2, <2>3 DEF Lookup
<1>3. CASE ReadText(r)
  <2>1. file' = file /\ job' = job /\ at[r] = "read"
    BY <1>3 DEF ReadText, vault
  <2>2. file[n].text \in Readable
    BY <1>0, <2>1 DEF Types, Version, Present
  <2>3. CASE Goes(r, "read", "insert") /\ cur' = [cur EXCEPT ![r].text = file[n].text] /\ UNCHANGED got
    <3>1. at'[r] = "insert"
      BY <2>3 DEF Goes, Types
    <3>2. cur'[r].note = n /\ cur'[r].mtime = cur[r].mtime /\ cur'[r].text = file[n].text
      <4>1. cur[r] \in Places
        BY DEF Types
      <4> QED BY <2>3, <4>1 DEF Types, Places
    <3>3. SeesVault(r)'
      BY <1>0, <2>1, <2>3, <3>1, <3>2, LinksSame DEF QueryIsTrue, SeesVault
    <3>4. HasRead(r) => HasRead(r)'
      BY <2>1, <2>3, <3>1, <3>2, LinksSame DEF HasRead, InFlight
    <3> QED BY <2>1, <3>1, <3>3, <3>4, ReadWalks DEF QueryIsTrue
  <2>4. CASE Goes(r, "read", "next") /\ Gives(r, cur[r].mtime, file[n].text)
    <3>1. at'[r] = "next"
      BY <2>4 DEF Goes, Types
    <3> QED BY <1>0, <2>1, <2>4, <3>1, GivesQuery
  <2> QED BY <1>3, <2>2, <2>3, <2>4 DEF ReadText
<1>4. CASE Insert(r)
  <2>1. file' = file /\ job' = job /\ at[r] = "insert"
    BY <1>4 DEF Insert, Goes, vault
  <2>2. Goes(r, "insert", "next") /\ Gives(r, cur[r].mtime, file[n].text)
    BY <1>4, <2>1 DEF Insert, QueryIsTrue, SeesVault
  <2>3. at'[r] = "next"
    BY <2>2 DEF Goes, Types
  <2> QED BY <1>0, <2>1, <2>2, <2>3, GivesQuery
<1> QED BY <1>1, <1>2, <1>3, <1>4 DEF CachedRead

\* The next phase of a query that knows what k links reach.
LEMMA ThenQuery ==
  ASSUME Types, Calm, NEW r \in Readers, at[r] = "next", job[r].depth # 0,
         job[r].listed = Present, NEW k \in Nat,
         NEW hops \in Nat, k + hops = job[r].depth - 1,
         NEW frontier, frontier \subseteq Reach(k),
         LinkedFrom(Reach(k) \ frontier) \subseteq Reach(k),
         Then(r, Reach(k), frontier, hops)
  PROVE  QueryIsTrue(r)'
<1> DEFINE result == Reach(k)
           more == hops > 0 /\ frontier # {} /\ Cardinality(result) < MaxResults
           left == [op |-> "graph", depth |-> job[r].depth, result |-> result,
                    phase |-> IF more THEN "expand" ELSE "rows",
                    hops |-> IF more THEN hops ELSE 0,
                    listed |-> IF more THEN job[r].listed ELSE {},
                    todo |-> IF more THEN frontier ELSE result,
                    frontier |-> IF more THEN frontier ELSE {}]
<1>1. /\ job' = [job EXCEPT ![r] = left] /\ got' = [got EXCEPT ![r] = Nothing]
      /\ file' = file /\ at' = at
  BY DEF Then, vault
<1>2. job'[r] = left /\ got'[r] = Nothing /\ at'[r] = "next"
  <2> HIDE DEF left
  <2> QED BY <1>1 DEF Types
<1>3. Present' = Present /\ (\A n : LinkedTo(n)' = LinkedTo(n)) /\ (\A l : Reach(l)' = Reach(l))
  BY <1>1, LinksSame, ReachSame
<1>4. job[r].depth \in Nat /\ job[r].depth - 1 \in Nat
  BY DEF Types, Jobs
<1>5. SeesVault(r)'
  BY <1>2 DEF SeesVault, Nothing
<1>6. CASE more
  <2>1. /\ job'[r].phase = "expand" /\ job'[r].depth = job[r].depth /\ job'[r].hops = hops
        /\ job'[r].listed = job[r].listed /\ job'[r].todo = frontier
        /\ job'[r].frontier = frontier /\ job'[r].result = result
    <3> HIDE DEF more, result
    <3> QED BY <1>2, <1>6
  <2> HIDE DEF left
  <2>2. job[r].depth - 1 - hops = k /\ hops <= job[r].depth - 1
    BY <1>4
  <2>3. LinkedFrom(job[r].result \ job[r].frontier)' = LinkedFrom(result \ frontier)
    BY <1>3, <2>1 DEF LinkedFrom
  <2>4. Expanding(r)'
    <3>1. job'[r].depth - 1 - job'[r].hops = k /\ job'[r].hops # 0 /\ job'[r].hops <= job'[r].depth - 1
      BY <1>6, <2>1, <2>2
    <3>2. job'[r].result = Reach(k)' /\ job'[r].listed = Present'
      BY <1>3, <2>1
    <3>3. LinkedFrom(job[r].result \ job[r].frontier)' \subseteq job'[r].result
      BY <2>1, <2>3
    <3> QED BY <2>1, <3>1, <3>2, <3>3 DEF Expanding
  <2>5. HasRead(r)'
    BY <2>1 DEF HasRead
  <2> QED BY <1>2, <1>5, <2>1, <2>4, <2>5 DEF QueryIsTrue, Walking
<1>7. CASE ~more
  <2>1. job'[r].phase = "rows" /\ job'[r].depth = job[r].depth /\ job'[r].result = result
    <3> HIDE DEF more, result
    <3> QED BY <1>2, <1>7
  <2> HIDE DEF left
  <2>2. k <= job[r].depth - 1
    BY <1>4
  <2>3. result = Reach(job[r].depth - 1)
    <3>1. CASE ~(hops > 0)
      <4>1. k = job[r].depth - 1
        BY <1>4, <3>1
      <4> QED BY <4>1
    <3>2. CASE frontier = {}
      <4>1. LinkedFrom(Reach(k)) \subseteq Reach(k)
        BY <3>2 DEF LinkedFrom
      <4> QED BY <1>4, <2>2, <4>1, ReachClosed
    <3>3. CASE ~(Cardinality(result) < MaxResults)
      <4>1. Reach(k) \subseteq Present /\ Reach(job[r].depth - 1) \subseteq Present
        BY <1>4, ReachPresent
      <4>2. IsFiniteSet(Present)
        <5>1. Present \in SUBSET Notes
          BY DEF Present
        <5> QED BY <5>1, FS_Subset, VaultAssumption DEF VaultAssumption
      <4>3. /\ Cardinality(Reach(k)) <= Cardinality(Present)
            /\ Cardinality(Present) = Cardinality(Reach(k)) => Present = Reach(k)
            /\ IsFiniteSet(Reach(k))
        BY <4>1, <4>2, FS_Subset
      <4>4. Cardinality(Present) \in Nat /\ Cardinality(Reach(k)) \in Nat
        BY <4>2, <4>3, FS_CardinalityType
      <4>5. Cardinality(Present) = Cardinality(Reach(k))
        BY <3>3, <4>3, <4>4, VaultAssumption DEF VaultAssumption, Calm
      <4>6. Reach(k) \subseteq Reach(job[r].depth - 1)
        BY <1>4, <2>2, ReachGrows
      <4> QED BY <4>1, <4>3, <4>5, <4>6
    <3> QED BY <1>7, <3>1, <3>2, <3>3
  <2> QED BY <1>2, <1>3, <1>5, <2>1, <2>3 DEF QueryIsTrue, Walking
<1> QED BY <1>6, <1>7

\* What a quiet query was given of the notes it had to read.
LEMMA ReadAll ==
  ASSUME Types, NEW r \in Readers, QueryIsTrue(r), job[r].todo = {}, at[r] = "next",
         job[r].phase \in {"seeds", "expand"},
         NEW n \in IF job[r].phase = "seeds" THEN Present ELSE job[r].frontier
  PROVE  got[r][n] # None /\ n \in Present /\ got[r][n].text = file[n].text
<1>1. n \in Present /\ n \in Notes
  BY ScopeIsThere DEF QueryIsTrue, Present
<1>2. got[r][n] # None
  BY DEF QueryIsTrue, Walking, HasRead, InFlight
<1> QED BY <1>1, <1>2 DEF QueryIsTrue, SeesVault

LEMMA FindSeedsQuery ==
  ASSUME Types, Calm, NEW r \in Readers, QueryIsTrue(r), FindSeeds(r)
  PROVE  QueryIsTrue(r)'
<1>1. /\ job[r].op = "graph" /\ job[r].phase = "seeds" /\ job[r].todo = {} /\ at[r] = "next"
      /\ Then(r, Hits(r), Hits(r), job[r].hops)
  BY DEF FindSeeds, Phase
<1>2. Hits(r) = Reach(0)
  <2>1. \A n \in Present : got[r][n] # None /\ got[r][n].text = file[n].text
    BY <1>1, ReadAll
  <2>2. \A n \in Notes : got[r][n] # None => n \in Present
    BY DEF QueryIsTrue, SeesVault
  <2>3. Present \subseteq Notes
    BY DEF Present
  <2>4. Hits(r) = {n \in Present : file[n].text \in Wanted}
    BY <2>1, <2>2, <2>3 DEF Hits
  <2> QED BY <2>4, ReachZero
<1>3. job[r].listed = Present /\ job[r].hops = job[r].depth - 1 /\ job[r].depth # 0
  BY <1>1 DEF QueryIsTrue, Walking, Seeding
<1>4. job[r].hops \in Nat /\ 0 + job[r].hops = job[r].depth - 1
  BY <1>3 DEF Types, Jobs
<1>5. LinkedFrom(Reach(0) \ Reach(0)) \subseteq Reach(0)
  BY DEF LinkedFrom
<1>6. Then(r, Reach(0), Reach(0), job[r].hops)
  BY <1>1, <1>2
<1> DEFINE hops == job[r].hops
<1> HIDE DEF hops
<1>7. hops \in Nat /\ 0 + hops = job[r].depth - 1 /\ Then(r, Reach(0), Reach(0), hops)
  BY <1>4, <1>6 DEF hops
<1> QED BY <1>1, <1>3, <1>5, <1>7, ThenQuery

LEMMA ExpandQuery ==
  ASSUME Types, Calm, NEW r \in Readers, QueryIsTrue(r), Expand(r)
  PROVE  QueryIsTrue(r)'
<1> DEFINE found == ((UNION {LinksOf(r, n) : n \in job[r].frontier}) \cap job[r].listed)
                      \ job[r].result
           room == MaxResults - Cardinality(job[r].result)
           k == job[r].depth - 1 - job[r].hops
<1>1. /\ job[r].op = "graph" /\ job[r].phase = "expand" /\ job[r].todo = {} /\ at[r] = "next"
  BY DEF Expand, Phase
<1>2. PICK new \in SUBSET found :
        /\ Cardinality(new) = IF Cardinality(found) > room THEN room ELSE Cardinality(found)
        /\ Then(r, job[r].result \cup new, new, job[r].hops - 1)
  BY DEF Expand
<1>3. Expanding(r) /\ job[r].depth # 0
  BY <1>1 DEF QueryIsTrue, Walking
<1>4. k \in Nat /\ job[r].hops \in Nat /\ job[r].depth \in Nat /\ k + 1 \in Nat
  BY <1>3 DEF Expanding, Types, Jobs
<1>5. job[r].result = Reach(k) /\ job[r].listed = Present /\ job[r].frontier \subseteq Reach(k)
  BY <1>3 DEF Expanding
<1>6. \A n \in job[r].frontier : LinksOf(r, n) \cap Present = LinkedTo(n)
  <2> SUFFICES ASSUME NEW n \in job[r].frontier PROVE LinksOf(r, n) \cap Present = LinkedTo(n)
    OBVIOUS
  <2>1. got[r][n] # None /\ got[r][n].text = file[n].text
    BY <1>1, ReadAll
  <2> QED BY <2>1 DEF LinksOf, LinkedTo
<1>7. found = LinkedFrom(job[r].frontier) \ Reach(k)
  BY <1>5, <1>6 DEF LinkedFrom
<1>8. LinkedFrom(Reach(k) \ job[r].frontier) \subseteq Reach(k)
  BY <1>3, <1>5 DEF Expanding
<1>9. Reach(k) \cup found = Reach(k + 1)
  <2>1. LinkedFrom(Reach(k)) \subseteq LinkedFrom(job[r].frontier) \cup LinkedFrom(Reach(k) \ job[r].frontier)
    BY DEF LinkedFrom
  <2>2. LinkedFrom(job[r].frontier) \subseteq LinkedFrom(Reach(k))
    BY <1>5 DEF LinkedFrom
  <2>3. Reach(k + 1) = Reach(k) \cup LinkedFrom(Reach(k))
    BY <1>4, ReachNext
  <2> QED BY <1>7, <1>8, <2>1, <2>2, <2>3
<1>10. new = found
  <2>1. Reach(k) \subseteq Present /\ found \subseteq Present /\ Present \subseteq Notes
    BY <1>4, <1>5, ReachPresent DEF Present
  <2>2. IsFiniteSet(Present)
    BY <2>1, FS_Subset, VaultAssumption DEF VaultAssumption
  <2> HIDE DEF found, k
  <2>3. IsFiniteSet(Reach(k)) /\ IsFiniteSet(found)
    BY <2>1, <2>2, FS_Subset
  <2>4. Reach(k) \cap found = {}
    BY <1>7
  <2>5. /\ IsFiniteSet(Reach(k) \cup found)
        /\ Cardinality(Reach(k) \cup found)
             = Cardinality(Reach(k)) + Cardinality(found) - Cardinality(Reach(k) \cap found)
    BY <2>3, FS_Union
  <2>6. Cardinality(Reach(k) \cap found) = 0
    BY <2>4, FS_EmptySet
  <2>7. Cardinality(Reach(k) \cup found) <= Cardinality(Present)
    <3>1. Reach(k) \cup found \in SUBSET Present
      BY <2>1
    <3> QED BY <2>2, <3>1, FS_Subset
  <2>8. /\ Cardinality(Present) \in Nat /\ Cardinality(Reach(k)) \in Nat
        /\ Cardinality(found) \in Nat
    BY <2>2, <2>3, FS_CardinalityType
  <2>9. Cardinality(found) <= room
    BY <1>5, <2>5, <2>6, <2>7, <2>8, VaultAssumption DEF VaultAssumption, Calm
  <2>10. Cardinality(new) = Cardinality(found)
    <3>1. room \in Int
      BY <1>5, <2>8, VaultAssumption DEF VaultAssumption
    <3> HIDE DEF room
    <3> QED BY <1>2, <2>8, <2>9, <3>1
  <2> QED BY <1>2, <2>3, <2>10, FS_Subset
<1>11. Then(r, Reach(k + 1), found, job[r].hops - 1)
  BY <1>2, <1>5, <1>9, <1>10
<1>12. LinkedFrom(Reach(k + 1) \ found) \subseteq Reach(k + 1) /\ found \subseteq Reach(k + 1)
  <2>1. Reach(k + 1) \ found = Reach(k)
    BY <1>7, <1>9
  <2>2. Reach(k + 1) = Reach(k) \cup LinkedFrom(Reach(k))
    BY <1>4, ReachNext
  <2> QED BY <1>9, <2>1, <2>2
<1> DEFINE hops == job[r].hops - 1
           l == k + 1
<1>13. hops \in Nat /\ l \in Nat /\ l + hops = job[r].depth - 1
  BY <1>3, <1>4 DEF Expanding
<1>14. Then(r, Reach(l), found, hops) /\ found \subseteq Reach(l) /\ LinkedFrom(Reach(l) \ found) \subseteq Reach(l)
  BY <1>11, <1>12
<1> HIDE DEF hops, l, found
<1> QED BY <1>1, <1>3, <1>5, <1>13, <1>14, ThenQuery

LEMMA FinishQuery ==
  ASSUME Types, Calm, NEW r \in Readers, QueryIsTrue(r), FinishGraph(r)
  PROVE  QueryIsTrue(r)'
<1>1. /\ job[r].phase = "rows" /\ at[r] = "next" /\ file' = file /\ UNCHANGED cur
      /\ Goes(r, "next", "done") /\ got' = [got EXCEPT ![r] = Nothing]
  BY DEF FinishGraph, Phase, vault
<1>2. PICK rows \in SUBSET job[r].result :
        /\ rows = job[r].result \/ Cardinality(rows) = MaxResults
        /\ job' = [job EXCEPT ![r].result = rows]
  BY DEF FinishGraph
<1>3. job[r].result = Reach(job[r].depth - 1) /\ job[r].depth # 0 /\ job[r] \in Jobs
  BY <1>1 DEF QueryIsTrue, Walking, Types
<1>4. job[r].depth - 1 \in Nat
  BY <1>3 DEF Jobs
<1>5. rows = job[r].result
  <2>1. job[r].result \subseteq Present /\ Present \subseteq Notes
    BY <1>3, <1>4, ReachPresent DEF Present
  <2>2. IsFiniteSet(Present)
    BY <2>1, FS_Subset, VaultAssumption DEF VaultAssumption
  <2>3. IsFiniteSet(job[r].result) /\ Cardinality(job[r].result) <= Cardinality(Present)
    BY <2>1, <2>2, FS_Subset
  <2>4. /\ Cardinality(rows) <= Cardinality(job[r].result)
        /\ Cardinality(job[r].result) = Cardinality(rows) => job[r].result = rows
        /\ IsFiniteSet(rows)
    BY <2>3, FS_Subset
  <2>5. /\ Cardinality(Present) \in Nat /\ Cardinality(job[r].result) \in Nat
        /\ Cardinality(rows) \in Nat
    BY <2>2, <2>3, <2>4, FS_CardinalityType
  <2> QED BY <1>2, <2>3, <2>4, <2>5, VaultAssumption DEF VaultAssumption, Calm
<1>6. /\ job'[r].phase = "rows" /\ job'[r].depth = job[r].depth
      /\ job'[r].result = Reach(job[r].depth - 1) /\ at'[r] = "done" /\ got'[r] = Nothing
  BY <1>1, <1>2, <1>3, <1>5 DEF Types, Jobs, Goes
<1>7. SeesVault(r)'
  BY <1>6 DEF SeesVault, Nothing
<1> QED BY <1>1, <1>3, <1>6, <1>7, ReachSame DEF QueryIsTrue, Walking

LEMMA QueryGraphQuery ==
  ASSUME Types, Querying, NEW r \in Readers, NEW depth \in 1..MaxDepth, QueryGraph(r, depth)
  PROVE  QueryIsTrue(r)'
<1> DEFINE call == [NoJob EXCEPT !.op = "graph", !.phase = "seeds", !.depth = depth,
                                 !.hops = depth - 1, !.listed = Present, !.todo = Present]
<1>1. Starts(r, call)
  BY DEF QueryGraph
<1>2. /\ call.phase = "seeds" /\ call.depth = depth /\ call.hops = depth - 1
      /\ call.listed = Present /\ call.todo = Present
  BY DEF NoJob
<1>3. depth # 0
  BY VaultAssumption DEF VaultAssumption
<1> HIDE DEF call
<1>4. /\ job'[r] = call /\ at[r] = "idle" /\ at'[r] = "next" /\ got' = got /\ cur' = cur
      /\ file' = file
  BY <1>1 DEF Starts, Goes, Types
<1>5. SeesVault(r)'
  BY <1>4 DEF SeesVault, Querying, IdleHasNothing
<1>6. Seeding(r)'
  BY <1>2, <1>4, LinksSame DEF Seeding
<1>7. HasRead(r)'
  BY <1>2, <1>4, LinksSame DEF HasRead
<1> QED BY <1>2, <1>3, <1>4, <1>5, <1>6, <1>7 DEF QueryIsTrue, Walking

LEMMA CachedReadQuerying ==
  ASSUME Types, Truth, Rest, Querying, NEW r \in Readers, CachedRead(r)
  PROVE  Querying'
<1>1. UNCHANGED <<file, past, quiet>>
  BY DEF CachedRead, Stat, Lookup, ReadText, Insert, vault
<1>2. \A q \in Readers : q # r => /\ at'[q] = at[q] /\ cur'[q] = cur[q]
                                  /\ got'[q] = got[q] /\ job'[q] = job[q]
  BY DEF CachedRead, Stat, Lookup, ReadText, Insert, Goes, Gives, GivesNothing, Types
<1>3. at'[r] \in {"next", "lookup", "read", "insert"}
  BY DEF CachedRead, Stat, Lookup, ReadText, Insert, Goes, Types
<1>4. job'[r].op = job[r].op
  <2>1. CASE Stat(r)
    <3>1. PICK n : job' = [job EXCEPT ![r].todo = @ \ {n}]
      BY <2>1 DEF Stat
    <3>2. job[r] \in Jobs
      BY DEF Types
    <3> QED BY <3>1, <3>2 DEF Types, Jobs
  <2>2. CASE job' = job
    BY <2>2
  <2> QED BY <2>1, <2>2 DEF CachedRead, Lookup, ReadText, Insert
<1>5. r \in quiet => job'[r].op = "graph"
  BY <1>4 DEF Querying, QuietIsGraph
<1>6. Calm /\ r \in quiet => QueryIsTrue(r)'
  BY CachedReadQuery DEF Querying, Calm
<1> QED BY <1>1, <1>2, <1>3, <1>5, <1>6, OneReader DEF Rest

LEMMA ToolQuerying ==
  ASSUME Types, Truth, Rest, Querying, NEW r \in Readers, Tool(r)
  PROVE  Querying'
<1>1. UNCHANGED <<file, past>>
  BY DEF Tool, ReadFile, Search, QueryGraph, FindSeeds, Expand, FinishGraph, Return, Then, Starts, vault
<1>2. \A q \in Readers : q # r => /\ at'[q] = at[q] /\ cur'[q] = cur[q]
                                  /\ got'[q] = got[q] /\ job'[q] = job[q]
  BY DEF Tool, ReadFile, Search, QueryGraph, FindSeeds, Expand, FinishGraph, Return, Then, Starts,
         Goes, Types
<1>3. ASSUME NEW call, Starts(r, call), call.op # "graph" PROVE Querying'
  <2>1. quiet' = quiet /\ at[r] = "idle" /\ at'[r] = "next"
    BY <1>3 DEF Starts, Goes, Types
  <2>2. r \notin quiet'
    BY <2>1 DEF Querying, QuietIsGraph
  <2> QED BY <1>1, <1>2, <2>1, <2>2, OneReader DEF Rest
<1>4. ASSUME NEW n \in Notes, ReadFile(r, n) PROVE Querying'
  BY <1>3, <1>4 DEF ReadFile, NoJob
<1>5. ASSUME NEW op \in {"search", "attribute"}, Search(r, op) PROVE Querying'
  <2>1. PICK more : Starts(r, [NoJob EXCEPT !.op = op, !.todo = Present \cup more])
    BY <1>5 DEF Search
  <2>2. [NoJob EXCEPT !.op = op, !.todo = Present \cup more].op # "graph"
    BY DEF NoJob
  <2> QED BY <1>3, <2>1, <2>2
<1>6. ASSUME NEW depth \in 1..MaxDepth, QueryGraph(r, depth) PROVE Querying'
  <2>1. job'[r].op = "graph" /\ at'[r] = "next" /\ quiet' = quiet \cup {r}
    <3> DEFINE call == [NoJob EXCEPT !.op = "graph", !.phase = "seeds", !.depth = depth,
                                     !.hops = depth - 1, !.listed = Present, !.todo = Present]
    <3>1. Starts(r, call) /\ call.op = "graph"
      BY <1>6 DEF QueryGraph, NoJob
    <3> HIDE DEF call
    <3> QED BY <3>1 DEF Starts, Goes, Types
  <2>2. QueryIsTrue(r)'
    BY <1>6, QueryGraphQuery
  <2> QED BY <1>1, <1>2, <2>1, <2>2, OneReader DEF Rest
<1>7. CASE FindSeeds(r) \/ Expand(r)
  <2>1. PICK result, frontier, hops : Then(r, result, frontier, hops)
    BY <1>7 DEF FindSeeds, Expand
  <2>2. at' = at /\ quiet' = quiet /\ at[r] = "next"
    BY <1>7, <2>1 DEF FindSeeds, Expand, Phase, Then, vault
  <2>3. job'[r].op = "graph"
    BY <2>1 DEF Then, Types
  <2>4. Calm /\ r \in quiet => QueryIsTrue(r)'
    BY <1>7, FindSeedsQuery, ExpandQuery DEF Querying
  <2> QED BY <1>1, <1>2, <2>2, <2>3, <2>4, OneReader DEF Rest
<1>8. CASE FinishGraph(r)
  <2>1. quiet' = quiet /\ at'[r] = "done" /\ job[r].op = "graph"
    BY <1>8 DEF FinishGraph, Phase, Goes, Types, vault
  <2>2. job'[r].op = "graph"
    <3>1. PICK rows : job' = [job EXCEPT ![r].result = rows]
      BY <1>8 DEF FinishGraph
    <3>2. job[r] \in Jobs
      BY DEF Types
    <3> QED BY <2>1, <3>1, <3>2 DEF Types, Jobs
  <2>3. Calm /\ r \in quiet => QueryIsTrue(r)'
    BY <1>8, FinishQuery DEF Querying
  <2> QED BY <1>1, <1>2, <2>1, <2>2, <2>3, OneReader DEF Rest
<1>9. CASE Return(r)
  <2>1. quiet' = quiet \ {r} /\ got'[r] = Nothing
    BY <1>9 DEF Return, Types
  <2>2. \A n \in Notes : got'[r][n] = None
    BY <2>1 DEF Nothing
  <2> QED BY <1>1, <1>2, <2>1, <2>2, OneReader DEF Rest
<1> QED BY <1>4, <1>5, <1>6, <1>7, <1>8, <1>9 DEF Tool

LEMMA QueryingStep ==
  ASSUME Types, Truth, Rest, Querying, [Next]_vars
  PROVE  Querying'
<1> USE VaultAssumption DEF VaultAssumption
<1>1. ASSUME NEW n \in Notes, Edit(n) PROVE Querying'
  <2>1. PICK t \in Texts : Writes(n, t)
    BY <1>1 DEF Edit
  <2> QED BY <1>1, <2>1, WritesQuerying DEF Edit, Readable
<1>2. ASSUME NEW n \in Notes, Delete(n) PROVE Querying'
  <2>1. file' = [file EXCEPT ![n].text = Absent] /\ past' = past /\ quiet' = {} /\ UNCHANGED <<at, got>>
    BY <1>2 DEF Delete
  <2>2. \A m \in Notes : file'[m].mtime = file[m].mtime
    BY <2>1 DEF Types, Version
  <2>3. FilesAreLast'
    BY <2>1, <2>2 DEF Querying, FilesAreLast
  <2> QED BY <2>1, <2>3, NoneIsQuiet DEF Querying, IdleHasNothing
<1>3. ASSUME NEW r \in Readers, CachedRead(r) \/ Tool(r) PROVE Querying'
  BY <1>3, CachedReadQuerying, ToolQuerying
<1>4. CASE UNCHANGED <<vault, at, cur, got, job>>
  <2>1. UNCHANGED <<file, past, quiet, at, cur, got, job>>
    BY <1>4 DEF vault
  <2>2. \A r \in quiet : QueryIsTrue(r) => QueryIsTrue(r)'
    BY <2>1, QueryRests
  <2> QED BY <2>1, <2>2, CalmSame DEF Querying, FilesAreLast, QuietIsGraph, IdleHasNothing
<1>5. ASSUME NEW d \in Drafts, PromoteOpens(d) PROVE Querying'
  <2>1. staging[d] \in Drafted /\ Writes(Dest[staging[d]], Blank) /\ UNCHANGED <<at, got>>
    BY <1>5 DEF PromoteOpens
  <2>2. Dest[staging[d]] \in Notes /\ Blank \in Readable
    BY <2>1 DEF Readable
  <2> QED BY <2>1, <2>2, WritesQuerying
<1>6. CASE PromoteFills
  <2>1. UNCHANGED <<at, cur, got, job>>
    BY <1>6 DEF PromoteFills
  <2>2. CASE Writes(Dest[loop.text], loop.text)
    <3>1. loop.text \in Drafted
      BY <1>6 DEF PromoteFills, Handling, Handler
    <3>2. Dest[loop.text] \in Notes /\ loop.text \in Readable
      BY <3>1 DEF Readable
    <3> QED BY <2>1, <2>2, <3>2, WritesQuerying
  <2>3. CASE UNCHANGED vault
    BY <1>4, <2>1, <2>3
  <2> QED BY <1>6, <2>2, <2>3 DEF PromoteFills
<1>7. CASE Crash
  <2>1. UNCHANGED <<file, past>> /\ quiet' = {} /\ got' = [r \in Readers |-> Nothing]
    BY <1>7 DEF Crash
  <2>2. IdleHasNothing'
    BY <2>1 DEF IdleHasNothing, Nothing
  <2>3. FilesAreLast'
    BY <2>1 DEF Querying, FilesAreLast
  <2> QED BY <2>1, <2>2, <2>3, NoneIsQuiet
<1>8. ASSUME NEW d \in Drafts, (\E t \in Drafted : Create(d, t)) \/ Reject(d) PROVE Querying'
  BY <1>4, <1>8 DEF Create, Reject
<1>9. CASE PromoteUnlinks \/ UNCHANGED vars
  BY <1>4, <1>9 DEF PromoteUnlinks, vars
<1> QED BY <1>1, <1>2, <1>3, <1>5, <1>6, <1>7, <1>8, <1>9 DEF Next, Environment, Staging

-----------------------------------------------------------------------------
(* Drafts *)

LEMMA InitDrafting == Init => Drafting
  BY VaultAssumption DEF VaultAssumption, Init, Drafting, HandlerHolds, Handler, DraftIsKept

\* What happens outside staging only adds to what notes have said, and takes the loop
\* from no handler but by a crash.
LEMMA ElsewhereDrafting ==
  ASSUME Types, Drafting, UNCHANGED inbox, \A n \in Notes : past[n] \subseteq past'[n],
         loop' \in {loop, Free} \cup Readers
  PROVE  Drafting'
<1>1. \A t \in Drafted : Written(t) => Written(t)'
  BY VaultAssumption DEF VaultAssumption, Written
<1>2. \A d \in Drafts, t \in Drafted :
        /\ loop' = Handler("promoting", d, t) => loop' = loop
        /\ loop' = Handler("unlinking", d, t) => loop' = loop
  BY VaultAssumption DEF VaultAssumption, Handler
<1>3. HandlerHolds'
  BY <1>1, <1>2 DEF Drafting, HandlerHolds, inbox
<1>4. DraftIsKept'
  <2> SUFFICES ASSUME NEW p \in owed
               PROVE  staging[p[1]] = p[2] \/ (\E v \in past[Dest[p[2]]] : v.text = p[2])'
    BY DEF DraftIsKept, inbox
  <2>1. p[2] \in Drafted
    BY DEF Types
  <2> QED BY <1>1, <2>1 DEF Drafting, DraftIsKept, Written
<1> QED BY <1>3, <1>4 DEF Drafting

\* A handler that lets the loop go, with the inbox in order.
LEMMA FreedDrafting ==
  ASSUME DraftIsKept', loop' = Free
  PROVE  Drafting'
  BY VaultAssumption DEF VaultAssumption, Drafting, HandlerHolds, Handler

LEMMA WritesPast ==
  ASSUME Types, NEW n \in Notes, NEW t, Writes(n, t)
  PROVE  /\ \A m \in Notes : past[m] \subseteq past'[m]
         /\ \E v \in past'[n] : v.text = t
<1>1. past' = [past EXCEPT ![n] = @ \cup {[mtime |-> clock', text |-> t]}]
  BY DEF Writes
<1>2. [mtime |-> clock', text |-> t] \in past'[n]
  BY <1>1 DEF Types
<1> QED BY <1>1, <1>2 DEF Types

LEMMA CreateDrafting ==
  ASSUME Types, Drafting, NEW d \in Drafts, NEW t \in Drafted, Create(d, t)
  PROVE  Drafting'
<1>1. loop' = Free /\ past' = past
  BY DEF Create, vault
<1>2. ASSUME NEW p \in owed', p[1] # d
      PROVE  staging'[p[1]] = p[2] \/ \E v \in past'[Dest[p[2]]] : v.text = p[2]
  <2>1. p \in owed
    BY <1>2 DEF Create, Forget
  <2>2. staging'[p[1]] = staging[p[1]]
    BY <1>2, <2>1 DEF Create, Types
  <2> QED BY <1>1, <2>1, <2>2 DEF Drafting, DraftIsKept
<1>3. ASSUME NEW p \in owed', p[1] = d
      PROVE  staging'[p[1]] = p[2]
  <2>1. p = <<d, t>> /\ staging' = [staging EXCEPT ![d] = t]
    BY <1>3 DEF Create, Forget
  <2> QED BY <1>3, <2>1 DEF Types
<1>4. DraftIsKept'
  BY <1>2, <1>3 DEF DraftIsKept
<1> QED BY <1>1, <1>4, FreedDrafting

LEMMA PromoteDrafting ==
  ASSUME Types, Drafting, (\E d \in Drafts : PromoteOpens(d)) \/ PromoteFills \/ PromoteUnlinks
  PROVE  Drafting'
<1> USE VaultAssumption DEF VaultAssumption
<1>1. ASSUME \A m \in Notes : past[m] \subseteq past'[m], UNCHANGED inbox
      PROVE  DraftIsKept'
  <2> SUFFICES ASSUME NEW p \in owed
               PROVE  staging[p[1]] = p[2] \/ \E v \in past'[Dest[p[2]]] : v.text = p[2]
    BY <1>1 DEF DraftIsKept, inbox
  <2>1. Dest[p[2]] \in Notes
    BY DEF Types
  <2> QED BY <1>1, <2>1 DEF Drafting, DraftIsKept
<1>2. ASSUME NEW d \in Drafts, PromoteOpens(d) PROVE Drafting'
  <2>1. staging[d] \in Drafted /\ Writes(Dest[staging[d]], Blank) /\ UNCHANGED inbox
    BY <1>2 DEF PromoteOpens
  <2>2. loop' = Handler("promoting", d, staging[d])
    BY <1>2 DEF PromoteOpens
  <2>3. DraftIsKept'
    BY <1>1, <2>1, WritesPast
  <2>4. HandlerHolds'
    BY <2>1, <2>2 DEF HandlerHolds, Handler, inbox
  <2> QED BY <2>3, <2>4 DEF Drafting
<1>3. CASE PromoteFills
  <2>1. PICK d \in Drafts, t \in Drafted : loop = Handler("promoting", d, t)
    BY <1>3 DEF PromoteFills, Handling
  <2>2. loop.text = t /\ UNCHANGED inbox
    BY <1>3, <2>1 DEF PromoteFills, Handler
  <2>3. staging[d] = t
    BY <2>1 DEF Drafting, HandlerHolds
  <2>4. CASE Writes(Dest[t], t) /\ loop' = [loop EXCEPT !.at = "unlinking"]
    <3>1. loop' = Handler("unlinking", d, t)
      BY <2>1, <2>4 DEF Handler
    <3>2. Dest[t] \in Notes
      OBVIOUS
    <3>3. Written(t)'
      BY <2>4, <3>2, WritesPast DEF Written
    <3>4. HandlerHolds'
      BY <2>2, <2>3, <3>1, <3>3 DEF HandlerHolds, Handler, inbox
    <3>5. DraftIsKept'
      BY <1>1, <2>2, <2>4, <3>2, WritesPast
    <3> QED BY <3>4, <3>5 DEF Drafting
  <2>5. CASE loop' = Free /\ UNCHANGED vault
    BY <1>1, <2>2, <2>5, FreedDrafting DEF vault
  <2> QED BY <1>3, <2>2, <2>4, <2>5 DEF PromoteFills
<1>4. CASE PromoteUnlinks
  <2>1. PICK d \in Drafts, t \in Drafted : loop = Handler("unlinking", d, t)
    BY <1>4 DEF PromoteUnlinks, Handling
  <2>2. /\ loop' = Free /\ UNCHANGED <<past, owed>>
        /\ staging' = [staging EXCEPT ![d] = Absent]
    BY <1>4, <2>1 DEF PromoteUnlinks, Handler, vault
  <2>3. staging[d] = t /\ Written(t)
    BY <2>1 DEF Drafting, HandlerHolds
  <2>4. DraftIsKept'
    <3> SUFFICES ASSUME NEW p \in owed
                 PROVE  staging'[p[1]] = p[2] \/ \E v \in past[Dest[p[2]]] : v.text = p[2]
      BY <2>2 DEF DraftIsKept
    <3>1. CASE p[1] = d
      BY <2>3, <3>1 DEF Drafting, DraftIsKept, Written
    <3>2. CASE p[1] # d
      BY <2>2, <3>2 DEF Types, Drafting, DraftIsKept
    <3> QED BY <3>1, <3>2
  <2> QED BY <2>2, <2>4, FreedDrafting
<1> QED BY <1>2, <1>3, <1>4

LEMMA RejectDrafting ==
  ASSUME Types, Drafting, NEW d \in Drafts, Reject(d)
  PROVE  Drafting'
<1>1. loop' = Free /\ past' = past /\ owed' = Forget(d) /\ staging' = [staging EXCEPT ![d] = Absent]
  BY DEF Reject, vault
<1>2. ASSUME NEW p \in owed'
      PROVE  p \in owed /\ staging'[p[1]] = staging[p[1]]
  BY <1>1, <1>2 DEF Forget, Types
<1>3. DraftIsKept'
  BY <1>1, <1>2 DEF Drafting, DraftIsKept
<1> QED BY <1>1, <1>3, FreedDrafting

LEMMA DraftingStep ==
  ASSUME Types, Drafting, [Next]_vars
  PROVE  Drafting'
<1> USE VaultAssumption DEF VaultAssumption
<1>1. ASSUME NEW n \in Notes, Edit(n) PROVE Drafting'
  <2>1. PICK t \in Texts : Writes(n, t)
    BY <1>1 DEF Edit
  <2> QED BY <1>1, <2>1, WritesPast, ElsewhereDrafting DEF Edit
<1>2. ASSUME NEW n \in Notes, Delete(n) PROVE Drafting'
  BY <1>2, ElsewhereDrafting DEF Delete
<1>3. ASSUME NEW r \in Readers, CachedRead(r) PROVE Drafting'
  BY <1>3, ElsewhereDrafting DEF CachedRead, Stat, Lookup, ReadText, Insert, vault
<1>4. ASSUME NEW r \in Readers, Tool(r) PROVE Drafting'
  <2>1. past' = past /\ loop' \in {loop, Free, r} /\ UNCHANGED inbox
    BY <1>4 DEF Tool, ReadFile, Search, QueryGraph, FindSeeds, Expand, FinishGraph, Return,
                Then, Starts, vault
  <2> QED BY <2>1, ElsewhereDrafting
<1>5. ASSUME NEW d \in Drafts, (\E t \in Drafted : Create(d, t)) \/ Reject(d) PROVE Drafting'
  BY <1>5, CreateDrafting, RejectDrafting
<1>6. CASE (\E d \in Drafts : PromoteOpens(d)) \/ PromoteFills \/ PromoteUnlinks
  BY <1>6, PromoteDrafting
<1>7. CASE Crash \/ UNCHANGED vars
  BY <1>7, ElsewhereDrafting DEF Crash, vars, vault
<1> QED BY <1>1, <1>2, <1>3, <1>4, <1>5, <1>6, <1>7 DEF Next, Environment, Staging

-----------------------------------------------------------------------------
(* Theorems *)

\* The inductive invariant: the truth of the cache rests on what a reader holds between
\* two of its steps, the fate of a draft on what the handler that holds the loop has
\* done so far.
IInv == Types /\ Truth /\ Ordered /\ Rest /\ Querying /\ Drafting

\* The invariant holds whatever threads, handlers, editors and crashes do, for any
\* number of them and any size of the cache.
THEOREM Invariance == Spec => []IInv
<1>1. Init => IInv
  BY InitTypes, InitTruth, InitOrdered, InitRest, InitQuerying, InitDrafting DEF IInv
<1>2. IInv /\ [Next]_vars => IInv'
  BY TypesStep, TruthStep, OrderedStep, RestStep, QueryingStep, DraftingStep DEF IInv
<1> QED BY <1>1, <1>2, PTL DEF Spec

\* Every variable keeps its type; what the cache drops leaves its order too, a key is
\* there once, and the cache is never larger than its bound.
THEOREM TypeCorrect == Spec => []TypeOK
<1>1. IInv => TypeOK
  BY DEF IInv, Types, Ordered, Rest, TypeOK, Jobs, Places
<1> QED BY <1>1, Invariance, PTL

\* _read_file_cached never gives an older text for a newer mtime: the stat before the
\* read, and not after it, is what makes an entry safe to keep.
THEOREM NeverStale == Spec => []NoStaleRead
<1>1. IInv => NoStaleRead
  BY DEF IInv, Truth, GotIsTrue, Said, NoStaleRead
<1> QED BY <1>1, Invariance, PTL

\* query_graph returns what its links reach whenever nothing was written meanwhile: the
\* breadth-first search is exact, whatever cache, other readers and earlier writers did,
\* and stops early only when there is nothing more to find.
THEOREM QueriesAreReach == Spec => []GraphIsReach
<1>1. ASSUME IInv PROVE GraphIsReach
  <2> SUFFICES ASSUME NEW r \in quiet, at[r] = "done", Calm
               PROVE  job[r].result = Reach(job[r].depth - 1)
    BY DEF GraphIsReach, Reach, Calm
  <2>1. QueryIsTrue(r)
    BY <1>1 DEF IInv, Querying
  <2> QED BY <2>1 DEF QueryIsTrue, Walking
<1> QED BY <1>1, Invariance, PTL

\* promote_node unlinks a draft only after its text is in the vault, and no other
\* handler takes the draft meanwhile.
THEOREM DraftsAreKept == Spec => []DraftIsKept
<1>1. IInv => DraftIsKept
  BY DEF IInv, Drafting
<1> QED BY <1>1, Invariance, PTL
=============================================================================
