-------------------------- MODULE ChatSessionProofs --------------------------
(***************************************************************************)
(* Theorems about ChatSession, for any number of turns, sessions, commands *)
(* and chunks:                                                             *)
(*  - the abort slot holds the token of a turn that still runs, and a turn *)
(*    that has announced its end emits nothing more; the actions of the    *)
(*    user and of the archive leave the state both are about alone, so     *)
(*    that the argument is about the life of a turn and the two listeners; *)
(*  - the types of the webview, the turns, the commands and the files;     *)
(*  - of a user who waits, the session shown and its file agree on every   *)
(*    reply: such a user has one turn or one command under way, and every  *)
(*    step of it is followed from the event to the row and the file.       *)
(***************************************************************************)
EXTENDS ChatSession, FiniteSetTheorems, WellFoundedInduction, TLAPS

USE ChatAssumption

Stages == {"unsent", "asked", "streaming", "closing", "ended"}
Ends == {"none", "refused", "whole", "cut", "failed", "toldError", "toldGone", "aborted"}

\* What the two theorems are about.
core == <<wire, stage, end, finished, slot, cancelled>>

CoreTypeOK ==
    /\ wire \in Seq(Events)
    /\ stage \in [Turns -> Stages] /\ end \in [Turns -> Ends]
    /\ finished \in [Turns -> Nat]
    /\ slot \in Turns \cup {None} /\ cancelled \subseteq Turns

\* A token is cancelled only once it has been in the slot.
CancelledHasRun == \A n \in cancelled : stage[n] \notin {"unsent", "asked"}

\* A turn that has announced its end is over, or its server has told the end,
\* so that closing it announces nothing.
AnnouncedIsOver ==
    \A n \in Turns : finished[n] # 0 =>
        stage[n] = "ended" \/ (stage[n] = "closing" /\ IsTold(end[n]))

IInv == CoreTypeOK /\ SlotIsLive /\ CancelledHasRun /\ AnnouncedIsOver

\* What CompletionIsFinal says of one step.
StepIsFinal ==
    \A n \in Turns : finished[n] # 0 =>
        finished'[n] = finished[n] /\ CountOf(wire', n) <= CountOf(wire, n)

-----------------------------------------------------------------------------
(* Events of a turn on the wire *)

LEMMA TurnFacts == Turns \subseteq Nat \ {0} /\ None = 0 /\ None \notin Turns
BY DEF Turns, None

LEMMA WithoutNews ==
    ASSUME NEW w \in Seq(Events), NEW v \in Seq(Events), NEW n \in Turns,
           \A i \in DOMAIN v : v[i].turn # n
    PROVE  CountOf(w \o v, n) = CountOf(w, n)
<1>1. ASSUME NEW i \in DOMAIN (w \o v), (w \o v)[i].turn = n PROVE i \in DOMAIN w
  <2>1. CASE i <= Len(w) BY <1>1, <2>1
  <2>2. CASE i > Len(w)
    <3>1. i - Len(w) \in DOMAIN v /\ (w \o v)[i] = v[i - Len(w)] BY <1>1, <2>2
    <3>2. QED BY <3>1, <1>1
  <2>3. QED BY <1>1, <2>1, <2>2
<1>2. ASSUME NEW i \in DOMAIN w PROVE i \in DOMAIN (w \o v) /\ (w \o v)[i] = w[i]
  BY <1>2
<1>3. {i \in DOMAIN (w \o v) : (w \o v)[i].turn = n} = {i \in DOMAIN w : w[i].turn = n}
  BY <1>1, <1>2
<1>4. QED BY <1>3 DEF CountOf

LEMMA TakenAway ==
    ASSUME NEW w \in Seq(Events), w # <<>>, NEW n \in Turns
    PROVE  CountOf(Tail(w), n) <= CountOf(w, n)
<1> DEFINE S == {i \in DOMAIN Tail(w) : Tail(w)[i].turn = n}
           T == {i \in DOMAIN w : w[i].turn = n}
           next == [i \in S |-> i + 1]
<1>1. IsFiniteSet(T)
  <2>1. IsFiniteSet(1 .. Len(w)) BY FS_Interval
  <2>2. T \in SUBSET (1 .. Len(w)) BY DEF T
  <2>3. QED BY <2>1, <2>2, FS_Subset
<1>2. \A i \in S : i \in Nat /\ i + 1 \in T
  BY DEF S, T
<1>3. next \in Injection(S, T)
  BY <1>2 DEF Injection, IsInjective
<1>4. QED BY <1>1, <1>3, FS_Injection DEF CountOf

-----------------------------------------------------------------------------
(* The steps that touch neither a turn nor the wire *)

LEMMA UnrelatedSteps ==
    \/ NewSignal \/ Edit \/ Retry \/ Erase \/ CmdFile
    \/ LoadReturns \/ DeleteReturns \/ EraseReturns
    \/ \E s \in Sessions : Load(s) \/ Delete(s)
    \/ \E n \in Turns : AppendRead(n) \/ AppendWrite(n)
    => UNCHANGED core
BY DEF core, NewSignal, Edit, Retry, Erase, CmdFile, LoadReturns, DeleteReturns,
       EraseReturns, Load, Delete, AppendRead, AppendWrite, turn, abort, archive

-----------------------------------------------------------------------------
(* What a step does to the wire *)

LEMMA CountIsNat ==
    ASSUME NEW w \in Seq(Events), NEW n \in Turns
    PROVE  CountOf(w, n) \in Nat
<1>1. IsFiniteSet(1 .. Len(w)) BY FS_Interval
<1>2. {i \in DOMAIN w : w[i].turn = n} \in SUBSET (1 .. Len(w)) OBVIOUS
<1>3. QED BY <1>1, <1>2, FS_Subset, FS_CardinalityType DEF CountOf

LEMMA SilentIsFinal ==
    ASSUME IInv, UNCHANGED <<wire, finished>>
    PROVE  StepIsFinal
<1>1. ASSUME NEW n \in Turns PROVE CountOf(wire, n) <= CountOf(wire, n)
  BY CountIsNat DEF IInv, CoreTypeOK
<1>2. QED BY <1>1 DEF StepIsFinal

LEMMA DeliveryIsFinal ==
    ASSUME IInv, wire # <<>>, wire' = Tail(wire), UNCHANGED finished
    PROVE  StepIsFinal
BY TakenAway DEF StepIsFinal, IInv, CoreTypeOK

\* A turn emits events v of its own and counts k more ends.
LEMMA EmissionIsFinal ==
    ASSUME IInv, NEW n \in Turns, NEW k \in Nat, NEW v \in Seq(Events),
           \A i \in DOMAIN v : v[i].turn = n,
           wire' = wire \o v, finished' = [finished EXCEPT ![n] = @ + k],
           finished[n] # 0 => v = <<>> /\ k = 0
    PROVE  StepIsFinal
<1> SUFFICES ASSUME NEW m \in Turns, finished[m] # 0
             PROVE  finished'[m] = finished[m] /\ CountOf(wire', m) <= CountOf(wire, m)
  BY DEF StepIsFinal
<1>1. finished'[m] = finished[m]
  BY DEF IInv, CoreTypeOK
<1>2. \A i \in DOMAIN v : v[i].turn # m
  BY TurnFacts
<1>3. CountOf(wire', m) = CountOf(wire, m) /\ CountOf(wire, m) \in Nat
  BY <1>2, WithoutNews, CountIsNat DEF IInv, CoreTypeOK
<1>4. QED BY <1>1, <1>3

-----------------------------------------------------------------------------
(* The life of a turn *)

LEMMA EventTypes ==
    ASSUME NEW n \in Turns, NEW what \in {"chunk", "done", "aborted", "error"}
    PROVE  Event(what, n) \in Events /\ Event(what, n).turn = n
BY DEF Event, Events

LEMMA DoneTypes ==
    ASSUME NEW how \in Ends
    PROVE  DoneOf(how) \in {"done", "aborted", "error"}
<1>1. CASE IsReply(how) BY <1>1, Zenon DEF DoneOf
<1>2. CASE ~IsReply(how) /\ how \in {"aborted", "toldGone"} BY <1>2, Zenon DEF DoneOf
<1>3. CASE ~IsReply(how) /\ how \notin {"aborted", "toldGone"} BY <1>3, Zenon DEF DoneOf
<1>4. QED BY <1>1, <1>2, <1>3

LEMMA EndingTypes ==
    ASSUME NEW n \in Turns, NEW how \in Endings(n)
    PROVE  how \in Ends
BY DEF Endings, Ends

LEMMA AnnounceTypes ==
    ASSUME IInv, NEW n \in Turns
    PROVE  /\ Announce(n) \in Seq(Events)
           /\ \A i \in DOMAIN Announce(n) : Announce(n)[i].turn = n
           /\ IsTold(end[n]) => Announce(n) = <<>>
<1> DEFINE last == Event(DoneOf(end[n]), n)
           text == <<Event("chunk", n), Event("error", n)>>
<1>1. Announce(n) \in {<<>>, text, <<last>>} /\ (IsTold(end[n]) => Announce(n) = <<>>)
  <2>1. CASE IsTold(end[n])
    <3>1. end[n] # "failed" BY <2>1 DEF IsTold
    <3>2. Announce(n) = <<>> BY <2>1, <3>1, Zenon DEF Announce
    <3>3. QED BY <3>2
  <2>2. CASE ~IsTold(end[n]) /\ end[n] = "failed" BY <2>2, Zenon DEF Announce
  <2>3. CASE ~IsTold(end[n]) /\ end[n] # "failed" BY <2>3, Zenon DEF Announce
  <2>4. QED BY <2>1, <2>2, <2>3
<1>2. DoneOf(end[n]) \in {"done", "aborted", "error"}
  BY DoneTypes DEF IInv, CoreTypeOK
<1>3. <<last>> \in Seq(Events) /\ \A i \in DOMAIN <<last>> : <<last>>[i].turn = n
  BY <1>2, EventTypes
<1>4. text \in Seq(Events) /\ \A i \in DOMAIN text : text[i].turn = n
  BY EventTypes
<1>5. <<>> \in Seq(Events) /\ DOMAIN <<>> = {} OBVIOUS
<1> HIDE DEF last, text
<1>6. QED BY <1>1, <1>3, <1>4, <1>5

LEMMA AskedIsSafe ==
    ASSUME IInv, NEW n \in Turns, stage[n] = "unsent",
           stage' = [stage EXCEPT ![n] = "asked"],
           UNCHANGED <<wire, end, finished, slot, cancelled>>
    PROVE  IInv' /\ StepIsFinal
<1>1. IInv'
  BY TurnFacts DEF IInv, CoreTypeOK, Stages, SlotIsLive, CancelledHasRun, AnnouncedIsOver
<1>2. QED BY <1>1, SilentIsFinal

LEMMA RefuseIsSafe ==
    ASSUME IInv, NEW n \in Turns, Refuse(n)
    PROVE  IInv' /\ StepIsFinal
<1>1. IInv'
  BY TurnFacts DEF Refuse, abort, IInv, CoreTypeOK, Stages, Ends, SlotIsLive, CancelledHasRun,
                   AnnouncedIsOver
<1>2. QED BY <1>1, SilentIsFinal DEF Refuse

LEMMA EvaluateIsSafe ==
    ASSUME IInv, NEW n \in Turns, Evaluate(n)
    PROVE  IInv' /\ StepIsFinal
<1>1. IInv'
  BY TurnFacts DEF Evaluate, IInv, CoreTypeOK, Stages, SlotIsLive, CancelledHasRun,
                   AnnouncedIsOver
<1>2. QED BY <1>1, SilentIsFinal DEF Evaluate

LEMMA AbortIsSafe ==
    ASSUME IInv, Abort
    PROVE  IInv' /\ StepIsFinal
<1>1. IInv'
  BY TurnFacts DEF Abort, turn, IInv, CoreTypeOK, SlotIsLive, CancelledHasRun, AnnouncedIsOver
<1>2. QED BY <1>1, SilentIsFinal DEF Abort, turn

LEMMA ChunkIsSafe ==
    ASSUME IInv, NEW n \in Turns, Chunk(n)
    PROVE  IInv' /\ StepIsFinal
<1> DEFINE news == <<Event("chunk", n)>>
           more == 0
<1>1. news \in Seq(Events) /\ \A i \in DOMAIN news : news[i].turn = n
  BY EventTypes
<1>2. wire' = wire \o news /\ finished' = [finished EXCEPT ![n] = @ + more] /\ finished[n] = 0
  <2>1. finished[n] = 0 /\ UNCHANGED finished /\ finished \in [Turns -> Nat]
    BY DEF Chunk, IInv, CoreTypeOK, AnnouncedIsOver
  <2>2. wire \in Seq(Events) /\ wire' = Append(wire, Event("chunk", n))
        /\ Event("chunk", n) \in Events
    BY EventTypes DEF Chunk, IInv, CoreTypeOK
  <2>3. QED BY <2>1, <2>2
<1>3. StepIsFinal
  <2> HIDE DEF news
  <2>1. more \in Nat OBVIOUS
  <2> HIDE DEF more
  <2>2. QED BY <1>1, <1>2, <2>1, EmissionIsFinal
<1>4. wire' \in Seq(Events)
  BY <1>1, <1>2 DEF IInv, CoreTypeOK
<1>5. IInv'
  BY <1>4 DEF Chunk, abort, IInv, CoreTypeOK, SlotIsLive, CancelledHasRun, AnnouncedIsOver
<1>6. QED BY <1>3, <1>5

LEMMA EndStreamIsSafe ==
    ASSUME IInv, NEW n \in Turns, NEW how \in Endings(n), EndStream(n, how)
    PROVE  IInv' /\ StepIsFinal
<1> DEFINE news == IF IsTold(how) THEN <<Event(DoneOf(how), n)>> ELSE <<>>
           more == IF IsTold(how) THEN 1 ELSE 0
<1>1. how \in Ends /\ DoneOf(how) \in {"done", "aborted", "error"}
  BY EndingTypes, DoneTypes
<1>2. news \in Seq(Events) /\ \A i \in DOMAIN news : news[i].turn = n
  BY <1>1, EventTypes
<1>3. wire' = wire \o news /\ finished' = [finished EXCEPT ![n] = @ + more] /\ finished[n] = 0
  BY DEF EndStream, IInv, CoreTypeOK, AnnouncedIsOver
<1>4. StepIsFinal
  <2> HIDE DEF news
  <2>1. more \in Nat OBVIOUS
  <2> HIDE DEF more
  <2>2. QED BY <1>2, <1>3, <2>1, EmissionIsFinal
<1>5. wire' \in Seq(Events)
  BY <1>2, <1>3 DEF IInv, CoreTypeOK
<1>6. finished' \in [Turns -> Nat]
  BY <1>3 DEF IInv, CoreTypeOK
<1>7. stage' = [stage EXCEPT ![n] = "closing"] /\ end' = [end EXCEPT ![n] = how]
      /\ stage[n] = "streaming" /\ UNCHANGED <<slot, cancelled>>
  BY DEF EndStream, abort
<1>8. AnnouncedIsOver'
  <2>1. ASSUME NEW m \in Turns, finished'[m] # 0, m # n
        PROVE  stage'[m] = "ended" \/ (stage'[m] = "closing" /\ IsTold(end'[m]))
    BY <1>3, <1>7, <2>1 DEF IInv, CoreTypeOK, AnnouncedIsOver
  <2>2. finished'[n] # 0 => stage'[n] = "closing" /\ IsTold(end'[n])
    BY <1>3, <1>7 DEF IInv, CoreTypeOK
  <2>3. QED BY <2>1, <2>2 DEF AnnouncedIsOver
<1>9. IInv'
  BY <1>1, <1>5, <1>6, <1>7, <1>8
     DEF IInv, CoreTypeOK, Stages, SlotIsLive, CancelledHasRun
<1>10. QED BY <1>4, <1>9

LEMMA CloseIsSafe ==
    ASSUME IInv, NEW n \in Turns, Close(n)
    PROVE  IInv' /\ StepIsFinal
<1> DEFINE more == IF IsTold(end[n]) THEN 0 ELSE 1
<1>1. wire' = wire \o Announce(n) /\ finished' = [finished EXCEPT ![n] = @ + more]
  BY DEF Close
<1>2. finished[n] # 0 => Announce(n) = <<>> /\ more = 0
  BY AnnounceTypes DEF Close, IInv, AnnouncedIsOver
<1>3. StepIsFinal
  <2>1. more \in Nat OBVIOUS
  <2> HIDE DEF more
  <2>2. QED BY <1>1, <1>2, <2>1, AnnounceTypes, EmissionIsFinal
<1>4. wire' \in Seq(Events)
  BY <1>1, AnnounceTypes DEF IInv, CoreTypeOK
<1>5. finished' \in [Turns -> Nat] /\ \A m \in Turns \ {n} : finished'[m] = finished[m]
  BY <1>1 DEF IInv, CoreTypeOK
<1>6. stage' = [stage EXCEPT ![n] = "ended"] /\ slot' = None /\ UNCHANGED <<end, cancelled>>
  BY DEF Close, SlotAfter
<1>7. IInv'
  BY <1>4, <1>5, <1>6
     DEF IInv, CoreTypeOK, Stages, SlotIsLive, CancelledHasRun, AnnouncedIsOver
<1>8. QED BY <1>3, <1>7

-----------------------------------------------------------------------------
(* The other steps *)

LEMMA UnrelatedIsSafe ==
    ASSUME IInv, UNCHANGED core
    PROVE  IInv' /\ StepIsFinal
<1>1. IInv'
  BY DEF core, IInv, CoreTypeOK, SlotIsLive, CancelledHasRun, AnnouncedIsOver
<1>2. QED BY <1>1, SilentIsFinal DEF core

LEMMA DeliveryIsSafe ==
    ASSUME IInv, OnChunk \/ OnDone
    PROVE  IInv' /\ StepIsFinal
<1>1. wire # <<>> /\ wire' = Tail(wire) /\ UNCHANGED <<stage, end, finished, slot, cancelled>>
  BY DEF OnChunk, OnDone, turn, abort
<1>2. IInv'
  BY <1>1 DEF IInv, CoreTypeOK, SlotIsLive, CancelledHasRun, AnnouncedIsOver
<1>3. QED BY <1>1, <1>2, DeliveryIsFinal

LEMMA SyncIsSafe ==
    ASSUME IInv, SyncReturns
    PROVE  IInv' /\ StepIsFinal
<1>1. UNCHANGED <<wire, slot, cancelled>>
  BY DEF SyncReturns, abort
<1>2. CASE UNCHANGED turn
  BY <1>1, <1>2, UnrelatedIsSafe DEF core, turn
<1>3. CASE Unsent # {} /\ ~UNCHANGED turn
  <2>1. PICK n \in Unsent : /\ stage' = [stage EXCEPT ![n] = "asked"]
                            /\ UNCHANGED <<end, finished>>
    BY <1>3 DEF SyncReturns, Dispatch
  <2>2. n \in Turns /\ stage[n] = "unsent" BY DEF Unsent
  <2>3. QED BY <1>1, <2>1, <2>2, AskedIsSafe
<1>4. QED BY <1>2, <1>3 DEF SyncReturns

LEMMA SubmitIsSafe ==
    ASSUME IInv, Submit
    PROVE  IInv' /\ StepIsFinal
<1>1. PICK n \in Unsent : /\ stage' = [stage EXCEPT ![n] = "asked"]
                          /\ UNCHANGED <<end, finished>>
  BY DEF Submit, Dispatch
<1>2. n \in Turns /\ stage[n] = "unsent" BY DEF Unsent
<1>3. QED BY <1>1, <1>2, AskedIsSafe DEF Submit, abort

-----------------------------------------------------------------------------
(* Theorems *)

LEMMA InitIsSafe == Init => IInv
BY TurnFacts DEF Init, IInv, CoreTypeOK, Stages, Ends, SlotIsLive, CancelledHasRun,
                 AnnouncedIsOver

\* Every step keeps the invariant, and takes nothing back that was final.
LEMMA StepIsSafe ==
    ASSUME IInv, [Next]_vars
    PROVE  IInv' /\ StepIsFinal
<1>1. CASE UNCHANGED vars
  BY <1>1, UnrelatedIsSafe DEF vars, core, turn, abort
<1>2. CASE Submit
  BY <1>2, SubmitIsSafe
<1>3. CASE Command
  BY <1>3, UnrelatedSteps, UnrelatedIsSafe DEF Command
<1>4. CASE System
  <2>1. CASE CmdFile \/ LoadReturns \/ DeleteReturns \/ EraseReturns
             \/ \E n \in Turns : AppendRead(n) \/ AppendWrite(n)
    BY <2>1, UnrelatedSteps, UnrelatedIsSafe
  <2>2. CASE Abort BY <2>2, AbortIsSafe
  <2>3. CASE SyncReturns BY <2>3, SyncIsSafe
  <2>4. CASE OnChunk \/ OnDone BY <2>4, DeliveryIsSafe
  <2>5. ASSUME NEW n \in Turns, Refuse(n) PROVE IInv' /\ StepIsFinal BY <2>5, RefuseIsSafe
  <2>6. ASSUME NEW n \in Turns, Evaluate(n) PROVE IInv' /\ StepIsFinal BY <2>6, EvaluateIsSafe
  <2>7. ASSUME NEW n \in Turns, Chunk(n) PROVE IInv' /\ StepIsFinal BY <2>7, ChunkIsSafe
  <2>8. ASSUME NEW n \in Turns, NEW how \in Endings(n), EndStream(n, how)
        PROVE  IInv' /\ StepIsFinal
    BY <2>8, EndStreamIsSafe
  <2>9. ASSUME NEW n \in Turns, Close(n) PROVE IInv' /\ StepIsFinal BY <2>9, CloseIsSafe
  <2>10. QED
    BY <1>4, <2>1, <2>2, <2>3, <2>4, <2>5, <2>6, <2>7, <2>8, <2>9 DEF System, Finish
<1>5. QED BY <1>1, <1>2, <1>3, <1>4 DEF Next

\* Every reachable state satisfies the invariant the two theorems rest on
\* (evaluate_payload and the task it spawns).
THEOREM Invariance == Spec => []IInv
<1>1. IInv /\ [Next]_vars => IInv' BY StepIsSafe
<1>2. QED BY InitIsSafe, <1>1, PTL DEF Spec

\* The abort slot never keeps the token of a turn that is over or cancelled
\* (abort_generation, clear_abort_slot).
THEOREM SlotsAreLive == Spec => []SlotIsLive
<1>1. IInv => SlotIsLive BY DEF IInv
<1>2. QED BY Invariance, <1>1, PTL

\* Once a turn has announced its end it emits nothing more, whichever of the
\* three places has announced it (bb-stream-done).
THEOREM CompletionsAreFinal == Spec => CompletionIsFinal
<1>1. IInv /\ [Next]_vars =>
          [\A n \in Turns : finished[n] # 0 =>
              finished'[n] = finished[n] /\ CountOf(wire', n) <= CountOf(wire, n)]_vars
  BY StepIsSafe DEF StepIsFinal
<1>2. QED BY Invariance, <1>1, PTL DEF Spec, CompletionIsFinal

-----------------------------------------------------------------------------
(* What the webview and the files hold *)

Ids == ({"user"} \X Turns) \cup ({"bb"} \X (Turns \cup {None}))
Filed == [id : Ids, text : SUBSET Turns]
Rows == [id : Ids, text : SUBSET Turns, loading : BOOLEAN, aborted : BOOLEAN]

\* The entry of the reply a turn brought, in its own words.
Answer(n) == Entry(ReplyId(n), {n})

\* The row of that reply, neither loading nor stopped.
IsAnswer(row, n) == row.id = ReplyId(n) /\ row.text = {n} /\ ~row.loading /\ ~row.aborted

Holds(rows, n) == Answer(n) \in SyncEntries(rows)

LEMMA IdFacts ==
    /\ \A n \in Turns : UserId(n) \in Ids /\ UserId(n)[1] = "user" /\ UserId(n)[2] = n
    /\ \A n \in Turns \cup {None} : ReplyId(n) \in Ids /\ ReplyId(n) \in {"bb"} \X (Turns \cup {None})
    /\ \A n \in Turns \cup {None}, m \in Turns : ReplyId(n) # UserId(m)
    /\ \A n, m \in Turns \cup {None} : ReplyId(n) = ReplyId(m) => n = m
    /\ NoId = ReplyId(None) /\ None \notin Turns
    /\ \A i \in Ids : i[1] = "user" => i \in {"user"} \X Turns
    /\ \A i \in {"user"} \X Turns : i \in Ids /\ i[1] = "user" /\ i[2] \in Turns
    /\ {"bb"} \X (Turns \cup {None}) \subseteq Ids
<1>1. \A n \in Turns : n # 0
  BY TurnFacts
<1>2. QED BY <1>1 DEF Ids, UserId, ReplyId, NoId, None

LEMMA RowTypes ==
    ASSUME NEW id \in Ids, NEW text \in SUBSET Turns
    PROVE  /\ Row(id, text) \in Rows /\ Row(id, text).id = id /\ Row(id, text).text = text
           /\ ~Row(id, text).loading /\ ~Row(id, text).aborted
           /\ Entry(id, text) \in Filed /\ Entry(id, text).id = id
           /\ Entry(id, text).text = text
BY DEF Row, Rows, Entry, Filed

LEMMA EntryIs ==
    ASSUME NEW i, NEW s, NEW j, NEW t, Entry(i, s) = Entry(j, t)
    PROVE  i = j /\ s = t
<1>1. /\ Entry(i, s).id = i /\ Entry(i, s).text = s
      /\ Entry(j, t).id = j /\ Entry(j, t).text = t
  BY DEF Entry
<1>2. QED BY <1>1

LEMMA NoFileIs == NoFile \in SUBSET Filed /\ \A n \in Turns : Answer(n) \notin NoFile
<1>1. Entry(NoId, {}) \in Filed
  BY IdFacts, RowTypes
<1>2. ASSUME NEW n \in Turns PROVE Answer(n) # Entry(NoId, {})
  BY IdFacts, EntryIs, ReplyId(n) # NoId DEF Answer
<1>3. QED BY <1>1, <1>2 DEF NoFile

LEMMA SyncTypes ==
    ASSUME NEW rows \in Seq(Rows)
    PROVE  /\ SyncEntries(rows) \in SUBSET Filed
           /\ \A e : e \in SyncEntries(rows) <=>
                \E i \in DOMAIN rows : /\ e = Entry(rows[i].id, rows[i].text)
                                       /\ ~rows[i].loading /\ ~rows[i].aborted
<1>1. \A e : e \in SyncEntries(rows) <=>
                \E i \in DOMAIN rows : /\ e = Entry(rows[i].id, rows[i].text)
                                       /\ ~rows[i].loading /\ ~rows[i].aborted
  BY Zenon DEF SyncEntries
<1>2. \A i \in DOMAIN rows : Entry(rows[i].id, rows[i].text) \in Filed
  <2>1. ASSUME NEW i \in DOMAIN rows PROVE rows[i].id \in Ids /\ rows[i].text \in SUBSET Turns
    <3>1. rows[i] \in Rows OBVIOUS
    <3>2. QED BY <3>1 DEF Rows
  <2>2. QED BY <2>1, RowTypes
<1>3. QED BY <1>1, <1>2

LEMMA HoldsIs ==
    ASSUME NEW rows \in Seq(Rows), NEW n \in Turns
    PROVE  Holds(rows, n) <=> \E i \in DOMAIN rows : IsAnswer(rows[i], n)
<1>1. Holds(rows, n) <=>
        \E i \in DOMAIN rows : /\ Answer(n) = Entry(rows[i].id, rows[i].text)
                               /\ ~rows[i].loading /\ ~rows[i].aborted
  BY SyncTypes DEF Holds
<1>2. ASSUME NEW i \in DOMAIN rows
      PROVE  Answer(n) = Entry(rows[i].id, rows[i].text) <=>
               rows[i].id = ReplyId(n) /\ rows[i].text = {n}
  <2>1. Answer(n) = Entry(ReplyId(n), {n})
    BY DEF Answer
  <2>2. ASSUME Answer(n) = Entry(rows[i].id, rows[i].text)
        PROVE  rows[i].id = ReplyId(n) /\ rows[i].text = {n}
    <3> DEFINE x == rows[i].id
               y == rows[i].text
    <3>1. Entry(ReplyId(n), {n}) = Entry(x, y)
      BY <2>1, <2>2
    <3> HIDE DEF x, y
    <3>2. x = ReplyId(n) /\ y = {n}
      BY ONLY <3>1, EntryIs
    <3>3. QED BY <3>2 DEF x, y
  <2>3. QED BY <2>1, <2>2
<1>3. QED BY <1>1, <1>2 DEF IsAnswer

LEMMA AppendedRow ==
    ASSUME NEW rows \in Seq(Rows), NEW r \in Rows
    PROVE  /\ Append(rows, r) \in Seq(Rows)
           /\ DOMAIN rows = 1 .. Len(rows) /\ Len(rows) \in Nat
           /\ DOMAIN Append(rows, r) = 1 .. Len(rows) + 1
           /\ Len(Append(rows, r)) = Len(rows) + 1
           /\ Append(rows, r)[Len(rows) + 1] = r
           /\ \A i \in DOMAIN rows : Append(rows, r)[i] = rows[i]
OBVIOUS

\* A row more changes nothing for a turn it is not the answer of.
LEMMA HoldsAppended ==
    ASSUME NEW rows \in Seq(Rows), NEW r \in Rows, NEW n \in Turns, ~IsAnswer(r, n)
    PROVE  Holds(Append(rows, r), n) <=> Holds(rows, n)
<1>1. /\ Append(rows, r) \in Seq(Rows)
      /\ DOMAIN rows = 1 .. Len(rows) /\ Len(rows) \in Nat
      /\ DOMAIN Append(rows, r) = 1 .. Len(rows) + 1
      /\ Append(rows, r)[Len(rows) + 1] = r
      /\ \A i \in DOMAIN rows : Append(rows, r)[i] = rows[i]
  BY AppendedRow
<1>2. \A i \in DOMAIN Append(rows, r) : i \in DOMAIN rows \/ i = Len(rows) + 1
  BY <1>1
<1>3. \A i \in DOMAIN rows : i \in DOMAIN Append(rows, r)
  BY <1>1
<1>4. (\E i \in DOMAIN Append(rows, r) : IsAnswer(Append(rows, r)[i], n))
        <=> (\E i \in DOMAIN rows : IsAnswer(rows[i], n))
  <2>1. ASSUME NEW i \in DOMAIN Append(rows, r), IsAnswer(Append(rows, r)[i], n)
        PROVE  i \in DOMAIN rows /\ Append(rows, r)[i] = rows[i]
    BY <1>1, <1>2, <2>1
  <2>2. QED BY <1>1, <1>3, <2>1
<1>5. QED BY <1>1, <1>4, HoldsIs

\* Nor does a change to rows that are not of the turn.
LEMMA HoldsElsewhere ==
    ASSUME NEW rows \in Seq(Rows), NEW new \in Seq(Rows), NEW n \in Turns,
           DOMAIN new = DOMAIN rows,
           \A i \in DOMAIN rows :
              new[i] = rows[i] \/ (~IsAnswer(rows[i], n) /\ ~IsAnswer(new[i], n))
    PROVE  Holds(new, n) <=> Holds(rows, n)
<1>1. (\E i \in DOMAIN new : IsAnswer(new[i], n)) <=> (\E i \in DOMAIN rows : IsAnswer(rows[i], n))
  OBVIOUS
<1>2. QED BY <1>1, HoldsIs

LEMMA FiledIsFinite == IsFiniteSet(Filed)
<1>1. IsFiniteSet(Turns)
  BY FS_Interval DEF Turns
<1>2. IsFiniteSet(Ids)
  <2>1. IsFiniteSet(Turns \cup {None}) /\ IsFiniteSet({"user"}) /\ IsFiniteSet({"bb"})
    BY <1>1, FS_AddElement, FS_Singleton
  <2>2. IsFiniteSet({"user"} \X Turns) /\ IsFiniteSet({"bb"} \X (Turns \cup {None}))
    BY <1>1, <2>1, FS_Product
  <2>3. QED BY <2>2, FS_Union DEF Ids
<1>3. IsFiniteSet(Ids \X SUBSET Turns)
  BY <1>1, <1>2, FS_SUBSET, FS_Product
<1> DEFINE made == [p \in Ids \X SUBSET Turns |-> Entry(p[1], p[2])]
<1>4. made \in Surjection(Ids \X SUBSET Turns, Filed)
  <2>1. \A p \in Ids \X SUBSET Turns : Entry(p[1], p[2]) \in Filed
    BY RowTypes
  <2>2. ASSUME NEW e \in Filed
        PROVE  \E p \in Ids \X SUBSET Turns : made[p] = e
    <3>1. e = Entry(e.id, e.text) /\ e.id \in Ids /\ e.text \in SUBSET Turns
      BY DEF Filed, Entry
    <3>2. <<e.id, e.text>> \in Ids \X SUBSET Turns
      BY <3>1
    <3>3. made[<<e.id, e.text>>] = e
      BY <3>1, <3>2
    <3>4. QED BY <3>2, <3>3
  <2>3. QED BY <2>1, <2>2 DEF Surjection
<1>5. QED
  <2> HIDE DEF made
  <2>1. QED BY <1>3, <1>4, FS_Surjection

\* The rows of an archive are its entries, all of them.
LEMMA RowsOfIs ==
    ASSUME NEW entries \in SUBSET Filed, NEW rows \in RowsOf(entries)
    PROVE  rows \in Seq(Rows) /\ SyncEntries(rows) = entries
<1> DEFINE N == Cardinality(entries)
           T == {Row(e.id, e.text) : e \in entries}
<1>1. IsFiniteSet(entries) /\ N \in Nat
  BY FiledIsFinite, FS_Subset, FS_CardinalityType
<1>2. rows \in [1 .. N -> T] /\ \A i, j \in 1 .. N : i # j => rows[i] # rows[j]
  BY DEF RowsOf
<1>3. \A e \in entries : /\ e = Entry(e.id, e.text) /\ e.id \in Ids /\ e.text \in SUBSET Turns
                         /\ Row(e.id, e.text) \in Rows
  BY RowTypes DEF Filed, Entry
<1>4. T \subseteq Rows
  BY <1>3
<1>5. rows \in Seq(Rows) /\ DOMAIN rows = 1 .. N
  BY <1>1, <1>2, <1>4
<1> DEFINE made == [e \in entries |-> Row(e.id, e.text)]
<1>6. made \in Surjection(entries, T) /\ made \in Injection(entries, T)
  <2>1. \A e, f \in entries : Row(e.id, e.text) = Row(f.id, f.text) => e = f
    BY <1>3, RowTypes
  <2>2. QED BY <2>1 DEF Surjection, Injection, IsInjective
<1>7. IsFiniteSet(T) /\ Cardinality(T) = N
  <2> HIDE DEF T, made
  <2>1. QED BY <1>1, <1>6, FS_Surjection
<1>8. rows \in Injection(1 .. N, T)
  <2> HIDE DEF T, N
  <2>1. QED BY <1>2 DEF Injection, IsInjective
<1>9. rows \in Surjection(1 .. N, T)
  <2> HIDE DEF T, made
  <2>1. IsFiniteSet(1 .. N) /\ Cardinality(1 .. N) = N
    <3> HIDE DEF N
    <3>1. QED BY <1>1, FS_Interval
  <2>2. QED BY <1>7, <1>8, <2>1, FS_Injection
<1>10. \A r \in T : \E i \in 1 .. N : rows[i] = r
  BY <1>9 DEF Surjection
<1>11. ASSUME NEW i \in DOMAIN rows
       PROVE  \E e \in entries : rows[i] = Row(e.id, e.text)
  BY <1>2, <1>5
<1>12. ASSUME NEW e
       PROVE  e \in SyncEntries(rows) <=> e \in entries
  <2>1. e \in SyncEntries(rows) <=>
          \E i \in DOMAIN rows : /\ e = Entry(rows[i].id, rows[i].text)
                                 /\ ~rows[i].loading /\ ~rows[i].aborted
    BY <1>5, SyncTypes
  <2>2. ASSUME NEW i \in DOMAIN rows, e = Entry(rows[i].id, rows[i].text)
        PROVE  e \in entries
    <3>1. PICK f \in entries : rows[i] = Row(f.id, f.text)
      BY <1>11
    <3>2. e = f
      BY <1>3, <2>2, <3>1, RowTypes
    <3>3. QED BY <3>2
  <2>3. ASSUME e \in entries
        PROVE  \E i \in DOMAIN rows : /\ e = Entry(rows[i].id, rows[i].text)
                                      /\ ~rows[i].loading /\ ~rows[i].aborted
    <3>1. Row(e.id, e.text) \in T
      BY <2>3
    <3>2. PICK i \in 1 .. N : rows[i] = Row(e.id, e.text)
      BY <1>10, <3>1
    <3>3. rows[i].id = e.id /\ rows[i].text = e.text /\ ~rows[i].loading /\ ~rows[i].aborted
      BY <1>3, <2>3, <3>2, RowTypes
    <3>4. QED BY <1>3, <1>5, <2>3, <3>3
  <2>4. QED BY <2>1, <2>2, <2>3
<1>13. QED BY <1>5, <1>12

LEMMA Smallest ==
  ASSUME NEW T, T \subseteq Nat, T # {}
  PROVE  \E m \in T : \A n \in T : m <= n
<1> DEFINE R == OpToRel(<, Nat)
<1>1. \E x \in T : \A y \in T : ~ (<<y, x>> \in R)
  BY NatLessThanWellFounded, WFMin
<1>2. \A x, y \in Nat : <<y, x>> \in R <=> y < x
  BY DEF OpToRel
<1> HIDE DEF R
<1>3. PICK x \in T : \A y \in T : ~ (<<y, x>> \in R)
  BY <1>1
<1>4. ASSUME NEW y \in T PROVE x <= y
  <2>1. x \in Nat /\ y \in Nat OBVIOUS
  <2>2. ~(<<y, x>> \in R) BY <1>3
  <2>3. ~(y < x) BY <1>2, <2>1, <2>2
  <2>4. QED BY <2>1, <2>3
<1>5. QED BY <1>3, <1>4

LEMMA Induction ==
  ASSUME NEW S, 0 \in S, \A n \in Nat : n \in S => n + 1 \in S
  PROVE  Nat \subseteq S
<1> SUFFICES ASSUME Nat \ S # {} PROVE FALSE
  OBVIOUS
<1>1. PICK m \in Nat \ S : \A n \in Nat \ S : m <= n
  BY Smallest
<1>2. m - 1 \in Nat /\ m - 1 \in S
  BY <1>1
<1>3. QED BY <1>1, <1>2

LEMMA Recursion ==
  ASSUME NEW A, NEW b \in A, NEW N \in Nat, NEW step \in [1..N -> [A -> A]]
  PROVE  \E g \in [0..N -> A] : g[0] = b /\ \A n \in 1..N : g[n] = step[n][g[n - 1]]
<1> DEFINE Goes(m, g) == g[0] = b /\ \A n \in 1..m : g[n] = step[n][g[n - 1]]
           Exists(m) == \E g \in [0..m -> A] : Goes(m, g)
           S == {m \in Nat : m <= N => Exists(m)}
<1>1. Exists(0)
  <2>1. [n \in 0..0 |-> b] \in [0..0 -> A] /\ Goes(0, [n \in 0..0 |-> b])
    OBVIOUS
  <2>2. QED BY <2>1
<1>2. ASSUME NEW m \in Nat, m + 1 <= N, Exists(m) PROVE Exists(m + 1)
  <2>1. PICK g \in [0..m -> A] : Goes(m, g)
    BY <1>2
  <2> DEFINE h == [n \in 0..(m+1) |-> IF n = m + 1 THEN step[m + 1][g[m]] ELSE g[n]]
  <2>2. step[m + 1][g[m]] \in A
    <3>1. g[m] \in A /\ m + 1 \in 1..N
      BY <1>2
    <3>2. QED BY <3>1
  <2>3. h \in [0..(m+1) -> A]
    <3> DEFINE x == step[m + 1][g[m]]
    <3> HIDE DEF x
    <3>1. x \in A BY <2>2 DEF x
    <3>2. [n \in 0..(m+1) |-> IF n = m + 1 THEN x ELSE g[n]] \in [0..(m+1) -> A]
      <4>1. ASSUME NEW n \in 0..(m+1), n # m + 1 PROVE n \in 0..m
        BY <4>1
      <4>2. QED BY <3>1, <4>1
    <3>3. QED BY <3>2 DEF x
  <2>4. Goes(m + 1, h)
    <3>1. h[0] = b
      BY <2>1
    <3>2. ASSUME NEW n \in 1..(m+1) PROVE h[n] = step[n][h[n - 1]]
      <4>1. n \in 0..(m+1) /\ n - 1 \in 0..(m+1) /\ n - 1 # m + 1 /\ n - 1 \in Nat
        BY <3>2
      <4>2. h[n - 1] = g[n - 1]
        BY <4>1
      <4>3. CASE n = m + 1
        <5>1. n - 1 = m
          BY <4>3
        <5>2. QED BY <4>1, <4>2, <4>3, <5>1
      <4>4. CASE n # m + 1
        <5>1. n \in 1..m
          BY <4>4
        <5>2. QED BY <2>1, <4>1, <4>2, <4>4, <5>1
      <4>5. QED BY <4>3, <4>4
    <3>3. QED BY <3>1, <3>2
  <2> HIDE DEF h
  <2>5. QED BY <2>3, <2>4
<1> HIDE DEF Exists
<1>3. 0 \in S /\ \A n \in Nat : n \in S => n + 1 \in S
  BY <1>1, <1>2
<1>4. N \in S
  <2> HIDE DEF S
  <2>1. QED BY <1>3, Induction
<1>5. Exists(N)
  BY <1>4
<1>6. QED BY <1>5 DEF Exists

LEMMA WithoutIs ==
    ASSUME NEW rows \in Seq(Rows), NEW id
    PROVE  Without(rows, id) \in Seq(Rows)
<1> DEFINE N == Len(rows)
           Kept(k) == [n \in 0 .. N |-> IF n = 0 THEN <<>>
                                        ELSE IF rows[n].id = id THEN k[n - 1]
                                        ELSE Append(k[n - 1], rows[n])]
           kept == CHOOSE k : k = Kept(k)
           step == [n \in 1 .. N |-> [k \in Seq(Rows) |->
                      IF rows[n].id = id THEN k ELSE Append(k, rows[n])]]
<1>0. N \in Nat /\ \A n \in 1 .. N : rows[n] \in Rows
  OBVIOUS
<1>1. Without(rows, id) = kept[N]
  BY DEF Without
<1>2. step \in [1 .. N -> [Seq(Rows) -> Seq(Rows)]] /\ <<>> \in Seq(Rows)
  <2>1. \A n \in 1 .. N, k \in Seq(Rows) : Append(k, rows[n]) \in Seq(Rows)
    BY <1>0
  <2>2. QED BY <2>1
<1>3. kept = Kept(kept)
  <2>1. PICK k \in [0 .. N -> Seq(Rows)] :
               k[0] = <<>> /\ \A n \in 1 .. N : k[n] = step[n][k[n - 1]]
    <3> DEFINE A == Seq(Rows)
               b == <<>>
    <3>1. b \in A /\ N \in Nat /\ step \in [1 .. N -> [A -> A]]
      BY <1>0, <1>2
    <3> HIDE DEF A, b, step, N
    <3>2. \E g \in [0 .. N -> A] : g[0] = b /\ \A n \in 1 .. N : g[n] = step[n][g[n - 1]]
      BY ONLY <3>1, Recursion
    <3>3. QED BY ONLY <3>2 DEF A, b
  <2>2. ASSUME NEW n \in 0 .. N PROVE k[n] = Kept(k)[n]
    <3>1. CASE n = 0 BY <2>1, <3>1
    <3>2. CASE n # 0
      <4>1. n \in 1 .. N /\ n - 1 \in 0 .. N
        BY <1>0, <3>2
      <4>2. k[n - 1] \in Seq(Rows)
        BY <2>1, <4>1
      <4>3. k[n] = step[n][k[n - 1]]
        BY <2>1, <4>1
      <4>4. QED BY <3>2, <4>1, <4>2, <4>3
    <3>3. QED BY <3>1, <3>2
  <2>3. k = Kept(k)
    <3> HIDE DEF Kept
    <3>1. Kept(k) = [n \in 0 .. N |-> Kept(k)[n]]
      BY DEF Kept
    <3>2. k = [n \in 0 .. N |-> k[n]]
      OBVIOUS
    <3>3. QED BY <2>2, <3>1, <3>2
  <2> HIDE DEF Kept
  <2>4. QED BY <2>3
<1> DEFINE S == {n \in Nat : n <= N => kept[n] \in Seq(Rows)}
<1>4. 0 \in S /\ \A n \in Nat : n \in S => n + 1 \in S
  <2> HIDE DEF kept
  <2>1. \A n \in 0 .. N : kept[n] = Kept(kept)[n]
    BY <1>3
  <2>2. kept[0] = <<>>
    BY <1>0, <2>1
  <2>3. ASSUME NEW n \in Nat, n + 1 <= N, kept[n] \in Seq(Rows)
        PROVE  kept[n + 1] \in Seq(Rows)
    <3>1. n + 1 \in 0 .. N /\ n + 1 \in 1 .. N /\ (n + 1) - 1 = n /\ n + 1 # 0
      BY <1>0, <2>3
    <3>2. kept[n + 1] = IF rows[n + 1].id = id THEN kept[n] ELSE Append(kept[n], rows[n + 1])
      BY <2>1, <3>1
    <3>3. QED BY <1>0, <2>3, <3>1, <3>2
  <2>4. 0 \in S
    BY <1>2, <2>2
  <2>5. ASSUME NEW n \in Nat, n \in S PROVE n + 1 \in S
    <3>1. n + 1 <= N => kept[n] \in Seq(Rows)
      BY <1>0, <2>5
    <3>2. n + 1 <= N => kept[n + 1] \in Seq(Rows)
      BY <2>3, <3>1
    <3>3. QED BY <3>2
  <2>6. QED BY <2>4, <2>5
<1>5. N \in S
  <2> HIDE DEF S
  <2>1. QED BY <1>0, <1>4, Induction
<1>6. QED BY <1>0, <1>1, <1>5

-----------------------------------------------------------------------------
(* Types *)

Steps == {"file", "back"}

Cmds ==
    {Idle}
    \cup [op : {"load", "delete"}, at : Sessions, step : Steps, entries : SUBSET Filed]
    \cup [op : {"sync"}, at : Sessions, step : Steps, entries : SUBSET Filed,
          then : {"nothing", "retry"}]
    \cup [op : {"erase"}, at : Sessions, step : Steps, entries : SUBSET Filed, id : Ids]

ViewTypes ==
    /\ active \in Sessions /\ shown \in Seq(Rows) /\ generating \in BOOLEAN
    /\ pending \in Turns \cup {None} /\ current \in {"bb"} \X (Turns \cup {None})
    /\ cmd \in Cmds

TurnTypes ==
    /\ home \in [Turns -> Sessions] /\ asked \in [Turns -> {"user"} \X Turns]
    /\ sent \in [Turns -> 0 .. Length]

FileTypes ==
    /\ append \in [Turns -> {"none", "queued", "read", "written"}]
    /\ draft \in [Turns -> SUBSET Filed] /\ open \subseteq Sessions
    /\ file \in [Sessions -> SUBSET Filed]

UserTypes == commands \in 0 .. MaxCommands /\ hasty \in 0 .. MaxHasty

Types == ViewTypes /\ TurnTypes /\ FileTypes /\ UserTypes

LEMMA InitTypes == Init => Types
<1> SUFFICES ASSUME Init PROVE Types
  OBVIOUS
<1>1. active \in Sessions
  BY DEF Init
<1>2. NoId \in {"bb"} \X (Turns \cup {None}) /\ Idle \in Cmds /\ <<>> \in Seq(Rows)
  BY IdFacts DEF Cmds
<1>3. ViewTypes
  BY <1>1, <1>2 DEF Init, ViewTypes
<1>4. \A n \in Turns : UserId(n) \in {"user"} \X Turns
  BY IdFacts
<1>5. TurnTypes
  BY <1>1, <1>4 DEF Init, TurnTypes
<1>6. FileTypes
  BY NoFileIs DEF Init, FileTypes
<1>7. UserTypes
  BY DEF Init, UserTypes
<1>8. QED BY <1>3, <1>5, <1>6, <1>7 DEF Types

\* Either the last row is the current one, or a new one, empty, is made.
LEMMA EnsureRowIs ==
    ASSUME ViewTypes
    PROVE  /\ EnsureRow \in Seq(Rows) /\ Len(EnsureRow) \in DOMAIN EnsureRow
           /\ EnsureRow[Len(EnsureRow)] \in Rows
           /\ \/ /\ EnsureRow = shown /\ current # NoId
                 /\ EnsureRow[Len(EnsureRow)].id = current
              \/ \E r \in Rows :
                    /\ EnsureRow = Append(shown, r) /\ EnsureRow # shown
                    /\ EnsureRow[Len(EnsureRow)] = r
                    /\ r.id = ReplyId(pending) /\ r.text = {} /\ ~r.aborted
<1>1. CASE current # NoId /\ LastIs(shown, current)
  <2>1. EnsureRow = shown /\ shown # <<>> /\ shown[Len(shown)].id = current
    BY <1>1 DEF EnsureRow, LastIs
  <2>2. shown \in Seq(Rows) /\ Len(shown) \in DOMAIN shown
    BY <2>1 DEF ViewTypes
  <2>3. QED BY <1>1, <2>1, <2>2
<1>2. CASE ~(current # NoId /\ LastIs(shown, current))
  <2> DEFINE r == [Row(ReplyId(pending), {}) EXCEPT !.loading = TRUE]
  <2>1. EnsureRow = Append(shown, r)
    BY <1>2 DEF EnsureRow
  <2>2. r \in Rows /\ r.id = ReplyId(pending) /\ r.text = {} /\ ~r.aborted
    <3> DEFINE i == ReplyId(pending)
    <3>1. i \in Ids
      BY IdFacts DEF ViewTypes
    <3> HIDE DEF i
    <3>2. Row(i, {}) \in Rows /\ Row(i, {}).id = i /\ Row(i, {}).text = {} /\ ~Row(i, {}).aborted
      BY <3>1, RowTypes
    <3>3. QED BY <3>2 DEF Rows, i
  <2> HIDE DEF r
  <2>3. shown \in Seq(Rows)
    BY DEF ViewTypes
  <2>4. /\ Append(shown, r) \in Seq(Rows)
        /\ Len(Append(shown, r)) \in DOMAIN Append(shown, r)
        /\ Append(shown, r)[Len(Append(shown, r))] = r
        /\ Append(shown, r) # shown
    BY <2>2, <2>3
  <2>5. QED BY <2>1, <2>2, <2>4
<1>3. QED BY <1>1, <1>2

\* The last user message, which a retry sends again.
LEMMA LastUser ==
    ASSUME ViewTypes, {i \in DOMAIN shown : IsUser(shown[i])} # {}
    PROVE  LET users == {i \in DOMAIN shown : IsUser(shown[i])}
               last == CHOOSE i \in users : \A j \in users : j <= i
           IN shown[last].id \in {"user"} \X Turns
<1> DEFINE users == {i \in DOMAIN shown : IsUser(shown[i])}
           last == CHOOSE i \in users : \A j \in users : j <= i
           T == {Len(shown) - i : i \in users}
<1>1. shown \in Seq(Rows) /\ Len(shown) \in Nat /\ DOMAIN shown = 1 .. Len(shown)
  BY DEF ViewTypes
<1>2. T \subseteq Nat /\ T # {}
  BY <1>1
<1>3. PICK m \in T : \A k \in T : m <= k
  <2> HIDE DEF T
  <2>1. QED BY <1>2, Smallest
<1>4. PICK i \in users : m = Len(shown) - i
  BY <1>3
<1>5. \A j \in users : j <= i
  <2>1. ASSUME NEW j \in users PROVE j <= i
    <3>1. m <= Len(shown) - j
      BY <1>3
    <3>2. i \in Int /\ j \in Int
      BY <1>1
    <3>3. QED BY <1>1, <1>4, <3>1, <3>2
  <2>2. QED BY <2>1
<1>6. last \in users
  <2> HIDE DEF users
  <2>1. QED BY <1>5
<1>7. shown[last] \in Rows /\ IsUser(shown[last])
  <2> HIDE DEF last
  <2>1. QED BY <1>1, <1>6
<1>8. shown[last].id \in {"user"} \X Turns
  <2> HIDE DEF last
  <2>1. shown[last].id \in Ids /\ shown[last].id[1] = "user"
    BY <1>7 DEF IsUser, Rows
  <2>2. QED BY <2>1, IdFacts
<1>9. QED BY <1>8

LEMMA UserActs == Submit \/ Command => Acts
BY DEF Submit, Command, NewSignal, Edit, Retry, Erase, Load, Delete

LEMMA UserTypesKept ==
    ASSUME UserTypes, [Next]_vars
    PROVE  UserTypes' /\ (hasty' = 0 => hasty = 0)
<1>1. CASE UNCHANGED user
  BY <1>1 DEF UserTypes, user
<1>2. CASE Acts /\ (UNCHANGED commands \/ (commands < MaxCommands /\ commands' = commands + 1))
  <2>1. hasty \in Nat /\ hasty <= MaxHasty /\ commands \in Nat /\ commands <= MaxCommands
    BY DEF UserTypes
  <2>2. CASE Quiet
    BY <1>2, <2>1, <2>2 DEF Acts, UserTypes
  <2>3. CASE ~Quiet
    BY <1>2, <2>1, <2>3 DEF Acts, UserTypes
  <2>4. QED BY <2>2, <2>3
<1>3. QED BY <1>1, <1>2, UserActs DEF Next, vars

\* What the parts of the types say together, the user aside.
Shapes == ViewTypes /\ TurnTypes /\ FileTypes

LEMMA DispatchTypes ==
    ASSUME Shapes, NEW n \in Turns, NEW rows \in Seq(Rows), NEW id \in {"user"} \X Turns,
           Dispatch(n, rows, id, active), UNCHANGED <<active, archive>>, cmd' \in Cmds
    PROVE  Shapes'
<1>1. ViewTypes'
  BY IdFacts DEF Shapes, ViewTypes, Dispatch
<1>2. TurnTypes'
  BY DEF Shapes, ViewTypes, TurnTypes, Dispatch
<1>3. FileTypes'
  BY DEF Shapes, FileTypes, archive
<1>4. QED BY <1>1, <1>2, <1>3 DEF Shapes

LEMMA SubmitTypes ==
    ASSUME Shapes, Submit
    PROVE  Shapes'
<1>1. PICK n \in Unsent : Dispatch(n, Append(shown, Row(UserId(n), {n})), UserId(n), active)
  BY DEF Submit
<1>2. n \in Turns /\ UserId(n) \in {"user"} \X Turns /\ UserId(n) \in Ids
  BY IdFacts DEF Unsent, UserId
<1>3. Row(UserId(n), {n}) \in Rows
  BY <1>2, RowTypes
<1>4. Append(shown, Row(UserId(n), {n})) \in Seq(Rows)
  BY <1>3 DEF Shapes, ViewTypes
<1>5. cmd' \in Cmds /\ UNCHANGED <<active, archive>>
  BY DEF Submit, Shapes, ViewTypes
<1>6. QED BY <1>1, <1>2, <1>4, <1>5, DispatchTypes

LEMMA SyncReturnsTypes ==
    ASSUME Shapes, SyncReturns
    PROVE  Shapes'
<1> DEFINE n == CHOOSE m \in Unsent : TRUE
           users == {i \in DOMAIN shown : IsUser(shown[i])}
           last == CHOOSE i \in users : \A j \in users : j <= i
           id == IF users = {} THEN UserId(n) ELSE shown[last].id
<1>1. cmd' = Idle /\ Idle \in Cmds /\ UNCHANGED <<active, archive, wire, abort>>
  BY DEF SyncReturns, Cmds
<1>2. CASE cmd.then = "retry" /\ cmd.at \in open /\ ~generating /\ Unsent # {}
  <2>1. Dispatch(n, shown, id, active)
    BY <1>2 DEF SyncReturns
  <2>2. n \in Turns
    BY <1>2 DEF Unsent
  <2>3. CASE users = {}
    <3>1. id = UserId(n) BY <2>3
    <3> HIDE DEF n, id
    <3>2. id \in {"user"} \X Turns
      BY <2>2, <3>1 DEF UserId
    <3>3. QED BY <1>1, <2>1, <2>2, <3>2, DispatchTypes DEF Shapes, ViewTypes
  <2>4. CASE users # {}
    <3>1. shown[last].id \in {"user"} \X Turns
      BY <2>4, LastUser DEF Shapes
    <3>2. id = shown[last].id
      BY <2>4
    <3> HIDE DEF n, id, last
    <3>3. id \in {"user"} \X Turns
      BY <3>1, <3>2
    <3>4. QED BY <1>1, <2>1, <2>2, <3>3, DispatchTypes DEF Shapes, ViewTypes
  <2>5. QED BY <2>3, <2>4
<1>3. CASE ~(cmd.then = "retry" /\ cmd.at \in open /\ ~generating /\ Unsent # {})
  <2>1. UNCHANGED <<shown, generating, pending, current, turn>>
    BY <1>3 DEF SyncReturns
  <2>2. QED
    BY <1>1, <2>1 DEF Shapes, ViewTypes, TurnTypes, FileTypes, turn, archive
<1>4. QED BY <1>2, <1>3

LEMMA AbortTypes == ASSUME Shapes, Abort PROVE Shapes'
BY DEF Abort, Shapes, ViewTypes, TurnTypes, FileTypes, turn, archive

LEMMA NewSignalTypes == ASSUME Shapes, NewSignal PROVE Shapes'
<1>1. <<>> \in Seq(Rows) /\ NoId \in {"bb"} \X (Turns \cup {None})
  BY IdFacts
<1>2. QED
  BY <1>1 DEF NewSignal, ClearTransient, Fresh, Shapes, ViewTypes, TurnTypes, FileTypes,
              turn, archive

LEMMA LoadTypes == ASSUME Shapes, NEW s \in Sessions, Load(s) PROVE Shapes'
<1>1. cmd' \in Cmds /\ NoId \in {"bb"} \X (Turns \cup {None})
  BY IdFacts DEF Load, Cmds, Steps
<1>2. QED
  BY <1>1 DEF Load, ClearTransient, Shapes, ViewTypes, TurnTypes, FileTypes, turn, archive

LEMMA DeleteTypes == ASSUME Shapes, NEW s \in Sessions, Delete(s) PROVE Shapes'
<1>1. cmd' \in Cmds
  BY DEF Delete, Cmds, Steps
<1>2. QED
  BY <1>1 DEF Delete, Shapes, ViewTypes, TurnTypes, FileTypes, turn, archive

\* A sync of some rows is a command.
LEMMA SyncIsCommand ==
    ASSUME Shapes, NEW rows \in Seq(Rows), NEW then \in {"nothing", "retry"}
    PROVE  [op |-> "sync", at |-> active, step |-> "file",
            entries |-> SyncEntries(rows), then |-> then] \in Cmds
<1>1. SyncEntries(rows) \in SUBSET Filed /\ active \in Sessions /\ "file" \in Steps
  BY SyncTypes DEF Shapes, ViewTypes, Steps
<1>2. QED BY <1>1 DEF Cmds

LEMMA EditTypes == ASSUME Shapes, Edit PROVE Shapes'
<1>1. cmd' \in Cmds
  BY SyncIsCommand DEF Edit, Sync, Shapes, ViewTypes
<1>2. open' \subseteq Sessions
  BY DEF Edit, Sync, Shapes, ViewTypes, FileTypes
<1>3. QED
  BY <1>1, <1>2 DEF Edit, Shapes, ViewTypes, TurnTypes, FileTypes, turn

LEMMA RetryTypes == ASSUME Shapes, Retry PROVE Shapes'
<1>1. shown' \in Seq(Rows)
  <2>1. PICK j \in DOMAIN shown : shown' = SubSeq(shown, 1, j)
    BY DEF Retry
  <2>2. shown \in Seq(Rows) /\ j \in 1 .. Len(shown) /\ Len(shown) \in Nat
    BY DEF Shapes, ViewTypes
  <2>3. QED BY <2>1, <2>2
<1>2. cmd' \in Cmds
  BY <1>1, SyncIsCommand DEF Retry, Sync
<1>3. open' \subseteq Sessions
  BY DEF Retry, Sync, Shapes, ViewTypes, FileTypes
<1>4. QED
  BY <1>1, <1>2, <1>3 DEF Retry, Shapes, ViewTypes, TurnTypes, FileTypes, turn

LEMMA EraseTypes == ASSUME Shapes, Erase PROVE Shapes'
<1>1. cmd' \in Cmds
  <2>1. PICK i \in DOMAIN shown :
           cmd' = [op |-> "erase", at |-> active, step |-> "file",
                   entries |-> {}, id |-> shown[i].id]
    BY DEF Erase
  <2>2. shown[i] \in Rows /\ active \in Sessions
    BY DEF Shapes, ViewTypes
  <2>3. shown[i].id \in Ids
    BY <2>2 DEF Rows
  <2>4. QED BY <2>1, <2>2, <2>3 DEF Cmds, Steps
<1>2. QED
  BY <1>1 DEF Erase, Shapes, ViewTypes, TurnTypes, FileTypes, turn, archive

\* What a command holds, by its kind.
LEMMA CmdIs ==
    ASSUME cmd \in Cmds, cmd # Idle
    PROVE  /\ cmd.at \in Sessions /\ cmd.step \in Steps /\ cmd.entries \in SUBSET Filed
           /\ \/ cmd \in [op : {"load", "delete"}, at : Sessions, step : Steps,
                          entries : SUBSET Filed]
              \/ /\ cmd.op = "sync"
                 /\ cmd \in [op : {"sync"}, at : Sessions, step : Steps,
                             entries : SUBSET Filed, then : {"nothing", "retry"}]
              \/ /\ cmd.op = "erase"
                 /\ cmd \in [op : {"erase"}, at : Sessions, step : Steps,
                             entries : SUBSET Filed, id : Ids]
BY DEF Cmds

LEMMA CmdFileTypes == ASSUME Shapes, CmdFile PROVE Shapes' /\ cmd' # Idle
<1>1. cmd \in Cmds /\ cmd # Idle /\ file \in [Sessions -> SUBSET Filed]
  BY DEF CmdFile, Shapes, ViewTypes, FileTypes
<1>2. cmd.at \in Sessions /\ cmd.entries \in SUBSET Filed /\ file[cmd.at] \in SUBSET Filed
  BY <1>1, CmdIs
<1>3. cmd' \in Cmds /\ cmd' # Idle /\ file' \in [Sessions -> SUBSET Filed]
  <2>1. CASE /\ cmd.op = "sync"
             /\ file' = [file EXCEPT ![cmd.at] = cmd.entries]
             /\ cmd' = [cmd EXCEPT !.step = "back"]
    <3>1. cmd \in [op : {"sync"}, at : Sessions, step : Steps,
                   entries : SUBSET Filed, then : {"nothing", "retry"}]
      BY <1>1, <2>1, CmdIs
    <3>2. cmd' \in [op : {"sync"}, at : Sessions, step : Steps,
                    entries : SUBSET Filed, then : {"nothing", "retry"}]
      BY <2>1, <3>1 DEF Steps
    <3>3. QED BY <1>1, <1>2, <2>1, <3>2 DEF Cmds, Idle
  <2>2. CASE /\ cmd.op = "delete"
             /\ file' = [file EXCEPT ![cmd.at] = NoFile]
             /\ cmd' = [cmd EXCEPT !.step = "back"]
    <3>1. cmd \in [op : {"load", "delete"}, at : Sessions, step : Steps, entries : SUBSET Filed]
      BY <1>1, <2>2, CmdIs
    <3>2. cmd' \in [op : {"load", "delete"}, at : Sessions, step : Steps, entries : SUBSET Filed]
      BY <2>2, <3>1 DEF Steps
    <3>3. QED BY <1>1, <1>2, <2>2, <3>2, NoFileIs DEF Cmds, Idle
  <2>3. CASE /\ cmd.op = "load"
             /\ cmd' = [cmd EXCEPT !.step = "back",
                          !.entries = IF file[cmd.at] = NoFile THEN {} ELSE file[cmd.at]]
             /\ UNCHANGED file
    <3>1. cmd \in [op : {"load", "delete"}, at : Sessions, step : Steps, entries : SUBSET Filed]
      BY <1>1, <2>3, CmdIs
    <3>2. cmd' \in [op : {"load", "delete"}, at : Sessions, step : Steps, entries : SUBSET Filed]
      BY <1>2, <2>3, <3>1 DEF Steps
    <3>3. QED BY <1>1, <2>3, <3>2 DEF Cmds, Idle
  <2>4. CASE /\ cmd.op = "erase"
             /\ cmd' = [cmd EXCEPT !.step = "back", !.entries = file[cmd.at]]
             /\ file' = IF file[cmd.at] = NoFile THEN file
                        ELSE [file EXCEPT ![cmd.at] = {e \in @ : e.id # cmd.id}]
    <3>1. cmd \in [op : {"erase"}, at : Sessions, step : Steps, entries : SUBSET Filed, id : Ids]
      BY <1>1, <2>4, CmdIs
    <3>2. cmd' \in [op : {"erase"}, at : Sessions, step : Steps, entries : SUBSET Filed, id : Ids]
      BY <1>2, <2>4, <3>1 DEF Steps
    <3>3. {e \in file[cmd.at] : e.id # cmd.id} \in SUBSET Filed
      BY <1>2
    <3>4. file' \in [Sessions -> SUBSET Filed]
      BY <1>1, <2>4, <3>3
    <3>5. QED BY <3>2, <3>4 DEF Cmds, Idle
  <2>5. QED BY <2>1, <2>2, <2>3, <2>4 DEF CmdFile
<1>4. QED
  BY <1>3 DEF CmdFile, Shapes, ViewTypes, TurnTypes, FileTypes, turn

LEMMA LoadReturnsTypes == ASSUME Shapes, LoadReturns PROVE Shapes'
<1>1. cmd \in Cmds /\ cmd # Idle
  BY DEF LoadReturns, Returned, Shapes, ViewTypes
<1>2. cmd.at \in Sessions /\ cmd.entries \in SUBSET Filed
  BY <1>1, CmdIs
<1>3. shown' \in Seq(Rows)
  BY <1>2, RowsOfIs DEF LoadReturns
<1>4. Idle \in Cmds
  BY DEF Cmds
<1>5. QED
  BY <1>2, <1>3, <1>4 DEF LoadReturns, Shapes, ViewTypes, TurnTypes, FileTypes, turn

LEMMA DeleteReturnsTypes == ASSUME Shapes, DeleteReturns PROVE Shapes'
<1>1. Idle \in Cmds /\ <<>> \in Seq(Rows) /\ NoId \in {"bb"} \X (Turns \cup {None})
  BY IdFacts DEF Cmds
<1>2. ViewTypes'
  <2>1. CASE active = cmd.at
    BY <1>1, <2>1 DEF DeleteReturns, ClearTransient, Fresh, Shapes, ViewTypes
  <2>2. CASE active # cmd.at
    BY <1>1, <2>2 DEF DeleteReturns, Shapes, ViewTypes
  <2>3. QED BY <2>1, <2>2
<1>3. QED
  BY <1>2 DEF DeleteReturns, Shapes, TurnTypes, FileTypes, turn

LEMMA EraseReturnsTypes == ASSUME Shapes, EraseReturns PROVE Shapes'
<1>1. cmd \in Cmds /\ cmd # Idle
  BY DEF EraseReturns, Returned, Shapes, ViewTypes
<1>2. cmd.at \in Sessions
  BY <1>1, CmdIs
<1>3. Without(shown, cmd.id) \in Seq(Rows)
  BY WithoutIs DEF Shapes, ViewTypes
<1>4. shown' = Without(shown, cmd.id)
      /\ cmd' = [op |-> "sync", at |-> active, step |-> "file",
                 entries |-> SyncEntries(Without(shown, cmd.id)), then |-> "nothing"]
  BY DEF EraseReturns
<1>5. shown' \in Seq(Rows) /\ cmd' \in Cmds
  BY <1>3, <1>4, SyncIsCommand
<1>6. current' \in {"bb"} \X (Turns \cup {None}) /\ generating' \in BOOLEAN
  BY IdFacts DEF EraseReturns, Shapes, ViewTypes
<1>7. open' \subseteq Sessions
  BY <1>2 DEF EraseReturns, Shapes, ViewTypes, FileTypes
<1>8. QED
  BY <1>5, <1>6, <1>7 DEF EraseReturns, Shapes, ViewTypes, TurnTypes, FileTypes, turn

\* A row replaced by another one.
LEMMA ReplacedRow ==
    ASSUME NEW rows \in Seq(Rows), NEW k \in DOMAIN rows, NEW r \in Rows
    PROVE  /\ [rows EXCEPT ![k] = r] \in Seq(Rows)
           /\ DOMAIN [rows EXCEPT ![k] = r] = DOMAIN rows
           /\ Len([rows EXCEPT ![k] = r]) = Len(rows)
           /\ [rows EXCEPT ![k] = r][k] = r
           /\ \A i \in DOMAIN rows : i # k => [rows EXCEPT ![k] = r][i] = rows[i]
OBVIOUS

\* new is what rows become when the text of the last row is replaced.
LastBecomes(new, rows, text) ==
    /\ new \in Seq(Rows) /\ DOMAIN new = DOMAIN rows /\ Len(new) = Len(rows)
    /\ new[Len(rows)] \in Rows
    /\ new[Len(rows)].id = rows[Len(rows)].id /\ new[Len(rows)].text = text
    /\ new[Len(rows)].aborted = rows[Len(rows)].aborted
    /\ \A i \in DOMAIN rows : i # Len(rows) => new[i] = rows[i]

LEMMA RefuseIs ==
    ASSUME ViewTypes, NEW n \in Turns, Refuse(n)
    PROVE  LastBecomes(shown', EnsureRow, {})
<1> DEFINE rows == EnsureRow
           k == Len(rows)
           r == [rows[k] EXCEPT !.text = {}, !.loading = FALSE]
<1>1. rows \in Seq(Rows) /\ k \in DOMAIN rows /\ rows[k] \in Rows
  BY EnsureRowIs
<1>2. shown' = [rows EXCEPT ![k].text = {}, ![k].loading = FALSE]
  BY DEF Refuse
<1> HIDE DEF rows, k
<1>3. r \in Rows /\ r.id = rows[k].id /\ r.text = {} /\ r.aborted = rows[k].aborted
  BY <1>1 DEF Rows
<1>4. shown' = [rows EXCEPT ![k] = r]
  BY <1>1, <1>2
<1> HIDE DEF r
<1>5. /\ shown' \in Seq(Rows) /\ DOMAIN shown' = DOMAIN rows /\ Len(shown') = Len(rows)
      /\ shown'[k] = r /\ \A i \in DOMAIN rows : i # k => shown'[i] = rows[i]
  BY <1>1, <1>3, <1>4, ReplacedRow
<1>6. QED BY <1>3, <1>5 DEF LastBecomes, rows, k

LEMMA OnChunkIs ==
    ASSUME ViewTypes, wire \in Seq(Events), OnChunk
    PROVE  /\ LastBecomes(shown', EnsureRow,
                          EnsureRow[Len(EnsureRow)].text \cup {Head(wire).turn})
           /\ Head(wire) \in Events
<1> DEFINE rows == EnsureRow
           k == Len(rows)
           n == Head(wire).turn
           r == [rows[k] EXCEPT !.text = @ \cup {n}]
<1>1. rows \in Seq(Rows) /\ k \in DOMAIN rows /\ rows[k] \in Rows
  BY EnsureRowIs
<1>2. Head(wire) \in Events /\ n \in Turns
  <2>1. wire # <<>>
    BY DEF OnChunk
  <2>2. Head(wire) \in Events
    BY <2>1
  <2>3. QED BY <2>2 DEF Events
<1>3. shown' = [rows EXCEPT ![k].text = @ \cup {n}]
  BY DEF OnChunk
<1> HIDE DEF rows, k, n
<1>4. r \in Rows /\ r.id = rows[k].id /\ r.text = rows[k].text \cup {n}
      /\ r.aborted = rows[k].aborted
  BY <1>1, <1>2 DEF Rows
<1>5. shown' = [rows EXCEPT ![k] = r]
  BY <1>1, <1>3
<1> HIDE DEF r
<1>6. /\ shown' \in Seq(Rows) /\ DOMAIN shown' = DOMAIN rows /\ Len(shown') = Len(rows)
      /\ shown'[k] = r /\ \A i \in DOMAIN rows : i # k => shown'[i] = rows[i]
  BY <1>1, <1>4, <1>5, ReplacedRow
<1>7. QED BY <1>2, <1>4, <1>6 DEF LastBecomes, rows, k, n

LEMMA OnDoneIs ==
    ASSUME ViewTypes, OnDone
    PROVE  /\ shown' \in Seq(Rows) /\ DOMAIN shown' = DOMAIN shown /\ Len(shown') = Len(shown)
           /\ \A i \in DOMAIN shown :
                IF shown[i].id = current
                THEN /\ shown'[i].id = shown[i].id /\ shown'[i].text = shown[i].text
                     /\ ~shown'[i].loading
                     /\ Head(wire).what # "aborted" => shown'[i].aborted = shown[i].aborted
                ELSE shown'[i] = shown[i]
<1> DEFINE stopped == Head(wire).what = "aborted"
           Settle(row) == IF row.id = current
                          THEN [row EXCEPT !.loading = FALSE, !.aborted = @ \/ stopped]
                          ELSE row
<1>1. shown' = [i \in DOMAIN shown |-> Settle(shown[i])]
  BY DEF OnDone
<1>2. shown \in Seq(Rows) /\ DOMAIN shown = 1 .. Len(shown) /\ Len(shown) \in Nat
  BY DEF ViewTypes
<1>3. ASSUME NEW row \in Rows
      PROVE  /\ Settle(row) \in Rows
             /\ IF row.id = current
                THEN /\ Settle(row).id = row.id /\ Settle(row).text = row.text
                     /\ ~Settle(row).loading
                     /\ ~stopped => Settle(row).aborted = row.aborted
                ELSE Settle(row) = row
  <2> HIDE DEF stopped
  <2>1. CASE row.id = current
    BY <2>1 DEF Rows
  <2>2. CASE row.id # current
    BY <2>2
  <2>3. QED BY <2>1, <2>2
<1> HIDE DEF Settle
<1>4. \A i \in DOMAIN shown : shown[i] \in Rows
  BY <1>2
<1>5. shown' \in Seq(Rows) /\ DOMAIN shown' = DOMAIN shown /\ Len(shown') = Len(shown)
  BY <1>1, <1>2, <1>3, <1>4
<1>6. \A i \in DOMAIN shown : shown'[i] = Settle(shown[i])
  BY <1>1
<1>7. QED BY <1>3, <1>4, <1>5, <1>6

LEMMA RefuseTypes ==
    ASSUME Shapes, NEW n \in Turns, Refuse(n)
    PROVE  Shapes'
<1>1. shown' \in Seq(Rows)
  BY RefuseIs DEF Shapes, LastBecomes
<1>2. NoId \in {"bb"} \X (Turns \cup {None})
  BY IdFacts
<1>3. QED
  BY <1>1, <1>2 DEF Refuse, ClearTransient, Shapes, ViewTypes, TurnTypes, FileTypes, archive

LEMMA OnChunkTypes ==
    ASSUME Shapes, wire \in Seq(Events), OnChunk
    PROVE  Shapes'
<1>1. shown' \in Seq(Rows)
  BY OnChunkIs DEF Shapes, LastBecomes
<1>2. EnsureRow[Len(EnsureRow)].id \in {"bb"} \X (Turns \cup {None})
  BY EnsureRowIs, IdFacts DEF Shapes, ViewTypes
<1>3. QED
  BY <1>1, <1>2 DEF OnChunk, Shapes, ViewTypes, TurnTypes, FileTypes, turn, archive

LEMMA OnDoneTypes == ASSUME Shapes, OnDone PROVE Shapes'
<1>1. shown' \in Seq(Rows) /\ NoId \in {"bb"} \X (Turns \cup {None})
  BY OnDoneIs, IdFacts DEF Shapes
<1>2. QED
  BY <1>1 DEF OnDone, ClearTransient, Shapes, ViewTypes, TurnTypes, FileTypes, turn, archive

LEMMA EntriesOfIs ==
    ASSUME TurnTypes, NEW n \in Turns
    PROVE  /\ EntriesOf(n) \in SUBSET Filed
           /\ \A m \in Turns : Answer(m) \in EntriesOf(n) <=> m = n /\ IsReply(end[n])
<1>1. asked[n] \in {"user"} \X Turns
  BY DEF TurnTypes
<1>2. asked[n] \in Ids /\ {asked[n][2]} \in SUBSET Turns
      /\ ReplyId(n) \in Ids /\ {n} \in SUBSET Turns
  BY <1>1, IdFacts
<1>3. Entry(asked[n], {asked[n][2]}) \in Filed /\ Entry(ReplyId(n), {n}) \in Filed
  BY <1>2, RowTypes
<1>4. ASSUME NEW m \in Turns
      PROVE  Answer(m) # Entry(asked[n], {asked[n][2]})
  <2>1. ReplyId(m) # asked[n]
    BY <1>1 DEF ReplyId
  <2>2. QED BY <2>1, EntryIs DEF Answer
<1>5. ASSUME NEW m \in Turns
      PROVE  Answer(m) = Entry(ReplyId(n), {n}) <=> m = n
  <2>1. ASSUME Entry(ReplyId(m), {m}) = Entry(ReplyId(n), {n}) PROVE m = n
    <3>1. ReplyId(m) = ReplyId(n)
      BY <2>1, EntryIs
    <3>2. QED BY <3>1, IdFacts
  <2>2. QED BY <2>1 DEF Answer
<1>6. QED BY <1>3, <1>4, <1>5 DEF EntriesOf

LEMMA BeforeIs ==
    ASSUME TurnTypes, FileTypes, NEW n \in Turns
    PROVE  /\ Before(n) \in SUBSET Filed
           /\ \A m \in Turns : Answer(m) \in Before(n) <=> Answer(m) \in file[home[n]]
BY NoFileIs DEF Before, TurnTypes, FileTypes

\* The steps of a turn behind the webview.
LEMMA TurnStepTypes ==
    ASSUME Shapes, NEW n \in Turns,
           \/ Evaluate(n) \/ Chunk(n) \/ Close(n) \/ AppendRead(n) \/ AppendWrite(n)
           \/ \E how \in Endings(n) : EndStream(n, how)
    PROVE  Shapes'
<1>1. CASE Evaluate(n)
  BY <1>1 DEF Evaluate, webview, Shapes, ViewTypes, TurnTypes, FileTypes
<1>2. CASE Chunk(n)
  BY <1>2 DEF Chunk, webview, archive, Shapes, ViewTypes, TurnTypes, FileTypes
<1>3. CASE Close(n)
  BY <1>3 DEF Close, webview, Shapes, ViewTypes, TurnTypes, FileTypes
<1>4. CASE AppendRead(n)
  <2>1. Before(n) \cup EntriesOf(n) \in SUBSET Filed
    BY BeforeIs, EntriesOfIs DEF Shapes
  <2>2. QED
    BY <1>4, <2>1 DEF AppendRead, webview, turn, Shapes, ViewTypes, TurnTypes, FileTypes
<1>5. CASE AppendWrite(n)
  BY <1>5 DEF AppendWrite, webview, turn, Shapes, ViewTypes, TurnTypes, FileTypes
<1>6. ASSUME NEW how \in Endings(n), EndStream(n, how) PROVE Shapes'
  BY <1>6 DEF EndStream, webview, archive, Shapes, ViewTypes, TurnTypes, FileTypes
<1>7. QED BY <1>1, <1>2, <1>3, <1>4, <1>5, <1>6

LEMMA TypesKept ==
    ASSUME Types, CoreTypeOK, [Next]_vars
    PROVE  Types'
<1>1. Shapes /\ UserTypes'
  BY UserTypesKept DEF Types, Shapes
<1>2. CASE UNCHANGED vars
  BY <1>1, <1>2 DEF vars, webview, turn, archive, Shapes, ViewTypes, TurnTypes, FileTypes, Types
<1>3. Submit => Shapes'
  BY <1>1, SubmitTypes
<1>4. Command => Shapes'
  BY <1>1, NewSignalTypes, EditTypes, RetryTypes, EraseTypes, LoadTypes, DeleteTypes DEF Command
<1>5. System => Shapes'
  <2>1. wire \in Seq(Events)
    BY DEF CoreTypeOK
  <2>2. Abort \/ CmdFile \/ Finish \/ OnChunk \/ OnDone => Shapes'
    BY <1>1, <2>1, AbortTypes, CmdFileTypes, LoadReturnsTypes, DeleteReturnsTypes,
       SyncReturnsTypes, EraseReturnsTypes, OnChunkTypes, OnDoneTypes DEF Finish
  <2>3. ASSUME NEW n \in Turns PROVE Refuse(n) => Shapes'
    BY <1>1, RefuseTypes
  <2>4. ASSUME NEW n \in Turns,
               \/ Evaluate(n) \/ Chunk(n) \/ Close(n) \/ AppendRead(n) \/ AppendWrite(n)
               \/ \E how \in Endings(n) : EndStream(n, how)
        PROVE  Shapes'
    BY <1>1, <2>4, TurnStepTypes
  <2>5. QED BY <2>2, <2>3, <2>4 DEF System
<1>6. QED BY <1>1, <1>2, <1>3, <1>4, <1>5 DEF Next, Types, Shapes

LEMMA TypesSuffice == Types /\ CoreTypeOK => TypeOK
<1> SUFFICES ASSUME Types, CoreTypeOK PROVE TypeOK
  OBVIOUS
<1>1. \A i \in DOMAIN shown : Entry(shown[i].id, shown[i].text) \in Entries
  <2>1. ASSUME NEW i \in DOMAIN shown
        PROVE  shown[i].id \in {"user", "bb"} \X (Turns \cup {None}) /\ shown[i].text \in SUBSET Turns
    <3>1. shown[i] \in Rows
      BY DEF Types, ViewTypes
    <3>2. shown[i].id \in Ids /\ shown[i].text \in SUBSET Turns
      BY <3>1 DEF Rows
    <3>3. QED BY <3>2 DEF Ids
  <2>2. QED BY <2>1 DEF Entry, Entries
<1>2. Filed \subseteq Entries
  BY DEF Filed, Entries, Ids
<1>3. cmd # Idle => cmd.at \in Sessions /\ cmd.step \in {"file", "back"}
  BY CmdIs DEF Types, ViewTypes, Steps
<1>4. \A i \in DOMAIN wire : wire[i] \in Events
  BY DEF CoreTypeOK
<1>5. \A s \in Sessions : file[s] \subseteq Entries
  BY <1>2 DEF Types, FileTypes
<1>6. QED
  BY <1>1, <1>3, <1>4, <1>5
     DEF TypeOK, Types, ViewTypes, TurnTypes, FileTypes, UserTypes, CoreTypeOK, Stages

-----------------------------------------------------------------------------
(* Of a user who waits there is one thing at a time: a turn or a command *)

OnWire(n) == \E i \in DOMAIN wire : wire[i].turn = n

\* Something of the turn is still to come.
Busy(n) ==
    \/ stage[n] \notin {"unsent", "ended"}
    \/ append[n] \in {"queued", "read"}
    \/ OnWire(n)

Settled(n) == stage[n] = "ended" /\ IsReply(end[n]) /\ ~Busy(n)

\* The file and the webview agree on the reply of the turn.
Agrees(n) == Answer(n) \in file[active] <=> Holds(shown, n)

\* What a turn has done by the stage it is in.
LifeOf(n) ==
    /\ stage[n] \in {"unsent", "asked"} => sent[n] = 0 /\ ~OnWire(n)
    /\ stage[n] # "ended" => append[n] = "none"
    /\ stage[n] = "closing" /\ IsReply(end[n]) => sent[n] > 0
    /\ stage[n] = "ended" /\ IsReply(end[n]) => append[n] # "none"

Life == \A n \in Turns : LifeOf(n)

\* The row of the reply is the last one, and the current one.
Begun(n) ==
    /\ current = ReplyId(n) /\ LastIs(shown, current)
    /\ shown[Len(shown)].text = {n} /\ ~shown[Len(shown)].aborted

\* The row of the reply is still to be made.
Waiting(n) == current = NoId /\ pending = n

\* While the reply is read, its chunks are on the wire, and no end.
Replying(n) ==
    /\ \A i \in DOMAIN wire : wire[i].what = "chunk"
    /\ Begun(n) \/ (Waiting(n) /\ (sent[n] > 0 => wire # <<>>))

\* Once it is read, its end is the last thing on the wire; then the row is whole.
Replied(n) ==
    IF wire = <<>> THEN Holds(shown, n)
    ELSE /\ \A i \in DOMAIN wire : wire[i].what = IF i = Len(wire) THEN "done" ELSE "chunk"
         /\ Begun(n) \/ (Waiting(n) /\ Len(wire) > 1)

\* What the thread is about to write is the file and what the turn adds to it.
Drafted(n) ==
    \A m \in Turns :
        Answer(m) \in draft[n] <=> Answer(m) \in file[active] \/ (m = n /\ IsReply(end[n]))

Flight(n) ==
    /\ home[n] = active
    /\ current \in {NoId, ReplyId(n)} /\ pending \in {None, n}
    /\ stage[n] = "asked" => Waiting(n)
    /\ stage[n] = "streaming" \/ (stage[n] = "closing" /\ IsReply(end[n])) => Replying(n)
    /\ stage[n] = "ended" /\ IsReply(end[n]) =>
          Replied(n) /\ (append[n] = "written" => Answer(n) \in file[active])
    /\ append[n] = "read" => Drafted(n)

\* No command stands between the file and the webview.
Coherent ==
    \/ cmd = Idle
    \/ cmd.op = "delete" /\ cmd.at # active
    \/ cmd.op = "sync" /\ cmd.step = "back"

OneAtATime == \A n, m \in Turns : Busy(n) /\ Busy(m) => n = m

CommandAlone == cmd # Idle => \A n \in Turns : ~Busy(n)

\* What a command carries between the two.
Carries ==
    /\ cmd.op = "load" /\ cmd.step = "back" =>
          \A n \in Turns : Answer(n) \in cmd.entries <=> Answer(n) \in file[cmd.at]
    /\ cmd.op = "sync" =>
          cmd.at = active /\ (cmd.step = "file" => cmd.entries = SyncEntries(shown))

Agreement == Coherent => \A n \in Turns : Settled(n) /\ home[n] = active => Agrees(n)

InFlight == \A n \in Turns : Busy(n) => Flight(n)

Tidy == OneAtATime /\ CommandAlone /\ Carries /\ Agreement /\ InFlight

Orderly == Life /\ (hasty = 0 => Tidy)

\* Nothing but the turn moves.
Others(n) ==
    \A m \in Turns : m # n =>
        /\ stage'[m] = stage[m] /\ end'[m] = end[m] /\ sent'[m] = sent[m]
        /\ append'[m] = append[m]
        /\ OnWire(m)' <=> OnWire(m)

LEMMA OthersStay ==
    ASSUME NEW n \in Turns, Others(n), NEW m \in Turns, m # n
    PROVE  /\ Busy(m)' <=> Busy(m)
           /\ Settled(m)' <=> Settled(m)
           /\ LifeOf(m)' <=> LifeOf(m)
<1>1. /\ stage'[m] = stage[m] /\ end'[m] = end[m] /\ sent'[m] = sent[m]
      /\ append'[m] = append[m]
      /\ OnWire(m)' <=> OnWire(m)
  BY DEF Others
<1>2. Busy(m)' <=> Busy(m)
  BY <1>1 DEF Busy
<1>3. Settled(m)' <=> Settled(m)
  BY <1>1, <1>2 DEF Settled
<1>4. LifeOf(m)' <=> LifeOf(m)
  BY <1>1 DEF LifeOf
<1>5. QED BY <1>2, <1>3, <1>4

\* A step of the turn that is under way keeps the order.
LEMMA TidyTurn ==
    ASSUME NEW n \in Turns, Tidy, Busy(n), Others(n), UNCHANGED <<active, cmd, home>>,
           \A m \in Turns : m # n /\ Settled(m) /\ home[m] = active => (Agrees(m)' <=> Agrees(m)),
           Busy(n)' => Flight(n)',
           Settled(n)' => Agrees(n)'
    PROVE  Tidy'
<1>1. cmd = Idle /\ cmd' = Idle
  BY DEF Tidy, CommandAlone
<1>2. \A m \in Turns : Busy(m) => m = n
  BY DEF Tidy, OneAtATime
<1>3. \A m \in Turns : m # n => ~Busy(m)'
  BY <1>2, OthersStay
<1>4. OneAtATime'
  BY <1>3 DEF OneAtATime
<1>5. CommandAlone' /\ Carries'
  BY <1>1 DEF CommandAlone, Carries, Idle
<1>6. InFlight'
  BY <1>3 DEF InFlight
<1>7. Agreement'
  <2>1. ASSUME NEW m \in Turns, Settled(m)', home'[m] = active' PROVE Agrees(m)'
    <3>1. CASE m = n BY <2>1, <3>1
    <3>2. CASE m # n
      <4>1. Settled(m) /\ home[m] = active
        BY <2>1, <3>2, OthersStay
      <4>2. Agrees(m)
        BY <1>1, <4>1 DEF Tidy, Agreement, Coherent
      <4>3. QED BY <3>2, <4>1, <4>2
    <3>3. QED BY <3>1, <3>2
  <2>2. QED BY <2>1 DEF Agreement
<1>8. QED BY <1>4, <1>5, <1>6, <1>7 DEF Tidy

LEMMA LifeTurn ==
    ASSUME NEW n \in Turns, Life, Others(n), LifeOf(n)'
    PROVE  Life'
<1>1. \A m \in Turns : LifeOf(m)'
  BY OthersStay DEF Life
<1>2. QED BY <1>1 DEF Life

\* What is on the wire is the turn's that is under way.
LEMMA WireIsOf ==
    ASSUME wire \in Seq(Events), Tidy, NEW n \in Turns, Busy(n)
    PROVE  \A i \in DOMAIN wire : wire[i].turn = n
<1>1. ASSUME NEW i \in DOMAIN wire PROVE wire[i].turn = n
  <2>1. wire[i] \in Events
    OBVIOUS
  <2>2. wire[i].turn \in Turns
    BY <2>1 DEF Events
  <2>3. OnWire(wire[i].turn)
    BY DEF OnWire
  <2>4. QED BY <2>2, <2>3 DEF Tidy, OneAtATime, Busy
<1>2. QED BY <1>1

LEMMA WireAppended ==
    ASSUME wire \in Seq(Events), NEW v \in Seq(Events), wire' = wire \o v
    PROVE  /\ DOMAIN wire = 1 .. Len(wire) /\ Len(wire) \in Nat /\ Len(v) \in Nat
           /\ DOMAIN v = 1 .. Len(v)
           /\ Len(wire') = Len(wire) + Len(v) /\ DOMAIN wire' = 1 .. Len(wire) + Len(v)
           /\ \A i \in DOMAIN wire : wire'[i] = wire[i]
           /\ \A i \in DOMAIN v : wire'[Len(wire) + i] = v[i]
           /\ \A i \in DOMAIN wire' : i \in DOMAIN wire \/ \E j \in DOMAIN v : i = Len(wire) + j
<1>1. \A i \in DOMAIN wire' : i \notin DOMAIN wire => i - Len(wire) \in DOMAIN v
  OBVIOUS
<1>2. \A i \in DOMAIN wire' : i = Len(wire) + (i - Len(wire))
  OBVIOUS
<1>3. QED BY <1>1, <1>2

LEMMA WireTail ==
    ASSUME wire \in Seq(Events), wire # <<>>, wire' = Tail(wire)
    PROVE  /\ wire' \in Seq(Events) /\ Head(wire) = wire[1] /\ 1 \in DOMAIN wire
           /\ DOMAIN wire = 1 .. Len(wire) /\ Len(wire) \in Nat \ {0}
           /\ Len(wire') = Len(wire) - 1 /\ DOMAIN wire' = 1 .. Len(wire) - 1
           /\ \A i \in DOMAIN wire' : i + 1 \in DOMAIN wire /\ wire'[i] = wire[i + 1]
           /\ \A i \in DOMAIN wire : i # 1 => i - 1 \in DOMAIN wire' /\ wire[i] = wire'[i - 1]
OBVIOUS

\* Events of the turn come and go without the others.
LEMMA OthersOnWire ==
    ASSUME wire \in Seq(Events), NEW n \in Turns,
           \/ wire' = wire
           \/ \E v \in Seq(Events) : wire' = wire \o v /\ \A i \in DOMAIN v : v[i].turn = n
           \/ wire # <<>> /\ wire' = Tail(wire) /\ Head(wire).turn = n
    PROVE  \A m \in Turns : m # n => (OnWire(m)' <=> OnWire(m))
<1> SUFFICES ASSUME NEW m \in Turns, m # n PROVE OnWire(m)' <=> OnWire(m)
  OBVIOUS
<1>1. CASE wire' = wire
  BY <1>1 DEF OnWire
<1>2. ASSUME NEW v \in Seq(Events), wire' = wire \o v, \A i \in DOMAIN v : v[i].turn = n
      PROVE  OnWire(m)' <=> OnWire(m)
  <2>1. /\ \A i \in DOMAIN wire : i \in DOMAIN wire' /\ wire'[i] = wire[i]
        /\ \A i \in DOMAIN wire' : i \in DOMAIN wire \/ wire'[i].turn = n
    BY <1>2, WireAppended
  <2>2. QED BY <2>1 DEF OnWire
<1>3. CASE wire # <<>> /\ wire' = Tail(wire) /\ Head(wire).turn = n
  <2>1. /\ \A i \in DOMAIN wire' : i + 1 \in DOMAIN wire /\ wire'[i] = wire[i + 1]
        /\ \A i \in DOMAIN wire : i # 1 => i - 1 \in DOMAIN wire' /\ wire[i] = wire'[i - 1]
        /\ wire[1].turn = n
    BY <1>3, WireTail
  <2>2. ASSUME OnWire(m)' PROVE OnWire(m)
    <3>1. PICK i \in DOMAIN wire' : wire'[i].turn = m
      BY <2>2 DEF OnWire
    <3>2. i + 1 \in DOMAIN wire /\ wire[i + 1].turn = m
      BY <2>1, <3>1
    <3>3. QED BY <3>2 DEF OnWire
  <2>3. ASSUME OnWire(m) PROVE OnWire(m)'
    <3>1. PICK i \in DOMAIN wire : wire[i].turn = m
      BY <2>3 DEF OnWire
    <3>2. i # 1
      BY <2>1, <3>1
    <3>3. i - 1 \in DOMAIN wire' /\ wire'[i - 1].turn = m
      BY <2>1, <3>1, <3>2
    <3>4. QED BY <3>3 DEF OnWire
  <2>4. QED BY <2>2, <2>3
<1>4. QED BY <1>1, <1>2, <1>3

-----------------------------------------------------------------------------
(* The steps of a turn behind the webview *)

Base == CoreTypeOK /\ Shapes /\ Life

LEMMA EvaluateTidy ==
    ASSUME Base, NEW n \in Turns, Evaluate(n)
    PROVE  Life' /\ (Tidy => Tidy')
<1>1. /\ stage[n] = "asked" /\ stage' = [stage EXCEPT ![n] = "streaming"]
      /\ UNCHANGED <<active, shown, pending, current, cmd, wire, home, sent, end, append,
                     draft, file>>
  BY DEF Evaluate, webview
<1>2. stage \in [Turns -> Stages] /\ wire \in Seq(Events)
  BY DEF Base, CoreTypeOK
<1>3. Others(n)
  BY <1>1, <1>2 DEF Others, OnWire
<1>4. stage'[n] = "streaming" /\ sent[n] = 0 /\ ~OnWire(n) /\ append[n] = "none"
  BY <1>1, <1>2 DEF Base, Life, LifeOf
<1>5. Life'
  <2>1. LifeOf(n)'
    BY <1>1, <1>4 DEF LifeOf
  <2>2. QED BY <1>3, <2>1, LifeTurn DEF Base
<1>6. ASSUME Tidy PROVE Tidy'
  <2>1. Busy(n) /\ Flight(n)
    BY <1>1, <1>6 DEF Busy, Tidy, InFlight
  <2>2. DOMAIN wire = {}
    BY <1>2, <1>4, <1>6, <2>1, WireIsOf DEF OnWire
  <2>3. Replying(n)'
    <3>1. Waiting(n)
      BY <1>1, <2>1 DEF Flight
    <3>2. Waiting(n)' /\ sent'[n] = 0 /\ DOMAIN wire' = {}
      BY <1>1, <1>4, <2>2, <3>1 DEF Waiting
    <3>3. QED BY <3>2 DEF Replying
  <2>4. Flight(n)'
    BY <1>1, <1>4, <2>1, <2>3 DEF Flight
  <2>5. ~Settled(n)'
    BY <1>4 DEF Settled
  <2>6. \A m \in Turns : Agrees(m)' <=> Agrees(m)
    BY <1>1 DEF Agrees, Holds
  <2>7. QED BY <1>1, <1>3, <1>6, <2>1, <2>4, <2>5, <2>6, TidyTurn
<1>7. QED BY <1>5, <1>6

LEMMA ChunkTidy ==
    ASSUME Base, NEW n \in Turns, Chunk(n)
    PROVE  Life' /\ (Tidy => Tidy')
<1> DEFINE v == <<Event("chunk", n)>>
<1>1. /\ stage[n] = "streaming" /\ sent' = [sent EXCEPT ![n] = @ + 1]
      /\ wire' = Append(wire, Event("chunk", n))
      /\ UNCHANGED <<active, shown, pending, current, cmd, stage, home, end, append, draft, file>>
  BY DEF Chunk, webview, archive
<1>2. wire \in Seq(Events) /\ sent \in [Turns -> 0 .. Length]
  BY DEF Base, CoreTypeOK, Shapes, TurnTypes
<1>3. /\ v \in Seq(Events) /\ \A i \in DOMAIN v : v[i].turn = n
      /\ wire' = wire \o v /\ DOMAIN v = {1} /\ v[1].what = "chunk" /\ Len(v) = 1
  <2>1. Event("chunk", n) \in Events /\ Event("chunk", n).turn = n
        /\ Event("chunk", n).what = "chunk"
    BY EventTypes DEF Event
  <2> DEFINE e == Event("chunk", n)
  <2>2. wire' = Append(wire, e) /\ v = <<e>>
    BY <1>1
  <2> HIDE DEF e, v
  <2>3. Append(wire, e) = wire \o <<e>>
    BY <1>2, <2>1 DEF e
  <2>4. <<e>> \in Seq(Events) /\ DOMAIN <<e>> = {1} /\ <<e>>[1] = e /\ Len(<<e>>) = 1
    BY <2>1 DEF e
  <2>5. QED BY <2>1, <2>2, <2>3, <2>4 DEF e
<1> HIDE DEF v
<1>4. Others(n)
  <2>1. \A m \in Turns : m # n => (OnWire(m)' <=> OnWire(m))
    BY <1>2, <1>3, OthersOnWire
  <2>2. \A m \in Turns : m # n => sent'[m] = sent[m]
    BY <1>1, <1>2
  <2>3. QED BY <1>1, <2>1, <2>2 DEF Others
<1>5. Life'
  <2>1. append[n] = "none"
    BY <1>1 DEF Base, Life, LifeOf
  <2>2. LifeOf(n)'
    BY <1>1, <2>1 DEF LifeOf
  <2>3. QED BY <1>4, <2>2, LifeTurn DEF Base
<1>6. ASSUME Tidy PROVE Tidy'
  <2>1. Busy(n) /\ Flight(n)
    BY <1>1, <1>6 DEF Busy, Tidy, InFlight
  <2>2. Replying(n)
    BY <1>1, <2>1 DEF Flight
  <2>3. /\ wire' # <<>>
        /\ \A i \in DOMAIN wire' : wire'[i].what = "chunk"
    <3>1. /\ \A i \in DOMAIN wire : wire'[i] = wire[i]
          /\ Len(wire) \in Nat /\ Len(wire') = Len(wire) + 1
          /\ wire'[Len(wire) + 1] = v[1]
          /\ \A i \in DOMAIN wire' : i \in DOMAIN wire \/ i = Len(wire) + 1
      BY <1>2, <1>3, WireAppended
    <3>2. \A i \in DOMAIN wire : wire[i].what = "chunk"
      BY <2>2 DEF Replying
    <3>3. wire' # <<>>
      BY <3>1
    <3>4. QED BY <1>3, <3>1, <3>2, <3>3
  <2>4. Replying(n)'
    BY <1>1, <2>2, <2>3 DEF Replying, Begun, Waiting
  <2>5. append[n] = "none"
    BY <1>1 DEF Base, Life, LifeOf
  <2>6. Flight(n)'
    BY <1>1, <2>1, <2>4, <2>5 DEF Flight
  <2>7. ~Settled(n)'
    BY <1>1 DEF Settled
  <2>8. \A m \in Turns : Agrees(m)' <=> Agrees(m)
    BY <1>1 DEF Agrees, Holds
  <2>9. QED BY <1>1, <1>4, <1>6, <2>1, <2>6, <2>7, <2>8, TidyTurn
<1>7. QED BY <1>5, <1>6

LEMMA EndStreamTidy ==
    ASSUME Base, NEW n \in Turns, NEW how \in Endings(n), EndStream(n, how)
    PROVE  Life' /\ (Tidy => Tidy')
<1> DEFINE v == IF IsTold(how) THEN <<Event(DoneOf(how), n)>> ELSE <<>>
<1>1. /\ stage[n] = "streaming" /\ stage' = [stage EXCEPT ![n] = "closing"]
      /\ end' = [end EXCEPT ![n] = how]
      /\ UNCHANGED <<active, shown, pending, current, cmd, home, sent, append, draft, file>>
  BY DEF EndStream, webview, archive
<1>2. /\ wire \in Seq(Events) /\ sent \in [Turns -> 0 .. Length]
      /\ stage \in [Turns -> Stages] /\ end \in [Turns -> Ends]
  BY DEF Base, CoreTypeOK, Shapes, TurnTypes
<1>3. v \in Seq(Events) /\ wire' = wire \o v /\ \A i \in DOMAIN v : v[i].turn = n
  <2>1. Event(DoneOf(how), n) \in Events /\ Event(DoneOf(how), n).turn = n
    BY EndingTypes, DoneTypes, EventTypes
  <2>2. CASE IsTold(how)
    <3> DEFINE e == Event(DoneOf(how), n)
    <3>1. wire' = Append(wire, e) /\ v = <<e>>
      BY <2>2 DEF EndStream
    <3> HIDE DEF e, v
    <3>2. e \in Events /\ e.turn = n
      BY <2>1 DEF e
    <3>3. Append(wire, e) = wire \o <<e>> /\ <<e>> \in Seq(Events)
          /\ \A i \in DOMAIN <<e>> : <<e>>[i] = e
      BY <1>2, <3>2
    <3>4. QED BY <3>1, <3>2, <3>3
  <2>3. CASE ~IsTold(how)
    BY <1>2, <2>3 DEF EndStream
  <2>4. QED BY <2>2, <2>3
<1>4. IsReply(how) => sent[n] > 0 /\ wire' = wire
  <2>1. IsReply(how) => ~IsTold(how)
    BY DEF IsReply, IsTold
  <2>2. IsReply(how) => sent[n] > 0
    BY <1>2 DEF IsReply, Endings
  <2>3. QED BY <2>1, <2>2 DEF EndStream
<1> HIDE DEF v
<1>5. stage'[n] = "closing" /\ end'[n] = how /\ append[n] = "none"
  BY <1>1, <1>2 DEF Base, Life, LifeOf
<1>6. Others(n)
  <2>1. \A m \in Turns : m # n => (OnWire(m)' <=> OnWire(m))
    BY <1>2, <1>3, OthersOnWire
  <2>2. \A m \in Turns : m # n => stage'[m] = stage[m] /\ end'[m] = end[m]
    BY <1>1, <1>2
  <2>3. QED BY <1>1, <2>1, <2>2 DEF Others
<1>7. Life'
  <2>1. LifeOf(n)'
    BY <1>1, <1>4, <1>5 DEF LifeOf
  <2>2. QED BY <1>6, <2>1, LifeTurn DEF Base
<1>8. ASSUME Tidy PROVE Tidy'
  <2>1. Busy(n) /\ Flight(n)
    BY <1>1, <1>8 DEF Busy, Tidy, InFlight
  <2>2. Replying(n)
    BY <1>1, <2>1 DEF Flight
  <2>3. IsReply(how) => Replying(n)'
    BY <1>1, <1>4, <2>2 DEF Replying, Begun, Waiting
  <2>4. Flight(n)'
    BY <1>1, <1>5, <2>1, <2>3 DEF Flight
  <2>5. ~Settled(n)'
    BY <1>5 DEF Settled
  <2>6. \A m \in Turns : Agrees(m)' <=> Agrees(m)
    BY <1>1 DEF Agrees, Holds
  <2>7. QED BY <1>1, <1>6, <1>8, <2>1, <2>4, <2>5, <2>6, TidyTurn
<1>9. QED BY <1>7, <1>8

LEMMA CloseTidy ==
    ASSUME Base, IInv, NEW n \in Turns, Close(n)
    PROVE  Life' /\ (Tidy => Tidy')
<1> DEFINE v == Announce(n)
<1>1. /\ stage[n] = "closing" /\ stage' = [stage EXCEPT ![n] = "ended"]
      /\ append' = [append EXCEPT ![n] = IF Files(n) THEN "queued" ELSE "none"]
      /\ wire' = wire \o v
      /\ UNCHANGED <<active, shown, pending, current, cmd, home, sent, end, draft, file>>
  BY DEF Close, webview
<1>2. /\ wire \in Seq(Events) /\ stage \in [Turns -> Stages]
      /\ append \in [Turns -> {"none", "queued", "read", "written"}]
  BY DEF Base, CoreTypeOK, Shapes, FileTypes
<1>3. v \in Seq(Events) /\ \A i \in DOMAIN v : v[i].turn = n
  BY AnnounceTypes
<1>4. IsReply(end[n]) => v = <<Event("done", n)>> /\ Event("done", n).what = "done"
  <2>1. ASSUME IsReply(end[n]) PROVE v = <<Event("done", n)>> /\ Event("done", n).what = "done"
    <3>1. ~IsTold(end[n]) /\ end[n] # "failed"
      BY <2>1 DEF IsReply, IsTold
    <3>2. DoneOf(end[n]) = "done"
      <4>1. end[n] \notin {"aborted", "toldGone"}
        BY <2>1 DEF IsReply
      <4>2. QED BY <2>1, <4>1, Zenon DEF DoneOf
    <3>3. v = <<Event(DoneOf(end[n]), n)>>
      BY <3>1, Zenon DEF Announce
    <3>4. QED BY <3>2, <3>3 DEF Event
  <2>2. QED BY <2>1
<1> HIDE DEF v
<1>5. /\ stage'[n] = "ended" /\ append'[n] \in {"queued", "none"}
      /\ IsReply(end[n]) => append'[n] = "queued"
  BY <1>1, <1>2 DEF Files, IsReply
<1>6. Others(n)
  <2>1. \A m \in Turns : m # n => (OnWire(m)' <=> OnWire(m))
    BY <1>1, <1>2, <1>3, OthersOnWire
  <2>2. \A m \in Turns : m # n => stage'[m] = stage[m] /\ append'[m] = append[m]
    BY <1>1, <1>2
  <2>3. QED BY <1>1, <2>1, <2>2 DEF Others
<1>7. Life'
  <2>1. LifeOf(n)'
    BY <1>1, <1>5 DEF LifeOf
  <2>2. QED BY <1>6, <2>1, LifeTurn DEF Base
<1>8. ASSUME Tidy PROVE Tidy'
  <2>1. Busy(n) /\ Flight(n)
    BY <1>1, <1>8 DEF Busy, Tidy, InFlight
  <2>2. IsReply(end[n]) => Replied(n)'
    <3>1. ASSUME IsReply(end[n]) PROVE Replied(n)'
      <4>1. Replying(n) /\ sent[n] > 0
        BY <1>1, <2>1, <3>1 DEF Flight, Base, Life, LifeOf
      <4>2. /\ Len(v) = 1 /\ DOMAIN v = {1} /\ v[1].what = "done"
        BY <1>4, <3>1
      <4>3. /\ DOMAIN wire = 1 .. Len(wire) /\ Len(wire) \in Nat
            /\ Len(wire') = Len(wire) + 1 /\ DOMAIN wire' = 1 .. Len(wire) + 1
            /\ \A i \in DOMAIN wire : wire'[i] = wire[i]
            /\ wire'[Len(wire) + 1] = v[1]
        BY <1>1, <1>2, <1>3, <4>2, WireAppended
      <4>4. \A i \in DOMAIN wire' :
                wire'[i].what = IF i = Len(wire') THEN "done" ELSE "chunk"
        <5>1. ASSUME NEW i \in DOMAIN wire', i # Len(wire') PROVE wire'[i].what = "chunk"
          <6>1. i \in DOMAIN wire
            BY <4>3, <5>1
          <6>2. QED BY <4>1, <4>3, <6>1 DEF Replying
        <5>2. QED BY <4>2, <4>3, <5>1
      <4>5. wire' # <<>> /\ (wire # <<>> => Len(wire') > 1)
        BY <1>2, <4>3
      <4>6. Begun(n)' \/ (Waiting(n)' /\ Len(wire') > 1)
        BY <1>1, <4>1, <4>5 DEF Replying, Begun, Waiting
      <4>7. QED BY <4>4, <4>5, <4>6 DEF Replied
    <3>2. QED BY <3>1
  <2>3. Flight(n)'
    BY <1>1, <1>5, <2>1, <2>2 DEF Flight
  <2>4. ~Settled(n)'
    BY <1>1, <1>5 DEF Settled, Busy
  <2>5. \A m \in Turns : Agrees(m)' <=> Agrees(m)
    BY <1>1 DEF Agrees, Holds
  <2>6. QED BY <1>1, <1>6, <1>8, <2>1, <2>3, <2>4, <2>5, TidyTurn
<1>9. QED BY <1>7, <1>8

LEMMA AppendReadTidy ==
    ASSUME Base, NEW n \in Turns, AppendRead(n)
    PROVE  Life' /\ (Tidy => Tidy')
<1>1. /\ append[n] = "queued" /\ append' = [append EXCEPT ![n] = "read"]
      /\ draft' = [draft EXCEPT ![n] = Before(n) \cup EntriesOf(n)]
      /\ UNCHANGED <<active, shown, pending, current, cmd, wire, stage, home, sent, end, file>>
  BY DEF AppendRead, webview, turn
<1>2. /\ append \in [Turns -> {"none", "queued", "read", "written"}]
      /\ draft \in [Turns -> SUBSET Filed] /\ TurnTypes /\ FileTypes
  BY DEF Base, Shapes, FileTypes
<1>3. stage[n] = "ended" /\ append'[n] = "read"
  BY <1>1, <1>2 DEF Base, Life, LifeOf
<1>4. Others(n)
  BY <1>1, <1>2 DEF Others, OnWire
<1>5. Life'
  <2>1. LifeOf(n)'
    BY <1>1, <1>3 DEF LifeOf
  <2>2. QED BY <1>4, <2>1, LifeTurn DEF Base
<1>6. ASSUME Tidy PROVE Tidy'
  <2>1. Busy(n) /\ Flight(n)
    BY <1>1, <1>6 DEF Busy, Tidy, InFlight
  <2>2. Drafted(n)'
    <3>1. draft'[n] = Before(n) \cup EntriesOf(n) /\ home[n] = active
      BY <1>1, <1>2, <2>1 DEF Flight
    <3>2. \A m \in Turns : Answer(m) \in draft'[n] <=>
              Answer(m) \in file[active] \/ (m = n /\ IsReply(end[n]))
      BY <1>2, <3>1, BeforeIs, EntriesOfIs
    <3>3. QED BY <1>1, <3>2 DEF Drafted
  <2>3. Flight(n)'
    BY <1>1, <1>3, <2>1, <2>2 DEF Flight, Replied, Begun, Waiting, Holds
  <2>4. ~Settled(n)'
    BY <1>3 DEF Settled, Busy
  <2>5. \A m \in Turns : Agrees(m)' <=> Agrees(m)
    BY <1>1 DEF Agrees, Holds
  <2>6. QED BY <1>1, <1>4, <1>6, <2>1, <2>3, <2>4, <2>5, TidyTurn
<1>7. QED BY <1>5, <1>6

LEMMA AppendWriteTidy ==
    ASSUME Base, NEW n \in Turns, AppendWrite(n)
    PROVE  Life' /\ (Tidy => Tidy')
<1>1. /\ append[n] = "read" /\ append' = [append EXCEPT ![n] = "written"]
      /\ file' = [file EXCEPT ![home[n]] = draft[n]]
      /\ UNCHANGED <<active, shown, pending, current, cmd, wire, stage, home, sent, end>>
  BY DEF AppendWrite, webview, turn
<1>2. /\ append \in [Turns -> {"none", "queued", "read", "written"}]
      /\ file \in [Sessions -> SUBSET Filed] /\ wire \in Seq(Events) /\ active \in Sessions
  BY DEF Base, CoreTypeOK, Shapes, ViewTypes, FileTypes
<1>3. stage[n] = "ended" /\ append'[n] = "written"
  BY <1>1, <1>2 DEF Base, Life, LifeOf
<1>4. Others(n)
  BY <1>1, <1>2 DEF Others, OnWire
<1>5. Life'
  <2>1. LifeOf(n)'
    BY <1>1, <1>3 DEF LifeOf
  <2>2. QED BY <1>4, <2>1, LifeTurn DEF Base
<1>6. ASSUME Tidy PROVE Tidy'
  <2>1. Busy(n) /\ Flight(n)
    BY <1>1, <1>6 DEF Busy, Tidy, InFlight
  <2>2. Drafted(n) /\ home[n] = active
    BY <1>1, <2>1 DEF Flight
  <2>3. file'[active] = draft[n]
    BY <1>1, <1>2, <2>2
  <2>4. /\ \A m \in Turns : m # n => (Answer(m) \in file'[active] <=> Answer(m) \in file[active])
        /\ IsReply(end[n]) => Answer(n) \in file'[active]
    BY <2>2, <2>3 DEF Drafted
  <2>5. Flight(n)'
    BY <1>1, <1>3, <2>1, <2>4 DEF Flight, Replied, Begun, Waiting, Holds
  <2>6. Settled(n)' => Agrees(n)'
    <3>1. ASSUME Settled(n)' PROVE Agrees(n)'
      <4>1. IsReply(end[n]) /\ ~OnWire(n)
        BY <1>1, <3>1 DEF Settled, Busy, OnWire
      <4>2. wire = <<>>
        BY <1>2, <1>6, <2>1, <4>1, WireIsOf DEF OnWire
      <4>3. Holds(shown, n)
        BY <1>3, <2>1, <4>1, <4>2 DEF Flight, Replied
      <4>4. QED BY <1>1, <2>4, <4>1, <4>3 DEF Agrees, Holds
    <3>2. QED BY <3>1
  <2>7. \A m \in Turns : m # n => (Agrees(m)' <=> Agrees(m))
    BY <1>1, <2>4 DEF Agrees, Holds
  <2>8. QED BY <1>1, <1>4, <1>6, <2>1, <2>5, <2>6, <2>7, TidyTurn
<1>7. QED BY <1>5, <1>6

-----------------------------------------------------------------------------
(* The steps that change the row of a turn *)

\* A change to the last row, of turn n or of none, is nothing to another turn.
LEMMA LastRowOf ==
    ASSUME ViewTypes, NEW n \in Turns, NEW m \in Turns, m # n, NEW text,
           LastBecomes(shown', EnsureRow, text),
           EnsureRow[Len(EnsureRow)].id \in {NoId, ReplyId(n)}
    PROVE  Holds(shown', m) <=> Holds(shown, m)
<1> DEFINE rows == EnsureRow
<1>1. rows \in Seq(Rows) /\ shown' \in Seq(Rows) /\ shown \in Seq(Rows)
  BY EnsureRowIs DEF LastBecomes, ViewTypes
<1>2. ReplyId(m) \notin {NoId, ReplyId(n)}
  BY IdFacts
<1>3. Holds(rows, m) <=> Holds(shown, m)
  <2>1. CASE rows = shown
    BY <2>1
  <2>2. CASE rows # shown
    <3>1. PICK r \in Rows : rows = Append(shown, r) /\ rows[Len(rows)] = r
      BY <2>2, EnsureRowIs
    <3>2. ~IsAnswer(r, m)
      BY <1>2, <3>1 DEF IsAnswer
    <3> HIDE DEF rows
    <3>3. QED BY <1>1, <3>1, <3>2, HoldsAppended
  <2>3. QED BY <2>1, <2>2
<1>4. Holds(shown', m) <=> Holds(rows, m)
  <2>1. /\ DOMAIN shown' = DOMAIN rows
        /\ \A i \in DOMAIN rows : i # Len(rows) => shown'[i] = rows[i]
        /\ shown'[Len(rows)].id = rows[Len(rows)].id
    BY DEF LastBecomes
  <2>2. ~IsAnswer(rows[Len(rows)], m) /\ ~IsAnswer(shown'[Len(rows)], m)
    BY <1>2, <2>1 DEF IsAnswer
  <2> HIDE DEF rows
  <2>3. \A i \in DOMAIN rows :
            shown'[i] = rows[i] \/ (~IsAnswer(rows[i], m) /\ ~IsAnswer(shown'[i], m))
    BY <2>1, <2>2
  <2>4. QED BY <1>1, <2>1, <2>3, HoldsElsewhere
<1>5. QED BY <1>3, <1>4

LEMMA RefuseTidy ==
    ASSUME Base, NEW n \in Turns, Refuse(n)
    PROVE  Life' /\ (Tidy => Tidy')
<1>1. /\ stage[n] = "asked" /\ stage' = [stage EXCEPT ![n] = "ended"]
      /\ end' = [end EXCEPT ![n] = "refused"]
      /\ UNCHANGED <<active, cmd, wire, home, sent, append, draft, file>>
  BY DEF Refuse, archive
<1>2. /\ stage \in [Turns -> Stages] /\ end \in [Turns -> Ends] /\ wire \in Seq(Events)
      /\ ViewTypes
  BY DEF Base, CoreTypeOK, Shapes
<1>3. /\ stage'[n] = "ended" /\ ~IsReply(end'[n]) /\ append[n] = "none" /\ ~OnWire(n)
  BY <1>1, <1>2 DEF Base, Life, LifeOf, IsReply
<1>4. Others(n)
  BY <1>1, <1>2 DEF Others, OnWire
<1>5. Life'
  <2>1. LifeOf(n)'
    BY <1>1, <1>3 DEF LifeOf
  <2>2. QED BY <1>4, <2>1, LifeTurn DEF Base
<1>6. ASSUME Tidy PROVE Tidy'
  <2>1. Busy(n) /\ Flight(n)
    BY <1>1, <1>6 DEF Busy, Tidy, InFlight
  <2>2. ~Busy(n)'
    BY <1>1, <1>3 DEF Busy, OnWire
  <2>3. ~Settled(n)'
    BY <1>3 DEF Settled
  <2>4. EnsureRow[Len(EnsureRow)].id = ReplyId(n)
    <3>1. current = NoId /\ pending = n
      BY <1>1, <2>1 DEF Flight, Waiting
    <3>2. QED BY <1>2, <3>1, EnsureRowIs
  <2>5. ASSUME NEW m \in Turns, m # n PROVE Agrees(m)' <=> Agrees(m)
    <3>1. LastBecomes(shown', EnsureRow, {})
      BY <1>2, RefuseIs
    <3>2. Holds(shown', m) <=> Holds(shown, m)
      BY <1>2, <2>4, <2>5, <3>1, LastRowOf
    <3>3. QED BY <1>1, <3>2 DEF Agrees, Holds
  <2>6. QED BY <1>1, <1>4, <1>6, <2>1, <2>2, <2>3, <2>5, TidyTurn
<1>7. QED BY <1>5, <1>6

\* An event that arrives is of a turn that has been under way, and of no other.
LEMMA Arrives ==
    ASSUME Base, wire # <<>>, wire' = Tail(wire), UNCHANGED <<turn, archive>>
    PROVE  \E n \in Turns : /\ n = Head(wire).turn /\ Busy(n) /\ Others(n) /\ Life'
                            /\ stage[n] \notin {"unsent", "asked"}
<1>1. wire \in Seq(Events)
  BY DEF Base, CoreTypeOK
<1>2. Head(wire) = wire[1] /\ 1 \in DOMAIN wire
  BY <1>1, WireTail
<1>3. wire[1] \in Events
  BY <1>1, <1>2
<1>4. PICK n \in Turns : n = Head(wire).turn
  BY <1>2, <1>3 DEF Events
<1>5. OnWire(n)
  BY <1>2, <1>4 DEF OnWire
<1>6. Busy(n)
  BY <1>5 DEF Busy
<1>7. stage[n] \notin {"unsent", "asked"}
  BY <1>5 DEF Base, Life, LifeOf
<1>8. Others(n)
  <2>1. \A m \in Turns : m # n => (OnWire(m)' <=> OnWire(m))
    BY <1>1, <1>4, OthersOnWire
  <2>2. QED BY <2>1 DEF Others, turn, archive
<1>9. LifeOf(n)'
  BY <1>7 DEF Base, Life, LifeOf, turn, archive
<1>10. Life'
  BY <1>8, <1>9, LifeTurn DEF Base
<1>11. QED BY <1>4, <1>6, <1>7, <1>8, <1>10

LEMMA OnChunkTidy ==
    ASSUME Base, OnChunk
    PROVE  Life' /\ (Tidy => Tidy')
<1>1. /\ wire # <<>> /\ Head(wire).what = "chunk" /\ wire' = Tail(wire)
      /\ current' = EnsureRow[Len(EnsureRow)].id
      /\ pending' \in {pending, None}
      /\ UNCHANGED <<active, cmd, turn, archive>>
  BY DEF OnChunk
<1>2. UNCHANGED <<home, stage, sent, end, append, draft, file>>
  BY <1>1 DEF turn, archive
<1>3. wire \in Seq(Events) /\ ViewTypes
  BY DEF Base, CoreTypeOK, Shapes
<1>4. PICK n \in Turns : /\ n = Head(wire).turn /\ Busy(n) /\ Others(n) /\ Life'
                         /\ stage[n] \notin {"unsent", "asked"}
  BY <1>1, Arrives
<1>5. ASSUME Tidy PROVE Tidy'
  <2>1. Flight(n)
    BY <1>4, <1>5 DEF Tidy, InFlight
  <2> DEFINE rows == EnsureRow
             k == Len(rows)
  <2>2. LastBecomes(shown', rows, rows[k].text \cup {n})
    BY <1>3, <1>4, OnChunkIs
  <2>3. current' = rows[k].id /\ rows[k].id \in {NoId, ReplyId(n)} /\ k \in DOMAIN rows
    <3>1. rows[k].id \in {current, ReplyId(pending)} /\ k \in DOMAIN rows
      BY <1>3, EnsureRowIs
    <3>2. current \in {NoId, ReplyId(n)} /\ ReplyId(pending) \in {NoId, ReplyId(n)}
      BY <2>1, IdFacts DEF Flight
    <3>3. QED BY <1>1, <3>1, <3>2
  <2>4. Begun(n) \/ Waiting(n) => Begun(n)'
    <3>1. ASSUME Begun(n) \/ Waiting(n)
          PROVE  /\ rows[k].id = ReplyId(n) /\ rows[k].text \cup {n} = {n}
                 /\ ~rows[k].aborted
      <4>1. CASE Begun(n)
        <5>1. current # NoId
          BY <4>1, IdFacts DEF Begun
        <5>2. rows = shown
          BY <4>1, <5>1 DEF EnsureRow, Begun
        <5>3. shown[Len(shown)].id = ReplyId(n) /\ shown[Len(shown)].text = {n}
              /\ ~shown[Len(shown)].aborted
          BY <4>1 DEF Begun, LastIs
        <5> HIDE DEF rows
        <5>4. QED BY <5>2, <5>3
      <4>2. CASE Waiting(n)
        <5>1. current = NoId /\ pending = n
          BY <4>2 DEF Waiting
        <5>2. rows[k].id = ReplyId(n) /\ rows[k].text = {} /\ ~rows[k].aborted
          BY <1>3, <5>1, EnsureRowIs
        <5>3. QED BY <5>2
      <4>3. QED BY <3>1, <4>1, <4>2
    <3>2. /\ Len(shown') = k /\ shown'[k].id = rows[k].id
          /\ shown'[k].text = rows[k].text \cup {n} /\ shown'[k].aborted = rows[k].aborted
          /\ shown' # <<>>
      <4>1. shown' \in Seq(Rows) /\ DOMAIN shown' = DOMAIN rows /\ Len(shown') = k
        BY <2>2 DEF LastBecomes
      <4> HIDE DEF rows, k
      <4>2. shown' # <<>>
        BY <2>3, <4>1
      <4>3. QED BY <2>2, <4>1, <4>2 DEF LastBecomes, rows, k
    <3> HIDE DEF rows, k
    <3>3. QED BY <2>3, <3>1, <3>2 DEF Begun, LastIs
  <2> HIDE DEF rows, k
  <2>5. /\ DOMAIN wire = 1 .. Len(wire) /\ Len(wire) \in Nat \ {0}
        /\ wire' \in Seq(Events)
        /\ Len(wire') = Len(wire) - 1 /\ DOMAIN wire' = 1 .. Len(wire) - 1
        /\ \A i \in DOMAIN wire' : i + 1 \in DOMAIN wire /\ wire'[i] = wire[i + 1]
        /\ wire[1].what = "chunk"
    BY <1>1, <1>3, WireTail
  <2>6. stage[n] = "streaming" \/ (stage[n] = "closing" /\ IsReply(end[n])) => Replying(n)'
    <3>1. ASSUME Replying(n) PROVE Replying(n)'
      <4>1. Begun(n)'
        BY <2>4, <3>1 DEF Replying
      <4>2. \A i \in DOMAIN wire' : wire'[i].what = "chunk"
        BY <2>5, <3>1 DEF Replying
      <4>3. QED BY <4>1, <4>2 DEF Replying
    <3>2. QED BY <2>1, <3>1 DEF Flight
  <2>7. stage[n] = "ended" /\ IsReply(end[n]) => Replied(n)' /\ wire' # <<>>
    <3>1. ASSUME Replied(n) PROVE Replied(n)' /\ wire' # <<>>
      <4>1. /\ \A i \in DOMAIN wire : wire[i].what = IF i = Len(wire) THEN "done" ELSE "chunk"
            /\ Begun(n) \/ Waiting(n)
        BY <1>1, <3>1 DEF Replied
      <4>2. Len(wire) # 1
        BY <2>5, <4>1
      <4>3. wire' # <<>>
        BY <2>5, <4>2
      <4>4. \A i \in DOMAIN wire' : wire'[i].what = IF i = Len(wire') THEN "done" ELSE "chunk"
        <5>1. \A i \in DOMAIN wire' : i = Len(wire') <=> i + 1 = Len(wire)
          BY <2>5
        <5>2. QED BY <2>5, <4>1, <5>1
      <4>5. QED BY <2>4, <4>1, <4>3, <4>4 DEF Replied
    <3>2. QED BY <2>1, <3>1 DEF Flight
  <2>8. Flight(n)'
    <3>1. current' \in {NoId, ReplyId(n)} /\ pending' \in {None, n}
      BY <1>1, <2>1, <2>3 DEF Flight
    <3>2. append[n] = "read" => Drafted(n)'
      BY <1>1, <1>2, <2>1 DEF Flight, Drafted
    <3>3. QED BY <1>1, <1>2, <1>4, <2>1, <2>6, <2>7, <3>1, <3>2 DEF Flight
  <2>9. ~Settled(n)'
    <3>1. ASSUME stage[n] = "ended", IsReply(end[n]) PROVE OnWire(n)'
      <4>1. wire' # <<>>
        BY <2>7, <3>1
      <4>2. 1 \in DOMAIN wire'
        BY <2>5, <4>1
      <4>3. wire'[1].turn = n
        <5>1. \A i \in DOMAIN wire : wire[i].turn = n
          BY <1>3, <1>4, <1>5, WireIsOf
        <5>2. QED BY <2>5, <4>2, <5>1
      <4>4. QED BY <4>2, <4>3 DEF OnWire
    <3>2. QED BY <1>2, <3>1 DEF Settled, Busy
  <2>10. ASSUME NEW m \in Turns, m # n PROVE Agrees(m)' <=> Agrees(m)
    <3> DEFINE text == rows[k].text \cup {n}
    <3> HIDE DEF text
    <3>1. LastBecomes(shown', EnsureRow, text)
      BY <2>2 DEF rows, k, text
    <3>2. EnsureRow[Len(EnsureRow)].id \in {NoId, ReplyId(n)}
      BY <2>3 DEF rows, k
    <3>3. Holds(shown', m) <=> Holds(shown, m)
      BY <1>3, <2>10, <3>1, <3>2, LastRowOf
    <3>4. QED BY <1>1, <1>2, <3>3 DEF Agrees, Holds
  <2>11. QED BY <1>1, <1>2, <1>4, <1>5, <2>8, <2>9, <2>10, TidyTurn
<1>6. QED BY <1>4, <1>5

LEMMA OnDoneTidy ==
    ASSUME Base, OnDone
    PROVE  Life' /\ (Tidy => Tidy')
<1>1. /\ wire # <<>> /\ Head(wire).what # "chunk" /\ wire' = Tail(wire)
      /\ current' = NoId /\ pending' = None
      /\ UNCHANGED <<active, cmd, turn, archive>>
  BY DEF OnDone, ClearTransient
<1>2. UNCHANGED <<home, stage, sent, end, append, draft, file>>
  BY <1>1 DEF turn, archive
<1>3. wire \in Seq(Events) /\ ViewTypes
  BY DEF Base, CoreTypeOK, Shapes
<1>4. PICK n \in Turns : /\ n = Head(wire).turn /\ Busy(n) /\ Others(n) /\ Life'
                         /\ stage[n] \notin {"unsent", "asked"}
  BY <1>1, Arrives
<1>5. ASSUME Tidy PROVE Tidy'
  <2>1. Flight(n)
    BY <1>4, <1>5 DEF Tidy, InFlight
  <2>2. /\ shown \in Seq(Rows) /\ shown' \in Seq(Rows)
        /\ DOMAIN shown' = DOMAIN shown /\ Len(shown') = Len(shown)
        /\ \A i \in DOMAIN shown :
             IF shown[i].id = current
             THEN /\ shown'[i].id = shown[i].id /\ shown'[i].text = shown[i].text
                  /\ ~shown'[i].loading
                  /\ Head(wire).what # "aborted" => shown'[i].aborted = shown[i].aborted
             ELSE shown'[i] = shown[i]
    BY <1>3, OnDoneIs DEF ViewTypes
  <2>3. /\ DOMAIN wire = 1 .. Len(wire) /\ Len(wire) \in Nat \ {0}
        /\ wire' \in Seq(Events) /\ Len(wire') = Len(wire) - 1
        /\ Head(wire) = wire[1] /\ 1 \in DOMAIN wire
    BY <1>1, <1>3, WireTail
  <2>4. ~Replying(n)
    BY <1>1, <2>3 DEF Replying
  <2>5. stage[n] # "streaming" /\ ~(stage[n] = "closing" /\ IsReply(end[n]))
    BY <2>1, <2>4 DEF Flight
  <2>6. stage[n] = "ended" /\ IsReply(end[n]) => wire' = <<>> /\ Holds(shown', n)
    <3>1. ASSUME Replied(n) PROVE wire' = <<>> /\ Holds(shown', n)
      <4>1. /\ \A i \in DOMAIN wire : wire[i].what = IF i = Len(wire) THEN "done" ELSE "chunk"
            /\ Begun(n) \/ (Waiting(n) /\ Len(wire) > 1)
        BY <1>1, <3>1 DEF Replied
      <4>2. Len(wire) = 1 /\ Head(wire).what = "done"
        BY <1>1, <2>3, <4>1
      <4>3. wire' = <<>>
        BY <2>3, <4>2
      <4>4. /\ current = ReplyId(n) /\ shown # <<>> /\ shown[Len(shown)].id = current
            /\ shown[Len(shown)].text = {n} /\ ~shown[Len(shown)].aborted
        BY <4>1, <4>2 DEF Begun, LastIs
      <4>5. Len(shown) \in DOMAIN shown
        BY <2>2, <4>4
      <4>6. IsAnswer(shown'[Len(shown)], n)
        BY <2>2, <4>2, <4>4, <4>5 DEF IsAnswer
      <4>7. Holds(shown', n)
        BY <2>2, <4>5, <4>6, HoldsIs
      <4>8. QED BY <4>3, <4>7
    <3>2. QED BY <2>1, <3>1 DEF Flight
  <2>7. Flight(n)'
    <3>1. append[n] = "read" => Drafted(n)'
      BY <1>1, <1>2, <2>1 DEF Flight, Drafted
    <3>2. stage[n] = "ended" /\ IsReply(end[n]) =>
             Replied(n)' /\ (append[n] = "written" => Answer(n) \in file[active])
      BY <2>1, <2>6 DEF Flight, Replied, Holds
    <3>3. QED BY <1>1, <1>2, <1>4, <2>1, <2>5, <3>1, <3>2 DEF Flight
  <2>8. Settled(n)' => Agrees(n)'
    <3>1. ASSUME Settled(n)' PROVE Agrees(n)'
      <4>1. stage[n] = "ended" /\ IsReply(end[n]) /\ append[n] \notin {"queued", "read"}
        BY <1>2, <3>1 DEF Settled, Busy
      <4>2. append[n] = "written"
        BY <4>1 DEF Base, Life, LifeOf, Shapes, FileTypes
      <4>3. Answer(n) \in file[active] /\ Holds(shown', n)
        BY <2>1, <2>6, <4>1, <4>2 DEF Flight
      <4>4. QED BY <1>1, <1>2, <4>3 DEF Agrees, Holds
    <3>2. QED BY <3>1
  <2>9. ASSUME NEW m \in Turns, m # n PROVE Agrees(m)' <=> Agrees(m)
    <3>1. ReplyId(m) \notin {NoId, ReplyId(n)} /\ current \in {NoId, ReplyId(n)}
      BY <2>1, <2>9, IdFacts DEF Flight
    <3>2. \A i \in DOMAIN shown :
              shown'[i] = shown[i] \/ (~IsAnswer(shown[i], m) /\ ~IsAnswer(shown'[i], m))
      BY <2>2, <3>1 DEF IsAnswer
    <3>3. Holds(shown', m) <=> Holds(shown, m)
      BY <2>2, <3>2, HoldsElsewhere
    <3>4. QED BY <1>1, <1>2, <3>3 DEF Agrees, Holds
  <2>10. QED BY <1>1, <1>2, <1>4, <1>5, <2>7, <2>8, <2>9, TidyTurn
<1>6. QED BY <1>4, <1>5

-----------------------------------------------------------------------------
(* The steps of the user and of the commands *)

\* A step that leaves alone what a turn has done leaves its life alone.
LEMMA LifeStays ==
    ASSUME UNCHANGED <<wire, stage, end, sent, append>>
    PROVE  /\ Life' <=> Life
           /\ \A n \in Turns : (Busy(n)' <=> Busy(n)) /\ (Settled(n)' <=> Settled(n))
<1>1. \A n \in Turns : OnWire(n)' <=> OnWire(n)
  BY DEF OnWire
<1>2. \A n \in Turns : LifeOf(n)' <=> LifeOf(n)
  BY <1>1 DEF LifeOf
<1>3. \A n \in Turns : Busy(n)' <=> Busy(n)
  BY <1>1 DEF Busy
<1>4. \A n \in Turns : Settled(n)' <=> Settled(n)
  BY <1>3 DEF Settled
<1>5. QED BY <1>2, <1>3, <1>4 DEF Life

\* The abort, and no step at all.
LEMMA StillTidy ==
    ASSUME UNCHANGED <<active, shown, pending, current, cmd>>,
           UNCHANGED <<wire, stage, home, sent, end, append, draft, file>>
    PROVE  (Life => Life') /\ (Tidy => Tidy')
<1>1. /\ Life' <=> Life
      /\ \A n \in Turns : (Busy(n)' <=> Busy(n)) /\ (Settled(n)' <=> Settled(n))
  BY LifeStays
<1>2. \A n \in Turns : (Agrees(n)' <=> Agrees(n)) /\ (Flight(n)' <=> Flight(n))
  BY DEF Agrees, Holds, Flight, Replying, Replied, Begun, Waiting, Drafted
<1>3. OneAtATime' <=> OneAtATime
  BY <1>1 DEF OneAtATime
<1>4. CommandAlone' <=> CommandAlone
  BY <1>1 DEF CommandAlone
<1>5. Carries' <=> Carries
  BY DEF Carries
<1>6. Agreement' <=> Agreement
  BY <1>1, <1>2 DEF Agreement, Coherent
<1>7. InFlight' <=> InFlight
  BY <1>1, <1>2 DEF InFlight
<1>8. QED BY <1>1, <1>3, <1>4, <1>5, <1>6, <1>7 DEF Tidy

\* While no turn is under way, only the file and the webview are to agree.
LEMMA RestTidy ==
    ASSUME Life, \A n \in Turns : ~Busy(n), UNCHANGED <<wire, stage, end, sent, append>>,
           Carries', Agreement'
    PROVE  Tidy'
<1>1. \A n \in Turns : ~Busy(n)'
  BY LifeStays
<1>2. QED BY <1>1 DEF Tidy, OneAtATime, CommandAlone, InFlight

LEMMA QuietActs ==
    ASSUME UserTypes, Acts, hasty' = 0
    PROVE  Quiet /\ hasty = 0
BY DEF UserTypes, Acts

LEMMA QuietIs ==
    ASSUME Quiet
    PROVE  cmd = Idle /\ Coherent /\ \A n \in Turns : ~Busy(n)
<1>1. cmd = Idle /\ wire = <<>>
  BY DEF Quiet
<1>2. \A n \in Turns : ~OnWire(n)
  BY <1>1 DEF OnWire
<1>3. QED BY <1>1, <1>2 DEF Quiet, Coherent, Busy

LEMMA NewSignalTidy ==
    ASSUME Life, Tidy, Quiet, NewSignal
    PROVE  Tidy'
<1>1. /\ active' \in Fresh
      /\ UNCHANGED <<cmd, wire, stage, home, end, sent, append, draft, file>>
  BY DEF NewSignal, turn, archive
<1>2. cmd = Idle /\ \A n \in Turns : ~Busy(n)
  BY QuietIs
<1>3. Carries'
  BY <1>1, <1>2 DEF Carries, Idle
<1>4. Agreement'
  <2>1. \A n \in Turns : Settled(n)' => home'[n] # active'
    BY <1>1 DEF Settled, Fresh
  <2>2. QED BY <2>1 DEF Agreement
<1>5. QED BY <1>1, <1>2, <1>3, <1>4, RestTidy

LEMMA LoadTidy ==
    ASSUME Life, Tidy, Quiet, NEW s \in Sessions, Load(s)
    PROVE  Tidy'
<1>1. /\ cmd' = [op |-> "load", at |-> s, step |-> "file", entries |-> {}]
      /\ UNCHANGED <<wire, stage, end, sent, append>>
  BY DEF Load, turn, archive
<1>2. Carries' /\ ~Coherent'
  BY <1>1 DEF Carries, Coherent, Idle
<1>3. QED BY <1>1, <1>2, QuietIs, RestTidy DEF Agreement

LEMMA DeleteTidy ==
    ASSUME Life, Tidy, Quiet, NEW s \in Sessions, Delete(s)
    PROVE  Tidy'
<1>1. /\ cmd' = [op |-> "delete", at |-> s, step |-> "file", entries |-> {}]
      /\ UNCHANGED <<active, shown, wire, stage, home, end, sent, append, file>>
  BY DEF Delete, turn, archive
<1>2. Carries'
  BY <1>1 DEF Carries
<1>3. Agreement'
  <2>1. \A n \in Turns : (Settled(n)' <=> Settled(n)) /\ (Agrees(n)' <=> Agrees(n))
    BY <1>1, LifeStays DEF Agrees, Holds
  <2>2. QED BY <1>1, <2>1, QuietIs DEF Tidy, Agreement
<1>4. QED BY <1>1, <1>2, <1>3, QuietIs, RestTidy

LEMMA EditTidy ==
    ASSUME Life, Tidy, Quiet, Edit
    PROVE  Tidy'
<1>1. /\ cmd' = [op |-> "sync", at |-> active, step |-> "file",
                 entries |-> SyncEntries(shown), then |-> "nothing"]
      /\ UNCHANGED <<active, shown, wire, stage, end, sent, append>>
  BY DEF Edit, Sync, turn
<1>2. Carries' /\ ~Coherent'
  BY <1>1 DEF Carries, Coherent, Idle
<1>3. QED BY <1>1, <1>2, QuietIs, RestTidy DEF Agreement

LEMMA RetryTidy ==
    ASSUME Life, Tidy, Quiet, Retry
    PROVE  Tidy'
<1>1. /\ cmd' = [op |-> "sync", at |-> active, step |-> "file",
                 entries |-> SyncEntries(shown'), then |-> "retry"]
      /\ UNCHANGED <<active, wire, stage, end, sent, append>>
  BY DEF Retry, Sync, turn
<1>2. Carries' /\ ~Coherent'
  BY <1>1 DEF Carries, Coherent, Idle
<1>3. QED BY <1>1, <1>2, QuietIs, RestTidy DEF Agreement

LEMMA EraseTidy ==
    ASSUME Life, Tidy, Quiet, Erase
    PROVE  Tidy'
<1>1. /\ cmd'.op = "erase" /\ cmd' # Idle
      /\ UNCHANGED <<wire, stage, end, sent, append>>
  BY DEF Erase, Idle, turn, archive
<1>2. Carries' /\ ~Coherent'
  BY <1>1 DEF Carries, Coherent
<1>3. QED BY <1>1, <1>2, QuietIs, RestTidy DEF Agreement

LEMMA CmdFileTidy ==
    ASSUME Base, CmdFile
    PROVE  Life' /\ (Tidy => Tidy')
<1>1. UNCHANGED <<active, shown, wire, stage, home, end, sent, append>>
  BY DEF CmdFile, turn
<1>2. Life'
  BY <1>1, LifeStays DEF Base
<1>3. /\ cmd # Idle /\ cmd \in Cmds /\ file \in [Sessions -> SUBSET Filed]
      /\ active \in Sessions /\ cmd.at \in Sessions
  <2>1. cmd # Idle /\ cmd \in Cmds
    BY DEF CmdFile, Base, Shapes, ViewTypes
  <2>2. QED BY <2>1, CmdIs DEF Base, Shapes, ViewTypes, FileTypes
<1>4. ASSUME Tidy PROVE Tidy'
  <2>1. \A n \in Turns : ~Busy(n)
    BY <1>3, <1>4 DEF Tidy, CommandAlone
  <2>2. \A n \in Turns : Settled(n)' <=> Settled(n)
    BY <1>1, LifeStays
  <2>3. cmd'.op = cmd.op /\ cmd'.at = cmd.at /\ cmd'.step = "back" /\ cmd' # Idle
    BY <1>3, CmdIs, CmdFileTypes DEF CmdFile, Base
  <2>4. CASE cmd.op = "sync"
    <3>1. cmd.at = active /\ cmd.entries = SyncEntries(shown)
      BY <1>4, <2>4 DEF CmdFile, Tidy, Carries
    <3>2. file'[active] = SyncEntries(shown)
      BY <1>3, <2>4, <3>1 DEF CmdFile
    <3>3. Carries'
      BY <1>1, <2>3, <2>4, <3>1 DEF Carries
    <3>4. \A n \in Turns : Agrees(n)'
      BY <1>1, <3>2 DEF Agrees, Holds
    <3>5. QED BY <1>1, <2>1, <3>3, <3>4, RestTidy DEF Agreement, Base
  <2>5. CASE cmd.op = "delete"
    <3>1. Carries'
      BY <2>3, <2>5 DEF Carries
    <3>2. Agreement'
      <4>1. CASE cmd.at = active
        BY <1>1, <2>3, <2>5, <4>1 DEF Agreement, Coherent
      <4>2. CASE cmd.at # active
        <5>1. file'[active] = file[active]
          BY <1>3, <2>5, <4>2 DEF CmdFile
        <5>2. \A n \in Turns : Agrees(n)' <=> Agrees(n)
          BY <1>1, <5>1 DEF Agrees, Holds
        <5>3. QED BY <1>1, <1>4, <2>2, <2>5, <4>2, <5>2 DEF Tidy, Agreement, Coherent
      <4>3. QED BY <4>1, <4>2
    <3>3. QED BY <1>1, <2>1, <3>1, <3>2, RestTidy DEF Base
  <2>6. CASE cmd.op = "load"
    <3>1. /\ cmd'.entries = IF file[cmd.at] = NoFile THEN {} ELSE file[cmd.at]
          /\ UNCHANGED file
      <4>1. cmd \in [op : {"load", "delete"}, at : Sessions, step : Steps,
                     entries : SUBSET Filed]
        BY <1>3, <2>6, CmdIs
      <4>2. QED BY <2>6, <4>1 DEF CmdFile
    <3>2. Carries'
      BY <2>3, <2>6, <3>1, NoFileIs DEF Carries
    <3>3. ~Coherent'
      BY <2>3, <2>6 DEF Coherent
    <3>4. QED BY <1>1, <2>1, <3>2, <3>3, RestTidy DEF Agreement, Base
  <2>7. CASE cmd.op = "erase"
    <3>1. Carries' /\ ~Coherent'
      BY <2>3, <2>7 DEF Carries, Coherent
    <3>2. QED BY <1>1, <2>1, <3>1, RestTidy DEF Agreement, Base
  <2>8. QED BY <2>4, <2>5, <2>6, <2>7 DEF CmdFile
<1>5. QED BY <1>2, <1>4

LEMMA LoadReturnsTidy ==
    ASSUME Base, LoadReturns
    PROVE  Life' /\ (Tidy => Tidy')
<1>1. /\ cmd # Idle /\ cmd.op = "load" /\ cmd.step = "back" /\ cmd' = Idle
      /\ active' = cmd.at /\ shown' \in RowsOf(cmd.entries)
      /\ UNCHANGED <<wire, stage, end, sent, append, file>>
  BY DEF LoadReturns, Returned, turn
<1>2. Life'
  BY <1>1, LifeStays DEF Base
<1>3. ASSUME Tidy PROVE Tidy'
  <2>1. \A n \in Turns : ~Busy(n)
    BY <1>1, <1>3 DEF Tidy, CommandAlone
  <2>2. SyncEntries(shown') = cmd.entries
    <3>1. cmd.entries \in SUBSET Filed
      BY <1>1, CmdIs DEF Base, Shapes, ViewTypes
    <3>2. QED BY <1>1, <3>1, RowsOfIs
  <2>3. \A n \in Turns : Agrees(n)'
    BY <1>1, <1>3, <2>2 DEF Tidy, Carries, Agrees, Holds
  <2>4. Carries'
    BY <1>1 DEF Carries, Idle
  <2>5. QED BY <1>1, <2>1, <2>3, <2>4, RestTidy DEF Agreement, Base
<1>4. QED BY <1>2, <1>3

LEMMA DeleteReturnsTidy ==
    ASSUME Base, DeleteReturns
    PROVE  Life' /\ (Tidy => Tidy')
<1>1. /\ cmd # Idle /\ cmd.op = "delete" /\ cmd' = Idle
      /\ UNCHANGED <<wire, stage, home, end, sent, append, file>>
  BY DEF DeleteReturns, Returned, turn
<1>2. Life'
  BY <1>1, LifeStays DEF Base
<1>3. ASSUME Tidy PROVE Tidy'
  <2>1. \A n \in Turns : ~Busy(n)
    BY <1>1, <1>3 DEF Tidy, CommandAlone
  <2>2. Carries'
    BY <1>1 DEF Carries, Idle
  <2>3. Agreement'
    <3>1. CASE active = cmd.at
      <4>1. active' \in Fresh
        BY <3>1 DEF DeleteReturns
      <4>2. \A n \in Turns : Settled(n)' => home'[n] # active'
        BY <1>1, <4>1 DEF Settled, Fresh
      <4>3. QED BY <4>2 DEF Agreement
    <3>2. CASE active # cmd.at
      <4>1. UNCHANGED <<active, shown>>
        BY <3>2 DEF DeleteReturns
      <4>2. \A n \in Turns : (Settled(n)' <=> Settled(n)) /\ (Agrees(n)' <=> Agrees(n))
        BY <1>1, <4>1, LifeStays DEF Agrees, Holds
      <4>3. QED BY <1>1, <1>3, <3>2, <4>1, <4>2 DEF Tidy, Agreement, Coherent
    <3>3. QED BY <3>1, <3>2
  <2>4. QED BY <1>1, <2>1, <2>2, <2>3, RestTidy DEF Base
<1>4. QED BY <1>2, <1>3

LEMMA EraseReturnsTidy ==
    ASSUME Base, EraseReturns
    PROVE  Life' /\ (Tidy => Tidy')
<1>1. /\ cmd # Idle /\ shown' = Without(shown, cmd.id)
      /\ cmd' = [op |-> "sync", at |-> active, step |-> "file",
                 entries |-> SyncEntries(Without(shown, cmd.id)), then |-> "nothing"]
      /\ UNCHANGED <<active, wire, stage, end, sent, append>>
  BY DEF EraseReturns, Returned, turn
<1>2. Life'
  BY <1>1, LifeStays DEF Base
<1>3. ASSUME Tidy PROVE Tidy'
  <2>1. \A n \in Turns : ~Busy(n)
    BY <1>1, <1>3 DEF Tidy, CommandAlone
  <2>2. Carries' /\ ~Coherent'
    BY <1>1 DEF Carries, Coherent, Idle
  <2>3. QED BY <1>1, <2>1, <2>2, RestTidy DEF Agreement, Base
<1>4. QED BY <1>2, <1>3

\* A turn is sent while none is under way.
LEMMA DispatchTidy ==
    ASSUME Base, NEW n \in Turns, stage[n] = "unsent", NEW rows, NEW id,
           Dispatch(n, rows, id, active), UNCHANGED <<active, wire, archive>>
    PROVE  /\ Life'
           /\ /\ Tidy /\ Coherent /\ cmd' = Idle
              /\ \A m \in Turns : ~Busy(m) /\ (Holds(rows, m) <=> Holds(shown, m))
              => Tidy'
<1>1. /\ shown' = rows /\ current' = NoId /\ pending' = n
      /\ stage' = [stage EXCEPT ![n] = "asked"] /\ home' = [home EXCEPT ![n] = active]
      /\ UNCHANGED <<active, wire, sent, end, append, draft, file>>
  BY DEF Dispatch, archive
<1>2. stage \in [Turns -> Stages] /\ home \in [Turns -> Sessions]
  BY DEF Base, CoreTypeOK, Shapes, TurnTypes
<1>3. stage'[n] = "asked" /\ home'[n] = active' /\ Others(n)
  BY <1>1, <1>2 DEF Others, OnWire
<1>4. sent[n] = 0 /\ ~OnWire(n) /\ append[n] = "none"
  BY DEF Base, Life, LifeOf
<1>5. Life'
  <2>1. LifeOf(n)'
    BY <1>1, <1>3, <1>4 DEF LifeOf, OnWire
  <2>2. QED BY <1>3, <2>1, LifeTurn DEF Base
<1>6. ASSUME Tidy, Coherent, cmd' = Idle, \A m \in Turns : ~Busy(m),
             \A m \in Turns : Holds(rows, m) <=> Holds(shown, m)
      PROVE  Tidy'
  <2>1. \A m \in Turns : m # n => ~Busy(m)'
    BY <1>3, <1>6, OthersStay
  <2>2. Flight(n)'
    BY <1>1, <1>3, <1>4 DEF Flight, Waiting
  <2>3. ~Settled(n)'
    BY <1>3 DEF Settled
  <2>4. Agreement'
    <3>1. ASSUME NEW m \in Turns, Settled(m)', home'[m] = active' PROVE Agrees(m)'
      <4>1. m # n
        BY <2>3, <3>1
      <4>2. Settled(m) /\ home[m] = active
        BY <1>1, <1>2, <1>3, <3>1, <4>1, OthersStay
      <4>3. Agrees(m)
        BY <1>6, <4>2 DEF Tidy, Agreement
      <4>4. QED BY <1>1, <1>6, <4>3 DEF Agrees, Holds
    <3>2. QED BY <3>1 DEF Agreement
  <2>5. CommandAlone' /\ Carries'
    BY <1>6 DEF CommandAlone, Carries, Idle
  <2>6. OneAtATime' /\ InFlight'
    BY <2>1, <2>2 DEF OneAtATime, InFlight
  <2>7. QED BY <2>4, <2>5, <2>6 DEF Tidy
<1>7. QED BY <1>5, <1>6

LEMMA SubmitTidy ==
    ASSUME Base, Submit
    PROVE  Life' /\ (Tidy /\ Quiet => Tidy')
<1>1. PICK n \in Unsent : Dispatch(n, Append(shown, Row(UserId(n), {n})), UserId(n), active)
  BY DEF Submit
<1> DEFINE r == Row(UserId(n), {n})
<1>2. n \in Turns /\ stage[n] = "unsent" /\ UNCHANGED <<active, wire, archive, cmd>>
  BY DEF Unsent, Submit
<1>3. ASSUME NEW m \in Turns PROVE Holds(Append(shown, r), m) <=> Holds(shown, m)
  <2>1. r \in Rows /\ r.id = UserId(n)
    BY <1>2, IdFacts, RowTypes
  <2>2. ~IsAnswer(r, m)
    <3> HIDE DEF r
    <3>1. QED BY <1>2, <2>1, IdFacts DEF IsAnswer
  <2> HIDE DEF r
  <2>3. QED BY <2>1, <2>2, HoldsAppended DEF Base, Shapes, ViewTypes
<1>4. Life'
  BY <1>1, <1>2, DispatchTidy
<1>5. ASSUME Tidy, Quiet PROVE Tidy'
  BY <1>1, <1>2, <1>3, <1>5, QuietIs, DispatchTidy
<1>6. QED BY <1>4, <1>5

LEMMA SyncReturnsTidy ==
    ASSUME Base, SyncReturns
    PROVE  Life' /\ (Tidy => Tidy')
<1>1. /\ cmd # Idle /\ cmd.op = "sync" /\ cmd.step = "back" /\ cmd' = Idle
      /\ UNCHANGED <<active, wire, archive>>
  BY DEF SyncReturns, Returned
<1>2. CASE cmd.then = "retry" /\ cmd.at \in open /\ ~generating /\ Unsent # {}
  <2>0. PICK n \in Unsent : \E id : Dispatch(n, shown, id, active)
    <3> DEFINE first == CHOOSE m \in Unsent : TRUE
    <3>1. first \in Unsent
      BY <1>2
    <3>2. \E id : Dispatch(first, shown, id, active)
      BY <1>2 DEF SyncReturns
    <3> HIDE DEF first
    <3>3. QED BY <3>1, <3>2
  <2>1. PICK id : Dispatch(n, shown, id, active)
    BY <2>0
  <2>2. n \in Turns /\ stage[n] = "unsent"
    BY DEF Unsent
  <2>3. Life'
    BY <1>1, <2>1, <2>2, DispatchTidy
  <2>4. ASSUME Tidy PROVE Tidy'
    <3>1. Coherent /\ \A m \in Turns : ~Busy(m)
      BY <1>1, <2>4 DEF Coherent, Tidy, CommandAlone
    <3>2. QED BY <1>1, <2>1, <2>2, <2>4, <3>1, DispatchTidy
  <2>5. QED BY <2>3, <2>4
<1>3. CASE ~(cmd.then = "retry" /\ cmd.at \in open /\ ~generating /\ Unsent # {})
  <2>1. UNCHANGED <<active, shown, home, wire, stage, end, sent, append, file>>
    BY <1>1, <1>3 DEF SyncReturns, turn, archive
  <2>2. Life'
    BY <2>1, LifeStays DEF Base
  <2>3. ASSUME Tidy PROVE Tidy'
    <3>1. Coherent /\ \A m \in Turns : ~Busy(m)
      BY <1>1, <2>3 DEF Coherent, Tidy, CommandAlone
    <3>2. Carries'
      BY <1>1 DEF Carries, Idle
    <3>3. \A n \in Turns : (Settled(n)' <=> Settled(n)) /\ (Agrees(n)' <=> Agrees(n))
      BY <2>1, LifeStays DEF Agrees, Holds
    <3>4. Agreement'
      BY <2>1, <2>3, <3>1, <3>3 DEF Tidy, Agreement
    <3>5. QED BY <2>1, <3>1, <3>2, <3>4, RestTidy DEF Base
  <2>4. QED BY <2>2, <2>3
<1>4. QED BY <1>2, <1>3

-----------------------------------------------------------------------------
(* Theorems about the types and the archive *)

LEMMA InitIsOrderly == Init => Orderly
<1> SUFFICES ASSUME Init PROVE Orderly
  OBVIOUS
<1>1. \A n \in Turns : ~OnWire(n)
  BY DEF Init, OnWire
<1>2. \A n \in Turns : ~Busy(n) /\ ~Settled(n) /\ LifeOf(n)
  BY <1>1 DEF Init, Busy, Settled, LifeOf
<1>3. Tidy
  BY <1>2 DEF Init, Idle, Tidy, OneAtATime, CommandAlone, Carries, Agreement, InFlight
<1>4. QED BY <1>2, <1>3 DEF Orderly, Life

LEMMA StepIsOrderly ==
    ASSUME IInv, Types, Orderly, [Next]_vars
    PROVE  Orderly'
<1>1. Base /\ UserTypes
  BY DEF Base, IInv, Types, Shapes, Orderly
<1>2. hasty' = 0 => hasty = 0
  BY <1>1, UserTypesKept
<1>3. SUFFICES Life' /\ (hasty' = 0 => Tidy')
  BY DEF Orderly
<1>4. ASSUME Life', Tidy => Tidy' PROVE Life' /\ (hasty' = 0 => Tidy')
  BY <1>2, <1>4 DEF Orderly
<1>5. CASE UNCHANGED vars
  BY <1>1, <1>4, <1>5, StillTidy DEF Base, vars, webview, turn, archive
<1>6. CASE System
  <2>1. CASE Abort
    BY <1>1, <1>4, <2>1, StillTidy DEF Base, Abort, turn, archive
  <2>2. CASE CmdFile
    BY <1>1, <1>4, <2>2, CmdFileTidy
  <2>3. CASE Finish
    BY <1>1, <1>4, <2>3, LoadReturnsTidy, DeleteReturnsTidy, SyncReturnsTidy, EraseReturnsTidy
       DEF Finish
  <2>4. CASE OnChunk \/ OnDone
    BY <1>1, <1>4, <2>4, OnChunkTidy, OnDoneTidy
  <2>5. ASSUME NEW n \in Turns, Refuse(n) \/ Evaluate(n) \/ Chunk(n)
        PROVE  Life' /\ (Tidy => Tidy')
    BY <1>1, <2>5, RefuseTidy, EvaluateTidy, ChunkTidy
  <2>6. ASSUME NEW n \in Turns, Close(n) \/ AppendRead(n) \/ AppendWrite(n)
        PROVE  Life' /\ (Tidy => Tidy')
    BY <1>1, <2>6, CloseTidy, AppendReadTidy, AppendWriteTidy
  <2>7. ASSUME NEW n \in Turns, NEW how \in Endings(n), EndStream(n, how)
        PROVE  Life' /\ (Tidy => Tidy')
    BY <1>1, <2>7, EndStreamTidy
  <2>8. QED BY <1>4, <1>6, <2>1, <2>2, <2>3, <2>4, <2>5, <2>6, <2>7 DEF System
<1>7. CASE Submit \/ Command
  <2>1. hasty' = 0 => Quiet /\ Tidy
    BY <1>1, <1>7, UserActs, QuietActs DEF Orderly
  <2>2. CASE Submit
    BY <1>1, <2>1, <2>2, SubmitTidy
  <2>3. CASE Command
    <3>1. UNCHANGED <<wire, stage, end, sent, append>>
      BY <2>3, UnrelatedSteps
         DEF Command, NewSignal, Edit, Retry, Erase, Load, Delete, turn, archive
    <3>2. Life'
      BY <1>1, <3>1, LifeStays DEF Base
    <3>3. Life /\ Quiet /\ Tidy => Tidy'
      BY <2>3, NewSignalTidy, EditTidy, RetryTidy, EraseTidy, LoadTidy, DeleteTidy DEF Command
    <3>4. QED BY <1>1, <2>1, <3>2, <3>3 DEF Base
  <2>4. QED BY <1>7, <2>2, <2>3
<1>8. QED BY <1>5, <1>6, <1>7 DEF Next

\* In every reachable state the types hold and, of a user who waits, a turn or a
\* command is the only thing under way: where the row and the file of that turn
\* are by then, and what the command carries between them (evaluate_payload, the
\* listeners, append_session_entries and the commands on session files).
THEOREM ArchiveInvariance == Spec => [](IInv /\ Types /\ Orderly)
<1>1. Init => IInv /\ Types /\ Orderly
  BY InitIsSafe, InitTypes, InitIsOrderly
<1>2. IInv /\ Types /\ Orderly /\ [Next]_vars => (IInv /\ Types /\ Orderly)'
  <2>1. IInv => CoreTypeOK
    BY DEF IInv
  <2>2. QED BY <2>1, StepIsSafe, TypesKept, StepIsOrderly
<1>3. QED BY <1>1, <1>2, PTL DEF Spec

\* The webview, the turns, the slot, the commands and the files keep their types
\* (+page.svelte, lib.rs, memory.rs).
THEOREM TypeCorrect == Spec => []TypeOK
<1>1. IInv /\ Types => TypeOK
  BY TypesSuffice DEF IInv
<1>2. QED BY ArchiveInvariance, <1>1, PTL

\* For a user who waits, the session shown and its file agree on every turn that
\* brought a reply (toSyncEntries, append_session_entries, save_session_entries).
THEOREM FilesMatch == Spec => []ArchiveMatches
<1>1. ASSUME Types, Orderly PROVE ArchiveMatches
  <2>1. SUFFICES ASSUME hasty = 0, Quiet, NEW n \in Turns,
                        home[n] = active, stage[n] = "ended", IsReply(end[n])
                 PROVE  (file[active] # NoFile /\ Answer(n) \in file[active])
                          <=> Answer(n) \in SyncEntries(shown)
    BY DEF ArchiveMatches, Answer
  <2>2. Coherent /\ ~Busy(n) /\ Tidy
    BY <1>1, <2>1, QuietIs DEF Orderly
  <2>3. Agrees(n)
    BY <2>1, <2>2 DEF Tidy, Agreement, Settled
  <2>4. Answer(n) \in file[active] => file[active] # NoFile
    BY NoFileIs
  <2>5. QED BY <2>3, <2>4 DEF Agrees, Holds
<1>2. QED BY ArchiveInvariance, <1>1, PTL
==============================================================================
