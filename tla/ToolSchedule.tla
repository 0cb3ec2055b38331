----------------------------- MODULE ToolSchedule -----------------------------
(***************************************************************************)
(* How oligo/core/agent.py splits one router answer into work: denied      *)
(* calls are answered without running, the allowed ones are cut into       *)
(* batches by oligo/tools/registry.py.  A call is a record with at least   *)
(* the field kind: "denied", "safe" (concurrency_safe), "unsafe", or       *)
(* "long" (unsafe, and its work goes on in a background task).             *)
(***************************************************************************)
EXTENDS Naturals, Sequences

Kind == {"denied", "safe", "unsafe", "long"}

IsConcurrencySafe(call) == call.kind = "safe"

\* The calls of some kinds, in their order.
OfKind(calls, kinds) ==
  LET kept[n \in 0..Len(calls)] ==
        IF n = 0 THEN <<>>
        ELSE IF calls[n].kind \in kinds THEN Append(kept[n - 1], calls[n])
        ELSE kept[n - 1]
  IN kept[Len(calls)]

\* _split_planned_denied_allowed keeps the order of both parts.
Denied(calls) == OfKind(calls, {"denied"})
Allowed(calls) == OfKind(calls, Kind \ {"denied"})

Flushed(batches, current) == IF current = <<>> THEN batches ELSE Append(batches, current)

\* Mutants: the open batch is flushed only at the end, behind the unsafe call that
\* should have waited for it; or it is forgotten at the end.
PartitionToolCalls_LateFlush(calls) ==
  LET after[n \in 0..Len(calls)] ==
        IF n = 0 THEN [batches |-> <<>>, current |-> <<>>]
        ELSE IF IsConcurrencySafe(calls[n])
        THEN [after[n - 1] EXCEPT !.current = Append(@, calls[n])]
        ELSE [after[n - 1] EXCEPT !.batches = Append(@, <<calls[n]>>)]
  IN Flushed(after[Len(calls)].batches, after[Len(calls)].current)

\* One turn of the loop: a safe call joins the open batch, any other call closes it and
\* has a batch of its own.
Placed(acc, call) ==
  IF IsConcurrencySafe(call)
  THEN [acc EXCEPT !.current = Append(@, call)]
  ELSE [batches |-> Append(Flushed(acc.batches, acc.current), <<call>>), current |-> <<>>]

PartitionToolCalls_LosesTail(calls) ==
  LET after[n \in 0..Len(calls)] ==
        IF n = 0 THEN [batches |-> <<>>, current |-> <<>>] ELSE Placed(after[n - 1], calls[n])
  IN after[Len(calls)].batches

\* partition_tool_calls: consecutive safe calls share a batch, any other call has
\* one of its own.
PartitionToolCalls(calls) ==
  LET after[n \in 0..Len(calls)] ==
        IF n = 0 THEN [batches |-> <<>>, current |-> <<>>] ELSE Placed(after[n - 1], calls[n])
  IN Flushed(after[Len(calls)].batches, after[Len(calls)].current)
=============================================================================
