------------------------------ MODULE ToolText ------------------------------
(***************************************************************************)
(* What Oligo does to the text of the model: reasoning tags are taken out, *)
(* Markdown code is set aside, tool calls are matched, the calls are       *)
(* written to the history, and the syntax is taken out of what is shown    *)
(* (text_sanitizer.py, tool_protocol.py and their callers in agent.py).    *)
(*                                                                         *)
(* A text is a sequence of marks [t, at]: a token and its place in what    *)
(* the model wrote, so that a mark can be followed through every removal.  *)
(* Tokens are what the regular expressions tell apart:                     *)
(*   tick      one backtick; three in a row are a fence                    *)
(*   nl        a line break                                                *)
(*   json      an argument that parses, or any other words                 *)
(*   odd       an argument that parses after a repair, or any other words  *)
(*   xopen     <tool_call name="..">     xbare   <tool_call>               *)
(*   xclose    </tool_call>                                                *)
(*   cmdopen   <CMD:tool(                cmdend  )>                        *)
(*   pass      <PASS>                                                      *)
(*   think     <thinking>                unthink </thinking>               *)
(* A regular expression is the function from a start to the end of its     *)
(* match there, 0 for none; Spans is what finditer yields.                 *)
(***************************************************************************)
EXTENDS Integers, Sequences, FiniteSets, SequencesExt

Token == {"tick", "nl", "json", "odd", "xopen", "xbare", "xclose", "cmdopen", "cmdend",
          "pass", "think", "unthink"}

CONSTANT Replies    \* what the model may write

ASSUME RepliesAssumption == Replies \subseteq Seq(Token)

Mark == [t : Token, at : Nat]

Marked(tokens) == [i \in 1 .. Len(tokens) |-> [t |-> tokens[i], at |-> i]]

VARIABLES
    stage,     \* what has been done to the text
    reply,     \* what the model wrote
    calls,     \* the calls planned from it
    history    \* the row it leaves in messages, or the answer shown

vars == <<stage, reply, calls, history>>

-----------------------------------------------------------------------------
\* Matching

Is(s, i, t) == i \in DOMAIN s /\ s[i].t = t

\* the first j after i with a token of ts, 0 if there is none
After(s, i, ts) ==
    LET later == {j \in DOMAIN s : j > i /\ s[j].t \in ts}
    IN IF later = {} THEN 0 ELSE CHOOSE j \in later : \A k \in later : j <= k

\* leftmost matches that do not overlap
Spans(end) ==
    LET upto[n \in 0 .. Len(end)] ==
            IF n = 0 THEN 0
            ELSE LET u == upto[n - 1] IN IF end[n] # 0 /\ n > u THEN end[n] ELSE u
    IN {<<i, end[i]>> : i \in {j \in 1 .. Len(end) : end[j] # 0 /\ j > upto[j - 1]}}

Covered(spans) == UNION {a[1] .. a[2] : a \in spans}

\* what s has at places
Pick(s, places) ==
    LET taken[n \in 0 .. Len(s)] ==
            IF n = 0 THEN <<>>
            ELSE IF n \in places THEN Append(taken[n - 1], s[n]) ELSE taken[n - 1]
    IN taken[Len(s)]

Without(s, end) == Pick(s, DOMAIN s \ Covered(Spans(end)))

\* from a token of opens, lazily, to the next of closes
Pair(s, opens, closes) ==
    [i \in DOMAIN s |-> IF s[i].t \in opens THEN After(s, i, closes) ELSE 0]

Single(s, ts) == [i \in DOMAIN s |-> IF s[i].t \in ts THEN i ELSE 0]

-----------------------------------------------------------------------------
\* Code

IsFence(s, i) == Is(s, i, "tick") /\ Is(s, i + 1, "tick") /\ Is(s, i + 2, "tick")

\* _FENCED_BLOCK_REGEX
Fenced(s) ==
    [i \in DOMAIN s |->
        LET ends == {j \in DOMAIN s : j > i + 2 /\ IsFence(s, j)}
        IN IF IsFence(s, i) /\ ends # {} THEN 2 + (CHOOSE j \in ends : \A k \in ends : j <= k)
           ELSE 0]

\* _INLINE_CODE_REGEX
Inline(s) ==
    [i \in DOMAIN s |->
        LET j == After(s, i, {"tick"})
        IN IF s[i].t = "tick" /\ j > i + 1 /\ \A k \in i .. j : s[k].t # "nl" THEN j ELSE 0]

\* Mutant: only whole blocks are set aside.
StripCode_FencesOnly(s) == Without(s, Fenced(s))

\* strip_code_blocks_for_tool_matching
StripCode(s) == LET out == Without(s, Fenced(s)) IN Without(out, Inline(out))

\* what lies between spans, from its first place to its last
Gaps(s, spans) ==
    LET free == DOMAIN s \ Covered(spans)
    IN {g \in free \X free : /\ g[1] <= g[2] /\ g[1] .. g[2] \subseteq free
                            /\ g[1] - 1 \notin free /\ g[2] + 1 \notin free}

\* _all_code_spans: fenced blocks, and inline code in each gap between them
CodeSpans(s) ==
    LET blocks == Spans(Fenced(s))
        inlineIn(g) == {<<a[1] + g[1] - 1, a[2] + g[1] - 1>> :
                            a \in Spans(Inline(SubSeq(s, g[1], g[2])))}
    IN blocks \cup UNION {inlineIn(g) : g \in Gaps(s, blocks)}

-----------------------------------------------------------------------------
\* Taking syntax out

Trim(s) ==
    LET words == {i \in DOMAIN s : s[i].t # "nl"}
    IN Pick(s, {i \in DOMAIN s : \E j, k \in words : j <= i /\ i <= k})

\* runs of three line breaks or more become two
Squeeze(s) ==
    Pick(s, {i \in DOMAIN s : ~(Is(s, i, "nl") /\ Is(s, i - 1, "nl") /\ Is(s, i - 2, "nl"))})

Closing == {"xopen", "xbare", "xclose", "cmdend", "pass", "think", "unthink"}  \* hold a >

\* <CMD to the end of the text: no > follows any more
Cut(s) ==
    LET open == {i \in DOMAIN s : s[i].t = "cmdopen"}
    IN Pick(s, {i \in DOMAIN s : \A j \in open : i < j})

\* Mutant: the old form only.
StripRaw_CmdOnly(s) ==
    LET b == Without(s, Pair(s, {"cmdopen"}, {"cmdend"}))
        c == Cut(Without(b, Pair(b, {"cmdopen"}, Closing)))
    IN Trim(Squeeze(Without(c, Single(c, {"pass"}))))

\* _strip_cmd_pass_toolcall_raw
StripRaw(s) ==
    LET a == Without(s, Pair(s, {"xopen", "xbare"}, {"xclose"}))
        b == Without(a, Pair(a, {"cmdopen"}, {"cmdend"}))
        c == Cut(Without(b, Pair(b, {"cmdopen"}, Closing)))
    IN Trim(Squeeze(Without(c, Single(c, {"pass"}))))

\* strip_tool_syntax_in_visible: code as it is, every gap cleaned by itself
StripVisible(s) ==
    LET code == CodeSpans(s)
        made(p) == LET part == SubSeq(s, p[1], p[2]) IN IF p \in code THEN part ELSE StripRaw(part)
        endAt(n) == {p \in code \cup Gaps(s, code) : p[2] = n}
        upto[n \in 0 .. Len(s)] ==
            IF n = 0 THEN <<>>
            ELSE upto[n - 1] \o (IF endAt(n) = {} THEN <<>> ELSE made(CHOOSE p \in endAt(n) : TRUE))
    IN Trim(upto[Len(s)])

\* strip_reasoning_tags: pairs, closing tags, and from an opening tag to the end.
\* The code takes pairs out until none is left: one round leaves none (OneRound).
StripReasoning(s) ==
    LET inner == Without(s, Pair(s, {"think"}, {"unthink"}))
        bare == Without(inner, Single(inner, {"unthink"}))
        open == {i \in DOMAIN bare : bare[i].t = "think"}
    IN Pick(bare, {i \in DOMAIN bare : \A j \in open : i < j})

-----------------------------------------------------------------------------
\* Calls

XmlSpans(s) == Spans(Pair(s, {"xopen"}, {"xclose"}))
CmdSpans(s) == Spans(Pair(s, {"cmdopen"}, {"cmdend"}))

Fence == <<"tick", "tick", "tick">>
TrimFence(said) == IF IsSuffix(Fence, said) THEN SubSeq(said, 1, Len(said) - 3) ELSE said

\* parse_args_with_repair, which takes a fence off and repairs what is odd
Args(body) ==
    LET said == SelectSeq([i \in DOMAIN body |-> body[i].t], LAMBDA t : t # "nl")
        bare == IF IsPrefix(Fence, said) THEN TrimFence(SubSeq(said, 4, Len(said))) ELSE said
    IN CASE said = <<>> -> "none"
         [] said = <<"json">> -> "as written"
         [] bare \in {<<"json">>, <<"odd">>} -> "repaired"
         [] OTHER -> "invalid"

\* the spans, oldest first
InOrder(spans, n) ==
    LET starts == Pick([i \in 1 .. n |-> i], {a[1] : a \in spans})
    IN [k \in 1 .. Len(starts) |-> CHOOSE a \in spans : a[1] = starts[k]]

\* _parse_one_xml_match, and its like for the old form
CallOf(s, a) ==
    [at |-> s[a[1]].at, args |-> Args(SubSeq(s, a[1] + 1, a[2] - 1))]

\* parse_tool_calls_unified and the part of _parse_tool_calls about arguments
Parse(s) ==
    LET order == InOrder(XmlSpans(s) \cup CmdSpans(s), Len(s))
    IN [k \in 1 .. Len(order) |-> CallOf(s, order[k])]

\* extract_tool_syntax_for_history, joined by line breaks
Extract(s) ==
    LET order == InOrder(XmlSpans(s) \cup CmdSpans(s), Len(s))
        joined[n \in 0 .. Len(order)] ==
            IF n = 0 THEN <<>>
            ELSE joined[n - 1] \o SubSeq(s, order[n][1], order[n][2]) \o <<[t |-> "nl", at |-> 0]>>
    IN Trim(joined[Len(order)])

-----------------------------------------------------------------------------
Init ==
    /\ stage \in {"probe", "answer"}
    /\ reply \in {Marked(tokens) : tokens \in Replies}
    /\ calls = <<>> /\ history = <<>>

\* _step_route: no call, and the draft is what is left of the probe
Route ==
    /\ stage = "probe"
    /\ LET probe == StripReasoning(reply)
       IN /\ calls' = Parse(StripCode(probe))
          /\ history' = IF calls' = <<>> THEN StripVisible(probe) ELSE <<>>
    /\ stage' = IF calls' = <<>> THEN "sent" ELSE "planned"
    /\ UNCHANGED reply

\* _step_render: the row of the calls, a text of its own
Render ==
    /\ stage = "planned"
    /\ LET row == Extract(StripCode(StripReasoning(reply)))
       IN history' = Marked([i \in 1 .. Len(row) |-> row[i].t])
    /\ stage' = "rendered"
    /\ UNCHANGED <<reply, calls>>

\* sanitize_messages_history, before every request to the model that follows
Resend ==
    /\ stage \in {"rendered", "sent", "resent"}
    /\ history' = StripReasoning(StripVisible(history))
    /\ stage' = "resent"
    /\ UNCHANGED <<reply, calls>>

\* _step_synthesize: the answer as it is streamed
Show ==
    /\ stage = "answer"
    /\ history' = StripVisible(StripReasoning(reply))
    /\ stage' = "shown"
    /\ UNCHANGED <<reply, calls>>

Next == Route \/ Render \/ Resend \/ Show

Spec == Init /\ [][Next]_vars

-----------------------------------------------------------------------------
\* Properties

InExample(probe) ==
    LET blocks == Spans(Fenced(probe))
    IN Covered(IF blocks = {} THEN Spans(Inline(probe)) ELSE blocks)

\* Examples stay examples, whatever is removed around them: a call that stands in
\* a closed fenced block never runs, nor one in inline code of a reply without
\* blocks, and code in an answer is shown as the model wrote it
\* (_strip_markdown_code_for_cmd_extraction, _rebuild_protected).
ExamplesStayExamples ==
    LET probe == StripReasoning(reply) IN
        /\ stage = "planned" =>
            \A k \in DOMAIN calls : \A i \in InExample(probe) : probe[i].at # calls[k].at
        /\ stage = "shown" =>
            \A i \in Covered(CodeSpans(probe)) : \E j \in DOMAIN history : history[j] = probe[i]

\* What s becomes in out: a call of the old form, or a <PASS>, is left only where it
\* stood in code, and a tool_call tag comes before a closing one only with code
\* at one of them or between them.
Cleaned(s, out) ==
    LET code == {s[i] : i \in Covered(CodeSpans(s))}
    IN /\ \A i \in DOMAIN out : out[i].t \in {"cmdopen", "pass"} => out[i] \in code
       /\ \A i, j \in DOMAIN out :
             i < j /\ out[i].t \in {"xopen", "xbare"} /\ out[j].t = "xclose"
             => \E k \in i .. j : out[k] \in code

\* Only code holds calls: whatever is shown, or kept as a draft, or sent again, a
\* removal neither leaves a call in it nor makes one, except in code or around it
\* (strip_tool_syntax_in_visible, sanitize_messages_history).
OnlyCodeHoldsCalls ==
    [][ /\ stage' \in {"sent", "shown"} => Cleaned(StripReasoning(reply), history')
        /\ stage' = "resent" => Cleaned(history, history') ]_vars

\* An argument written in a fence reaches its tool: that is what the repair
\* strip_code_fence is for (parse_args_with_repair).
FencedArgsArrive ==
    stage = "planned" =>
        LET probe == StripReasoning(reply)
        IN \A a \in XmlSpans(probe), k \in DOMAIN calls :
              /\ probe[a[1]].at = calls[k].at
              /\ Args(SubSeq(probe, a[1] + 1, a[2] - 1)) = "repaired"
              => calls[k].args = "repaired"
=============================================================================
