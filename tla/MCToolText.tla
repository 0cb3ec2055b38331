----------------------------- MODULE MCToolText -----------------------------
(* Texts over every token; a fence counts as one piece. *)
EXTENDS ToolText

CONSTANT MaxPieces    \* bound: pieces in a reply

Words == {<<"json">>, <<"odd">>, <<"nl">>}
Code == {<<"tick">>, Fence}
Tags == {<<"xopen">>, <<"xbare">>, <<"xclose">>, <<"cmdopen">>, <<"cmdend">>}
Signs == {<<"pass">>, <<"think">>, <<"unthink">>}
Quoted == {<<"tick", "cmdopen", "cmdend", "tick">>, Fence \o <<"json">> \o Fence}
Pieces == Words \cup Code \cup Tags \cup Signs \cup Quoted

Short == {FlattenSeq(ps) : ps \in UNION {[1 .. n -> Pieces] : n \in 0 .. MaxPieces}}

\* A row of calls that keeps a call when it is sent again, and drafts like it.
Straddling ==
    {<<"xopen", "tick", "tick", "json", "tick", "json", "tick", "xclose">>,
     <<"xopen", "tick", "json", "xclose", "tick">>,
     <<"tick", "xopen", "nl", "xclose", "tick", "xopen", "tick", "json", "tick", "xclose">>,
     <<"tick", "json", "nl", "tick", "xopen", "tick", "tick", "json", "tick", "xclose">>}

ShortAndStraddling == Short \cup Straddling
=============================================================================
