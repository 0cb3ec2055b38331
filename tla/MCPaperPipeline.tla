---------------------------- MODULE MCPaperPipeline ----------------------------
(* Small instances of PaperPipeline for TLC. *)
EXTENDS PaperPipeline

CONSTANTS p1, p2, r1, r2, w1, w2

OnePaper == {p1}
TwoPapers == {p1, p2}
OneRun == {r1}
TwoRuns == {r1, r2}
OneWorker == {w1}
TwoWorkers == {w1, w2}
=============================================================================
