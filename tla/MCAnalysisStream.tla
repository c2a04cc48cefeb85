--------------------------- MODULE MCAnalysisStream ---------------------------
(***************************************************************************)
(* AnalysisStream for TLC.                                                 *)
(***************************************************************************)
EXTENDS AnalysisStream

Frames == {Message("none", "none"), Message("running", "some"), Message("running", "empty"),
           Message("over", "none"), Plain("note"), Plain("garbled"), Plain("done")}

\* All streams of two frames, and some of three.
MCStreams ==
    SeqOf(Frames, 2) \cup
        {<<Message("running", "some"), Plain("note"), Message("over", "none")>>,
         <<Message("running", "some"), Message("running", "empty"), Message("over", "none")>>,
         <<Message("over", "some"), Plain("done"), Message("running", "none")>>}
===============================================================================
