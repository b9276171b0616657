----------------------------- MODULE MCDownload -----------------------------
(* Instances of Download for TLC.                                          *)
EXTENDS Download, TLC

CONSTANTS c1, c2, pa, pb, pc, pd, pe

\* A chunk that occurs twice; two providers that complement each other after
\* one that lies, then single candidates.
Contents == <<c1, c2, c1>>
Kinds ==
    pa :> "liar" @@ pb :> "partial" @@ pc :> "honest" @@ pd :> "hollow" @@ pe :> "forger"
Candidates == <<<<pa, pb, pc>>, <<pd>>, <<pe>>, <<pc>>>>
=============================================================================
