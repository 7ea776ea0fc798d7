--------------------------- MODULE MCResearchLoop ---------------------------
(* Model-checking instance of ResearchLoop: three urls a search may        *)
(* return and a spelling of the second that only a redirect uses.          *)
EXTENDS ResearchLoop, TLC

CONSTANTS a, b, c, rawB
=============================================================================
