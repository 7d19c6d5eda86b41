------------------------------- MODULE MCPage -------------------------------
(***************************************************************************)
(* The page with two ranges of the power chart, up to three days and a     *)
(* ring of four points.  One plan each for the tabs with their timers and *)
(* charts, for the export, for the stream; one goes from tab to tab.       *)
(***************************************************************************)
EXTENDS Page

MCPlans ==
  {{"live", "power", "hours"}, {"live", "logs", "process"},
   {"report", "walk", "day"}, {"stream"}, {"power", "report", "logs", "walk"}}
=============================================================================
