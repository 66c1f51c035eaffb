----------------------------- MODULE MCAiUsage -----------------------------
(***************************************************************************)
(* Small instance of AiUsage: two requests and two grants over two days.   *)
(* The second day opens a new day and a new month in the same week, so a   *)
(* hold of the first day is closed in windows of which one is still        *)
(* current and two are past.                                               *)
(***************************************************************************)
EXTENDS AiUsage

MCWindowStart ==
  [p \in PeriodType |-> IF p = "weekly" THEN [t \in Time |-> 0] ELSE [t \in Time |-> t]]

\* A plan that includes tokens, with the week as the tightest limit, and one
\* that includes none.
MCLimits == {[daily |-> 2, weekly |-> 3, monthly |-> 4],
             [daily |-> 0, weekly |-> 0, monthly |-> 0]}
=============================================================================
