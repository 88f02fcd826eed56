----------------------------- MODULE MCTopasRun -----------------------------
(* Model values and bounds for TopasRun.                                   *)
EXTENDS TopasRun

With(phases, background, option, config, installed) ==
    [phases |-> phases, background |-> background, option |-> option,
     config |-> config, installed |-> installed]

(* A Rietveld recipe and a single-peak one, with and without a background,
   under the default limit and under none; and the runs that never reach
   tc.exe.                                                                 *)
MCJobs ==
    {With(TRUE, TRUE, "unset", "unset", "declared"),
     With(FALSE, TRUE, "zero", "limit", "declared"),
     With(FALSE, FALSE, "limit", "zero", "declared"),
     With(FALSE, FALSE, "unset", "invalid", "declared"),
     With(FALSE, TRUE, "unset", "limit", "none"),
     With(FALSE, TRUE, "limit", "unset", "undeclared")}
=============================================================================
