---------------------------- MODULE MCAiGateway ----------------------------
(***************************************************************************)
(* AiGateway on a small instance: two units a minute and two a day, of     *)
(* which parses leave one a day and summaries one a minute and one a day.  *)
(***************************************************************************)
EXTENDS AiGateway, TLC

MCDeployments == {[chat |-> "groq", summary |-> "groq",
                   chatFallback |-> TRUE, summaryFallback |-> TRUE],
                  [chat |-> "gemini", summary |-> "groq",
                   chatFallback |-> FALSE, summaryFallback |-> FALSE]}

MCMinuteReserve == [w \in Workloads |-> IF w = "summary" THEN 1 ELSE 0]
MCDayReserve == [w \in Workloads |-> IF w = "chat-fallback" THEN 0 ELSE 1]
MCThresholds == {50}

Symmetry == Permutations(Requests)
=============================================================================
