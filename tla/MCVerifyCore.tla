---------------------------- MODULE MCVerifyCore ----------------------------
(* Answers for the runs: official ones, and each single departure.         *)
EXTENDS VerifyCore

Departures ==
  {OfficialShape,
   [OfficialShape EXCEPT !.stop = "openai"],
   [OfficialShape EXCEPT !.usage = "openai", !.tokens = FALSE],
   [OfficialShape EXCEPT !.id = FALSE, !.headers = FALSE],
   BlankShape}

\* The probes the web front end asks for, and those of the command line
WebRequests == {{}, {"capability", "variance", "identity"}}
AllRequests == WebRequests \cup {{"sse", "error_envelope", "needle", "identity"}}
SseRequests == {{"sse"}}
=============================================================================
