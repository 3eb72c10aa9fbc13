----------------------------- MODULE MCSuiteRun -----------------------------
(* Small suites for SuiteRun: a collection with a folder, a request that is
   skipped in runs at either end, and a request outside every folder. *)
EXTENDS SuiteRun

Request(chain, skip, extracts) ==
  [chain |-> chain, skip |-> skip, extracts |-> extracts]

Root(extracts) == Request(<<"c">>, FALSE, extracts)
InFolder(extracts) == Request(<<"c", "f">>, FALSE, extracts)
Off == Request(<<"c", "f">>, TRUE, TRUE)

MCScopes == {"c", "f"}
MCSuites ==
  { <<>>,
    <<Root(TRUE), InFolder(FALSE), InFolder(TRUE)>>,
    <<Off, InFolder(TRUE), Root(FALSE)>>,
    <<InFolder(FALSE), Root(TRUE), Off>> }
=============================================================================
