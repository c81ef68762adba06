-------------------------- MODULE MCRunLoopChildren --------------------------
(* A parent with a TLS callback and an entry point, a child, and a child       *)
(* without an entry point: what one start() leaves behind for the next one.    *)
EXTENDS RunLoop
CONSTANTS parent, child, data, main1, main2, main3
MCProcesses == <<parent, child, data>>
MCModules == <<>>
MCEntryRuns == (parent :> <<main1, main2>>) @@ (child :> <<main3>>) @@ (data :> <<>>)
==============================================================================
