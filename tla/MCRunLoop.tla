------------------------------ MODULE MCRunLoop ------------------------------
(* One process: a DLL with a TLS callback and a DllMain, an entry point, and *)
(* a thread that guest code may create.                                      *)
EXTENDS RunLoop
CONSTANTS parent, dll, main
MCProcesses == <<parent>>
MCModules == <<dll>>
MCEntryRuns == parent :> <<main>>
==============================================================================
