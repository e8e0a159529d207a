-------------------------- MODULE MCVarsCacheReport --------------------------
EXTENDS VarsCacheReport

(* The default keywords argument of process_playbook_vars_cache.           *)
MCKeywords == <<"response", "cmd_result">>
=============================================================================
