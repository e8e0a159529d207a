--------------------------- MODULE VarsCacheReport ---------------------------
(***************************************************************************)
(* process_playbook_vars_cache of src/Automation/psi_ansible.py: after a   *)
(* playbook run, the per-host variables cache is split into the hosts     *)
(* whose command wrote to stderr and those that wrote to stdout, for the  *)
(* report mailed by run_playbook.  A cache entry keeps what the function  *)
(* reads of it: which result keywords it holds and the changed, stderr    *)
(* and stdout flags of the result.  The cache is a dict, so the order of  *)
(* the loop is the dict's and is left open: any order of the hosts.       *)
(*                                                                         *)
(* The state is one input (a cache and an order); every input is an       *)
(* initial state, so the properties are checked on every input.           *)
(***************************************************************************)
EXTENDS Naturals, Sequences, FiniteSets, Functions

CONSTANTS
    CacheHosts,   \* host names of the playbook run
    Keywords      \* the keywords argument, in order

Entry == [kws: SUBSET Range(Keywords), changed: BOOLEAN,
          stderr: BOOLEAN, stdout: BOOLEAN]

Orders(H) == {s \in [1..Cardinality(H) -> H] : Range(s) = H}

VARIABLES cache, order

(* The loop: hosts are visited in dict order; a host whose entry holds     *)
(* none of the keywords ends the function (`return`); otherwise the first  *)
(* keyword's result files the host under errors (changed, stderr) or       *)
(* output (changed, stdout).  The result of the first keyword found is    *)
(* the one read; with the flags abstracted per entry that is the entry's. *)
ProcessVarsCache(c, o) ==
    LET step[k \in 0..Len(o)] ==
          IF k = 0 THEN [output |-> {}, errs |-> {}, stop |-> FALSE]
          ELSE LET acc == step[k - 1]
                   e   == c[o[k]]
               IN  CASE acc.stop       -> acc
                     [] e.kws = {}     -> [acc EXCEPT !.stop = TRUE]
                     [] e.changed /\ e.stderr -> [acc EXCEPT !.errs = @ \cup {o[k]}]
                     [] e.changed /\ e.stdout -> [acc EXCEPT !.output = @ \cup {o[k]}]
                     [] OTHER          -> acc
    IN  [output |-> step[Len(o)].output, errs |-> step[Len(o)].errs]

(* Reference: what the report is documented to hold, every host whose     *)
(* keyword result changed something, filed by the stream it wrote to.     *)
IntendedReport(c) ==
    LET ran == {h \in DOMAIN c : c[h].kws # {} /\ c[h].changed}
    IN  [errs   |-> {h \in ran : c[h].stderr},
         output |-> {h \in ran : ~c[h].stderr /\ c[h].stdout}]

Caches == UNION {[H -> Entry] : H \in SUBSET CacheHosts}

ReportInit == cache \in Caches /\ order \in Orders(DOMAIN cache)

ReportNext == UNCHANGED <<cache, order>>

-----------------------------------------------------------------------------
(* The report covers every host, whatever the dict order: no host with a  *)
(* changed result is left out.  Concerns the `return` on a host without   *)
(* any keyword, where skipping that host (`continue`) is what the loop     *)
(* over all hosts is for.                                                  *)
ReportComplete == ProcessVarsCache(cache, order) = IntendedReport(cache)

=============================================================================
