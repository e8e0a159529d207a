---------------------------- MODULE AnsibleDriver ----------------------------
(***************************************************************************)
(* The command-line driver of src/Automation/psi_ansible.py: the          *)
(* __main__ block turns the options into psi_ops_config flags, optionally *)
(* updates the dat file, then either refreshes the base images and exits  *)
(* or calls main(), which builds an Ansible inventory from the psinet      *)
(* hosts and runs the playbook through run_playbook.  A host stands for    *)
(* its id; the inventory is a function from group names to the hosts      *)
(* added to the group.  The playbook itself, the report it mails and the  *)
(* dat update are external; what is kept of a playbook run is its          *)
(* inventory and the verbose and email_stats arguments it was given.      *)
(***************************************************************************)
EXTENDS Naturals, Sequences

CONSTANTS
    PsinetHosts,   \* ids of the hosts of psi_ops.dat
    Providers,     \* host.provider values
    ProviderOf,    \* provider of each host
    TestHosts,     \* psi_ops_config.ANSIBLE_TEST_HOSTS
    SubsetHosts,   \* the ANSIBLE_TEST_DIGITALOCEAN, _LINODES and _FASTHOSTS lists
    TestGroup,     \* psi_ops_config.ANSIBLE_TEST_GROUP
    BaseHost,      \* the 'linode_base_image' host of prepare_linode_base_host
    VerboseLevel   \* psi_ops_config.ANSIBLE_VERBOSE_LEVEL

(* ProviderOf maps PsinetHosts to Providers; TestGroup, the providers,    *)
(* "linode_base_image" and "Testing" are distinct group names.             *)

(* The -i argument: absent, naming no file, or naming a playbook.          *)
InFiles == {"none", "missing", "playbook"}

Options == [send_mail: BOOLEAN, test_servers: BOOLEAN, subset: BOOLEAN,
            base_image: BOOLEAN, update_dat: BOOLEAN, refresh: BOOLEAN,
            infile: InFiles]

Flags == [testGroup: BOOLEAN, subset: BOOLEAN, baseImage: BOOLEAN]

VARIABLES
    opts,        \* the parsed command line
    cfg,         \* the psi_ops_config flags the driver reads
    pc,          \* "flags", "dat", "refresh", "main" or "done"
    datUpdated,  \* update_dat() was called
    runs         \* history: every run_playbook call, in order

dvars == <<opts, cfg, pc, datUpdated, runs>>

DriverInit ==
    /\ opts \in Options
    /\ cfg \in Flags
    /\ pc = "flags"
    /\ datUpdated = FALSE
    /\ runs = << >>

(* run_playbook(playbook_file, inventory, verbose, email_stats): the run    *)
(* as recorded; with email_stats == True the vars and setup caches are     *)
(* processed and the report mailed.                                        *)
PlaybookRun(origin, inventory, verbose, emailStats) ==
    [origin |-> origin, inventory |-> inventory, verbose |-> verbose,
     emailStats |-> emailStats]

(* organize_hosts_by_provider, populate_ansible_hosts and add_hosts_to_group: *)
(* one group per provider, holding that provider's hosts.                  *)
ProviderGroups(hosts) ==
    [p \in {ProviderOf[h] : h \in hosts} |-> {h \in hosts : ProviderOf[h] = p}]

(* main(): the inventory it builds.  The test group is made from all the   *)
(* psinet hosts, before the subset filter narrows the list the provider    *)
(* groups are made from; the base-image group holds the base host.         *)
MainInventory(flags) ==
    LET sel    == IF flags.subset THEN {h \in PsinetHosts : h \in SubsetHosts}
                  ELSE PsinetHosts
        test   == {h \in PsinetHosts : h \in TestHosts}
        groups == (IF flags.testGroup THEN {TestGroup} ELSE {})
                  \cup {ProviderOf[h] : h \in sel}
                  \cup (IF flags.baseImage THEN {"linode_base_image"} ELSE {})
    IN  [g \in groups |->
            IF g = TestGroup THEN test
            ELSE IF g = "linode_base_image" THEN {BaseHost}
            ELSE ProviderGroups(sel)[g]]

(* The options -t, -s and -b switch the config flags on.                  *)
SetFlags ==
    /\ pc = "flags"
    /\ cfg' = [testGroup |-> cfg.testGroup \/ opts.test_servers,
               subset    |-> cfg.subset \/ opts.subset,
               baseImage |-> cfg.baseImage \/ opts.base_image]
    /\ pc' = "dat"
    /\ UNCHANGED <<opts, datUpdated, runs>>

(* -u: update_dat() runs the external psi_update_dat script.              *)
UpdateDat ==
    /\ pc = "dat"
    /\ datUpdated' = opts.update_dat
    /\ pc' = "refresh"
    /\ UNCHANGED <<opts, cfg, runs>>

(* -r: refresh_base_images(['Testing']) runs update_base_images.yml on a  *)
(* 'Testing' group holding the base host, mailing the report, then         *)
(* exit(0).                                                                *)
RefreshBaseImages ==
    /\ pc = "refresh"
    /\ IF opts.refresh
       THEN /\ runs' = Append(runs, PlaybookRun("refresh",
                         [g \in {"Testing"} |-> {BaseHost}], VerboseLevel, TRUE))
            /\ pc' = "done"
       ELSE /\ pc' = "main"
            /\ UNCHANGED runs
    /\ UNCHANGED <<opts, cfg, datUpdated>>

(* -i: main(infile, send_mail_stats) builds the inventory and, when the    *)
(* file exists, calls run_playbook(playbook_file, inv, send_mail_stats);   *)
(* without -i main() is not called and nothing more happens.  In the call, *)
(* the third positional parameter of run_playbook is verbose, and          *)
(* email_stats keeps its default True.                                     *)
Main ==
    /\ pc = "main"
    /\ runs' = IF opts.infile = "playbook"
               THEN Append(runs, PlaybookRun("main", MainInventory(cfg),
                                             opts.send_mail, TRUE))
               ELSE runs
    /\ pc' = "done"
    /\ UNCHANGED <<opts, cfg, datUpdated>>

DriverNext == SetFlags \/ UpdateDat \/ RefreshBaseImages \/ Main

DriverSpec == DriverInit /\ [][DriverNext]_dvars

-----------------------------------------------------------------------------
(* The -m option, "Send email after playbook is run": the playbook run     *)
(* that main() starts mails its report exactly when -m was given.          *)
(* Concerns the positional arguments of main's call to run_playbook.       *)
MailIffRequested ==
    \A i \in DOMAIN runs :
        runs[i].origin = "main" => (runs[i].emailStats <=> opts.send_mail)

=============================================================================
