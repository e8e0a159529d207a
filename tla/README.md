# TLA+ models of the Psiphon directory, deploy export and helpers

This directory holds TLA+ specifications of the programs under `src/`, the
TLC configurations that model-check them on small instances, and TLAPS proofs
of the central invariants for every value of the constants. `PROJECT.json`
lists each run, the code lines every definition models, the findings and the
hazards. Run every command from this directory, for example
`tlc -workers 2 -config MCPsiDb.cfg MCPsiDb` or `tlapm PsiDbRefinement.tla`.

## The system

| Part | Source | What it does |
|---|---|---|
| Directory store | `src/Data/psi_db.py` `read_data`, `update_data` (91-150) | Six sheets of an `.xls` file. Every call re-reads the whole file. `update_data` copies the opened workbook, writes the new cells into the copy and saves it over the file, with no lock. |
| Discovery bucketer | `get_encoded_server_list` (211-241) | Embedded list: the client's servers with no window. Discovery: the client's servers whose window holds `discovery_date`, reduced to one server chosen by `ip mod n` in row order. |
| Handshake encoder | `handshake`, `get_sponsor_home_pages`, `get_region`, `get_upgrade` (259-331) | The home page lines (region, else the sponsor's default), the upgrade line and the server lines. |
| Host compartmentalizer | `make_file_for_host`, `get_discovery_client_ids_for_host` (338-420) | Writes the per-host file holding the clients the host serves and the servers they may need. |
| Web server | `src/Server/psiphonv_web.py` | Checks `server_secret` and the parameters (404 otherwise) and answers with the core's handshake lines. |
| Mail sender | `src/EmailResponder/FeedbackDecryptor/mailsender.py` | A polling loop. It answers feedback emails whose diagnostic info has arrived and then deletes them, expires old ones and sleeps. |
| Ansible helper | `src/Automation/psi_ansible.py` | A command-line driver: options set config flags, `main` builds an inventory from the psinet hosts and runs a playbook through `run_playbook`, which may mail a report built by `process_playbook_vars_cache`. |
| Tunnel client | `src/pyclient/psi_client.py` | A scripted SSH session. |

How the parts interact:
- The web server process imports `psi_db` once and serves handshakes from the sheet.
- Administrators and `update_servers` callers write the sheet.
- A deploy runs `make_file_for_host` per host, reading the sheet while those writers may run.
- The mail sender and the Ansible helper share no state with the directory.

## Modules

- **PsiDirectory**: the Servers sheet as a sequence of rows.
  - A row keeps Host_ID, Discovery_Client_ID, the window bounds and Web_Server_Secret. A server's address, port and certificate never change, so the row number stands for them.
  - An empty cell is `None`.
  - It also holds `update_data`'s effect on a copy: `KeysFound` (the `list.index` lookup that raises ValueError) and `ApplyUpdates` (the last write of a batch wins).
- **PsiDiscovery**: the pure functions the web server calls.
  - A list built in table order is a set of row numbers. Its order matters only for the bucket index, which `Rank` models.
  - `HandshakeResponse` gives status 500 for the two exceptions of `get_upgrade`: an empty Versions sheet and a non-numeric version.
- **AtomicDirectory**: what the spec (section 4.1) promises of the sheet, with no code behind it.
  - `sheet` is the Servers sheet and `pending` holds each caller's update call in progress.
  - `Call` issues a call. `Commit` applies all of its updates at once, and only when every key is found.
  - `AddRow` is an administrator's append.
- **PsiDb**: the running system. Its state:
  - `servers`: the sheet;
  - `now`: the clock;
  - `procDate`: the default `discovery_date` evaluated when the web server imported `psi_db`;
  - `upd`: per `update_servers` caller, the copy it is about to save and the batch it applied;
  - `status`: the HTTP status of the last response;
  - `log`: history of every server list handed out.

  Actions:
  - `Handshake`: `psiphonv_web.handshake` together with `psi_db.handshake`.
  - `Embed`.
  - `UpdateOpen` / `UpdateSave`: `update_data` split at `xls.save`, because the sheet can change in between.
  - `AdminAddServer`: an out-of-band edit of the file.
  - `StartWebServer`: a process (re)start.
  - `Tick`: time passing.
- **HostExport** (extends PsiDb): one deploy per host.
  - `DeployRead` is the reads of `make_file_for_host` up to `get_versions`.
  - `DeployWrite` is the second read of the Servers sheet by `get_discovery_client_ids_for_host`, the filters and the save. It fails with TypeError on a row with a start and no end.
  - The rows the server loop writes are keyed by the sheet row they come from, so the file keeps the sheet's order. `ExportServers` is that function of the filtered row numbers.
  - `held` records every sheet the deploy in progress could still make its file from. `source` keeps, for each written file, the `held` of the deploy that wrote it. Both are history variables: no action reads them.
- **MailSender**: `go()` and its iterator.
  - Per record: `Visit` (find, or `continue`), `Send` (success or SMTPException), then `Remove`.
  - `EndPass` expires old records, `Wake` starts the next pass, and `CrashRestart` re-runs `go()`.
  - The datastore, the mail responder and the decryptor are not in the repository. Their inserts are environment actions.
- **MailBox**: what the module docstring of `mailsender.py` promises, without the loop. Its state is the stored records, their ages, the arrived diagnostic info and the answered records. Its actions:
  - `Insert`, `Diagnose` and `Tick` are the environment and time.
  - `Answer(r)` replies to a stored email whose diagnostic info is there.
  - `Retire(R)` deletes records that were answered or have expired.
  - It allows a record to be answered twice, because the code does that after a restart (MCMailSenderCrash).
- **AnsibleDriver**: the `__main__` block and `main` of `psi_ansible.py`.
  - State: the parsed options, the config flags, the program counter, whether `update_dat` ran, and a history `runs` of every `run_playbook` call.
  - Each call is recorded with its inventory, its `verbose` argument and its `email_stats` argument. The inventory maps group names to hosts.
  - `SetFlags` (-t, -s, -b), `UpdateDat` (-u), `RefreshBaseImages` (-r, then exit) and `Main` (-i) follow the order of the block.
  - `MainInventory` builds the test group from all hosts before the subset filter, the provider groups from the filtered hosts, and the base-image group.
- **VarsCacheReport**: `process_playbook_vars_cache` as a fold over the cache in a dict order left open. It is checked against `IntendedReport` on every cache of up to three hosts.
- **MCPsiDb, MCHostExport, MCVarsCacheReport, MCAnsibleDriver**: the models for TLC. They supply IPs, GeoIP answers, Home_Pages and Versions sheets, the row sets a sheet is built from, and the hosts and providers of psi_ops.dat.
  - **MCPsiDb** also defines `BucketMatchesListIndex`. On every sheet reached, it compares the bucketer with a reference written as the code's list indexing (`SelectSeq` plus `servers[ip % n]`).
- **PsiDbProofs, PsiDbBucketProofs, PsiDbRefinement, HostExportProofs, MailSenderProofs**: the TLAPS proofs.

## Runs

| Run (cfg) | Expect | Shows |
|---|---|---|
| MCPsiDb | pass | 2 clients and 2 rows. Handshakes from 3 addresses, embeds, restarts and one `update_servers` caller interleaved, with clock 0..2 and 2 distinct disclosures kept. `DisclosureSound`: every server ever handed out is the client's and embedded, or in the window of its date. `DiscoveryBuckets`: exactly one server per request when n > 0, and equal servers iff the addresses agree mod n. `AtomicUpdate`: the behaviour is one of AtomicDirectory under the refinement mapping below. About 1.2M states. |
| MCPsiDbAdmin | pass | The same two properties while an administrator appends rows, from 1 to 3. `BucketMatchesListIndex`: on every sheet reached, the bucketer equals the code's list indexing. This run also covers the non-numeric client version. |
| MCPsiDbClock | violation | `DisclosedWindowOpenAtRequest`. The server keeps using its import-time date, so a server is handed out after its window closed. |
| MCPsiDbLostRows | violation | `AtomicUpdate`. An append between `update_data`'s open and save is lost, which no step of AtomicDirectory does. |
| MCHostExport | pass | 2 hosts and 3 rows, with any windows including half-empty ones, and the clock moving between the two reads. `ExportFromOneSnapshot`: each file has exactly the rows and clients the host needs according to one sheet. About 3.4M states. |
| MCHostExportReserved | violation | An unassigned server on the host pulls other hosts' unassigned windowed servers into its file. |
| MCHostExportConcurrent | violation | An append between the two reads yields a file that matches no sheet. |
| MCHostExportReadBack | violation | `HostReadsExportedServers`. Each row is written one column left of its header. |
| MCMailSender | pass | 3 records, expiry age 2, at most 1 restart. `RecordsEventuallyRetired`: every stored record is eventually deleted or expired. `MailBoxSpec`: the behaviour is one of MailBox under the mapping below; in particular no step removes a record that was never sent and has not reached the expiry age, because `Retire` is MailBox's only removal. |
| MCMailSenderCrash | violation | `ReplyAtMostOnce`. A restart between send and delete answers an email twice. |
| MCAnsibleDriver | violation | `MailIffRequested`. Without `-m`, `main` still mails the report: `send_mail_stats` is passed by position into `run_playbook`'s `verbose` parameter, and `email_stats` keeps its default `True`. Every option combination is enumerated, over 3 hosts and 2 providers. |
| MCVarsCacheReport | violation | `ReportComplete`. A host without a result keyword hides the hosts after it from the report. |

Why the bounds are enough:
- Two clients and two hosts are the least that distinguish "the client's servers" and "other hosts' servers".
- Three addresses against n = 1 or 2 candidates exercise both equal and different buckets.
- A clock of 0..2 opens and closes windows of length 1 and 2.
- One updater suffices for the stale-copy race, and one append for the non-atomic export.
- A batch of one update and two secrets is enough for `AtomicUpdate`. It tells a found key from a missing one, and a changed secret from an unchanged one.

Every passing run has a mutant in `PROJECT.json`: a plausible bug in a mapped definition that TLC must catch.

## Fairness

The directory code is synchronous and makes no liveness promise, so PsiDb and HostExport have no fairness and no liveness property.

The mail sender's loop never blocks, and `time.sleep` always returns. So `MailSpec` asserts weak fairness of the sender's steps and of ageing. Inserts, arriving diagnostics and crashes belong to the environment and are not fair.

## Refinement

`PsiDb` defines `Directory == INSTANCE AtomicDirectory WITH sheet <- servers, pending <- pendingOf`.
- `pendingOf[u]` is the batch of caller `u` while its copy is open, and no batch otherwise.
- A successful `UpdateOpen` maps to `Call`.
- `UpdateSave` maps to `Commit`.
- `AdminAddServer` maps to `AddRow`.
- Every other step leaves both the sheet and the pending batches unchanged, so it is a stutter.
- An `UpdateOpen` whose key is missing raises ValueError. It maps to a stutter, as a call that never commits.
- `AtomicUpdate == Directory!Spec` is checked as a PROPERTY by MCPsiDb. MCPsiDbLostRows shows that it fails once a row is added during a call. A check with two callers and no appends fails in the same way: the second save drops the first caller's batch.

`MailSender` defines `Box == INSTANCE MailBox WITH answered <- answeredOf`.
- `answeredOf` is the set of records `sendmail.send` was called for (`attempts[r] > 0`), whether or not the call raised.
- `InsertRecord`, `StoreDiagnostic` and `Age` map to `Insert`, `Diagnose` and `Tick`.
- `Send` maps to `Answer` of the record in hand.
- `Remove` maps to `Retire({cur})`.
- `EndPass` maps to `Retire` of the records at the expiry age.
- `Visit`, `Wake` and `CrashRestart` change nothing MailBox shows, so they are stutters.
- `MailBoxSpec == Box!Spec` is checked as a PROPERTY by MCMailSender. Its mutant drops the `continue` on missing diagnostic info, and TLC then finds an `Answer` of a record without diagnostic info.

## What is proved (`tlapm` on PsiDbProofs, PsiDbBucketProofs, PsiDbRefinement, HostExportProofs and MailSenderProofs)

- `TypeCorrect`: `Spec => []TypeOK` for every value of the constants, from the ASSUMEs of PsiDirectory, PsiDiscovery and PsiDb. It rests on these lemmas:
  - `MaxExists`: a bounded nonempty set of naturals has a maximum, from `WFMin` and `NatLessThanWellFounded`. Without it, the `CHOOSE` in `LastUpdateOf` need not denote an update of the batch.
  - `LastUpdateOfSpec`;
  - `ApplyUpdatesType`;
  - `RowSetCardinality`: sets of row numbers are finite.
- `DisclosureSoundness`: `Spec => []DisclosureSound`, under the hypothesis `Updaters = {} \/ MaxRows = NRows`. MCPsiDbLostRows shows the hypothesis cannot be dropped. The proof shows `DisclosureInv` is inductive; TLC also checked it on both passing PsiDb configurations. `DisclosureInv` is `DisclosureSound` plus three facts:
  - the type invariant;
  - `NRows <= Len(servers) <= MaxRows`;
  - the copy each open `update_servers` caller holds has the same rows as the sheet (`SameRows`: identical except secrets).

  That last conjunct is why a save cannot move a disclosed server out of its client or window. `DisclosureInvInit` and `DisclosureInvStep` are lemmas of their own, because the bucket and export proofs reuse them.

- `DiscoveryBucketsHold` (PsiDbBucketProofs): `Spec => []DiscoveryBuckets`, under the same hypothesis as `DisclosureSoundness`.
  - `DiscoveryBuckets` is not inductive. It speaks of entries recorded on earlier sheets, and nothing in it ties them to the sheet now. The proof uses `BucketInv` (defined in PsiDb, checked by TLC on both passing PsiDb configurations before it was proved).
  - `BucketInv` says that every handshake entry was bucketed over `CandidatesUpTo(servers, c, d, k)`: the candidates among the first `k` rows of the current sheet, for some `k`. A handshake records its entry with `k = Len(servers)`. A save keeps the rows' identities (`DisclosureInv`) and an append keeps the rows before it, so the witness `k` survives every step (`BucketedKept`).
  - Two entries of one client and date are then bucketed over nested prefixes. If they have the same count `n`, the prefixes give the same candidate set (`FS_Subset`).
  - `RankType`, `RankStrict` and `RankBucket` show that `Rank(S, _)` is a bijection from a finite set of row numbers onto `0..Cardinality(S)-1`. It is strictly monotone, hence injective, and onto by `FS_Injection`. So each bucket `ip % n` holds exactly one row, and different buckets hold different rows (`EntryCount`, `EntriesAgree`).
- `ExportTypeCorrect` and `ExportSnapshotSound` (HostExportProofs): `Spec2 => []ExportTypeOK` for every value of the constants. Also `Spec2 => []ExportFromOneSnapshot` under `ExportHypothesis`: no row is ever appended (`MaxRows = NRows`), and every row a sheet can hold has a client.
  - The two conjuncts of the hypothesis are exactly what the violation runs MCHostExportConcurrent and MCHostExportReserved break.
  - The inductive invariant `ExportInv` was checked by TLC (one host, one updater) before it was proved. It holds:
    - the type invariant, with every sheet bounded by `MaxRows`;
    - `DisclosureInv`, which says update copies keep the sheet's rows;
    - every server of the sheet has a client;
    - while a deploy is between its reads, the sheet it read first is in `held` and has the same rows as the current sheet.
  - The last conjunct is what lets `DeployWrite` take its second read, `get_discovery_client_ids_for_host`, from the current sheet and still match the first. With every client assigned, that read gives exactly `ClientsOfHost` (`DiscoveryIdsAssigned`). Then the row filter keeps exactly `NeededRows` (`ExportFilterExact`).
  - `StoreOrDeploy` shows that a step of the store is a step of PsiDb, so the PsiDb lemmas apply unchanged.

- `UpdateDataAtomic` (PsiDbRefinement): `Spec => AtomicUpdate` under `OneWriter` (one updater, `MaxRows = NRows`).
  - The proof needs `UpdateInv`: while a caller's copy is open, its batch's keys are all found in the current sheet, and the copy equals the sheet with the batch applied.
  - `AtomicUpdate` is not inductive on its own. A save writes the copy, not the sheet with the batch applied, and only `UpdateInv` makes the two equal.
  - `UpdateInvStep` proves `UpdateInv` inductive. `RefinementInit` and `RefinementStep` map initial states and steps.
- `MailTypeCorrect` (MailSenderProofs): `MailSpec => []MailTypeOK`, for every record set, expiry age and restart bound, from `MailAssumption`.
  - It rests on `MailInv`: the type invariant, plus the fact that a record reaching the delete has been sent at least once.
- `MailBoxRefinement` (MailSenderProofs): `MailSpec => MailBoxSpec` for every record set, expiry age and restart bound.
  - `MailInv` is not enough. Nothing in it says that the record in hand is still stored, or that its diagnostic info is there, so `Send` would not be an `Answer` and `Remove` not a `Retire` of a stored record.
  - `RefInv` adds three facts: a pass's cursor holds only stored records; the record in hand is stored and no longer in the cursor; and while its send is pending, its diagnostic info is there. TLC checked `RefInv` on the MCMailSender instance before it was proved.
  - `RefInvStep` proves `RefInv` inductive. `BoxInit` and `BoxStep` map the initial state and every step to MailBox, one case per action.
  - The fairness of `MailSpec` plays no part: MailBox has none.

Only model-checked:
- the liveness of the mail sender (TLAPS does not handle it);
- `BucketMatchesListIndex` (MCPsiDb), which compares the rank bucketer with the code's list indexing written with `SelectSeq`. The provers cannot unfold `SelectSeq`, which is a recursive operator of the Sequences module, so this comparison stays with TLC over the bounded sheets;
- Not proved, because it is false: `DiscoveryBuckets` or `DisclosureSound` when an `update_servers` caller and appends both run, because there both are false. The MCPsiDbLostRows instance violates `DisclosureSound`. With `MaxRows = 3` and `DiscoveryBuckets` as its invariant, TLC finds the same address, client and date given row 2 and then row 3 in 8 steps: a save drops two appended rows, and two different rows are appended in their place. That is why both theorems carry the hypothesis;
- `MailIffRequested` and `ReportComplete`, which are violations;
- the reference comparisons over bounded inputs. These are recursive-function folds that the provers cannot reason about by induction.

## Not modelled, and why

- **Sheets other than Servers.** They are read-only constants: nothing in `src/` writes them.
- **`read_data`'s conversion of cells.** Only empty cells (None) and dates (integers) are modelled. A numeric non-date cell would also be read as a date (lines 104-106); no property depends on that.
- **`psiphonv_web`'s call.** It calls `psiphonv_list.handshake(ip, client_id, client_version)`, which is not in the repository and has no sponsor argument. It is modelled as `psi_db.handshake` with any sponsor.
- **`psi_client.py`.** `connect_to_server` calls `psi_api.Psiphon3Server.handshake`, and `psi_api` is not in the repository. It then drives a single ssh process through pexpect.
  - It is one linear sequence of I/O calls, with no shared state, no retries and no concurrency.
  - Its only branch is which prompt ssh prints first. What happens on an unexpected prompt is decided by ssh and the pexpect timeout, not by this code.
- **The rest of `psi_ansible.py`.** The playbook run, the setup cache and the SMTP transport belong to the ansible library or are external. `run_against_inventory` is called nowhere.
- **Mail formatting and the SMTP transport.** Only success or SMTPException is kept.
- **The export closure property** of the spec: every exported client has an exported server, and vice versa. `ExportFromOneSnapshot` fixes the exact contents of each file, which subsumes it on the checked instances.
