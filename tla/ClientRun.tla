------------------------------ MODULE ClientRun ------------------------------
(***************************************************************************)
(* run_client of sslpv.services.client, run again and again by cron, with  *)
(* what it depends on: the server's two files, which a renewal replaces    *)
(* one after the other; the network and the disk, which fail; the hook,    *)
(* which has a service load the installed pair.  The writing of the pair   *)
(* is PairWriter's, step by step, in the middle of the run.                *)
(***************************************************************************)
EXTENDS PairWriter

CONSTANTS
    MaxRenewals,        \* bound: renewals on the server
    MaxMishaps          \* bound: failures, crashes and short writes

ASSUME ClientRunAssumption == {MaxRenewals, MaxMishaps} \subseteq Nat

VARIABLES
    issued,             \* the certificate last issued to the server
    fullchain, privkey, \* the server's files, which lag behind it
    renewals,
    stage,              \* where each run is
    got,                \* the [cert, key] it has fetched
    changed,            \* what detect_pair_change told it
    code,               \* its exit status
    hook,               \* --post-hook and --hook-on-change, as configured
    loaded,             \* the pair the service has in memory
    missed,             \* history: a run changed the files and its hook did
                        \* not succeed, and no hook has since
    mishaps

Server == INSTANCE ServedFiles

server_vars == <<issued, fullchain, privkey, renewals>>
run_vars == <<stage, got, changed, code>>
service_vars == <<hook, loaded, missed>>
vars == <<writer_vars, server_vars, run_vars, service_vars, mishaps>>

Stages == {"fetch_cert", "fetch_key", "check", "write", "hook", "exited"}

Installed == [cert |-> cert_path, key |-> privkey_path]

Init ==
    /\ InitWriters
    /\ Server!InitFiles
    /\ stage = [w \in Writers |-> "exited"]
    /\ got = new
    /\ changed = [w \in Writers |-> FALSE]
    /\ code = [w \in Writers |-> 1]
    /\ hook \in {"none", "always", "on_change"}
    /\ loaded = Installed
    /\ missed = FALSE
    /\ mishaps = 0

-----------------------------------------------------------------------------
\* The server's side: its files are renewed while runs are in progress.

Renew == Server!Renew /\ UNCHANGED <<writer_vars, run_vars, service_vars, mishaps>>

PublishCert ==
    Server!PublishCert /\ UNCHANGED <<writer_vars, run_vars, service_vars, mishaps>>

PublishKey ==
    Server!PublishKey /\ UNCHANGED <<writer_vars, run_vars, service_vars, mishaps>>

-----------------------------------------------------------------------------
\* One run.

AtStage(w, s) == stage[w] = s

MovesTo(w, s) == stage' = [stage EXCEPT ![w] = s]

Exits(w, status) == MovesTo(w, "exited") /\ code' = [code EXCEPT ![w] = status]

Mishap == mishaps < MaxMishaps /\ mishaps' = mishaps + 1

\* cron starts a run, when the previous one of this entry has ended.
Start(w) ==
    /\ AtStage(w, "exited")
    /\ MovesTo(w, "fetch_cert")
    /\ UNCHANGED <<writer_vars, server_vars, got, changed, code, service_vars, mishaps>>

\* Stage 2: GET /cert, with a challenge of its own.
FetchCert(w) ==
    /\ AtStage(w, "fetch_cert")
    /\ got' = [got EXCEPT ![w].cert = Server!Served.cert]
    /\ MovesTo(w, "fetch_key")
    /\ UNCHANGED <<writer_vars, server_vars, changed, code, service_vars, mishaps>>

\* A mistake: the certificate is fetched twice.
FetchKeySwapped(w) ==
    /\ AtStage(w, "fetch_key")
    /\ got' = [got EXCEPT ![w].key = Server!Served.cert]
    /\ MovesTo(w, "check")
    /\ UNCHANGED <<writer_vars, server_vars, changed, code, service_vars, mishaps>>

\* Stage 3: GET /privkey, with another, at another time.
FetchKey(w) ==
    /\ AtStage(w, "fetch_key")
    /\ got' = [got EXCEPT ![w].key = Server!Served.key]
    /\ MovesTo(w, "check")
    /\ UNCHANGED <<writer_vars, server_vars, changed, code, service_vars, mishaps>>

\* A refused, lost or late answer ends the run; nothing is retried.
FetchFails(w) ==
    /\ stage[w] \in {"fetch_cert", "fetch_key"}
    /\ Mishap
    /\ Exits(w, 1)
    /\ UNCHANGED <<writer_vars, server_vars, got, changed, service_vars>>

\* A mistake: files fetched before and after a renewal are taken for a pair.
MatchAnything(pair) == TRUE

\* cert_key_match
CertKeyMatch(pair) == KeyOf[pair.cert] = pair.key

\* Stage 4, when the pair does not match: the run ends, nothing is written.
MismatchExits(w) ==
    /\ ~CertKeyMatch(got[w])
    /\ Exits(w, 1)
    /\ UNCHANGED <<writer_vars, changed>>

\* detect_pair_change: an absent or truncated file differs from any content.
DetectPairChange(pair) == pair # Installed

\* A mistake: the change is detected once the new files are in place.
DetectAfterWriting(w) ==
    /\ changed' = [changed EXCEPT ![w] = FALSE]
    /\ Begin(w, got[w].cert, got[w].key)
    /\ MovesTo(w, "write")
    /\ UNCHANGED code

\* A mistake: nothing is written when the certificate is the one installed.
WriteNewCertOnly(w) ==
    /\ changed' = [changed EXCEPT ![w] = DetectPairChange(got[w])]
    /\ \/ /\ got[w].cert = cert_path
          /\ Exits(w, 0)
          /\ UNCHANGED writer_vars
       \/ /\ got[w].cert # cert_path
          /\ Begin(w, got[w].cert, got[w].key)
          /\ MovesTo(w, "write")
          /\ UNCHANGED code

\* Stage 5, and the call of stage 6: the files are compared before they are
\* replaced, and written whether or not they differ.
DetectAndWrite(w) ==
    /\ changed' = [changed EXCEPT ![w] = DetectPairChange(got[w])]
    /\ Begin(w, got[w].cert, got[w].key)
    /\ MovesTo(w, "write")
    /\ UNCHANGED code

Check(w) ==
    /\ AtStage(w, "check")
    /\ MismatchExits(w) \/ (CertKeyMatch(got[w]) /\ DetectAndWrite(w))
    /\ UNCHANGED <<server_vars, got, service_vars, mishaps>>

\* Whether w's step of write_pair_atomically is a failure, or a short write.
GoesWrong(w) ==
    \/ at[w] # "undo" /\ at'[w] \in {"undo", "clean_up"}
    \/ Truncated \in {cert_tmp'[w], privkey_tmp'[w]} \ {cert_tmp[w], privkey_tmp[w]}

\* Stage 6, in progress.
Write(w) ==
    /\ AtStage(w, "write")
    /\ WriterStep(w)
    /\ IF GoesWrong(w) THEN Mishap ELSE UNCHANGED mishaps
    /\ UNCHANGED <<server_vars, run_vars, service_vars>>

\* Stage 6, ended by an error: exit status 1.
WriteFailed(w) ==
    /\ AtStage(w, "write")
    /\ at[w] = "failed"
    /\ Exits(w, 1)
    /\ missed' = (missed \/ loaded # Installed)
    /\ UNCHANGED <<writer_vars, server_vars, got, changed, hook, loaded, mishaps>>

\* Stage 7: no hook, or the hook skipped because nothing changed.
SkipHook(w) ==
    /\ AtStage(w, "write")
    /\ at[w] = "done"
    /\ hook = "none" \/ (hook = "on_change" /\ ~changed[w])
    /\ Exits(w, 0)
    /\ UNCHANGED <<writer_vars, server_vars, got, changed, service_vars, mishaps>>

ReachHook(w) ==
    /\ AtStage(w, "write")
    /\ at[w] = "done"
    /\ hook = "always" \/ (hook = "on_change" /\ changed[w])
    /\ MovesTo(w, "hook")
    /\ UNCHANGED <<writer_vars, server_vars, got, changed, code, service_vars, mishaps>>

\* The hook has the service load the files, which only a matching pair survives.
HookSucceeds(w) ==
    /\ AtStage(w, "hook")
    /\ Matched
    /\ loaded' = Installed
    /\ missed' = FALSE
    /\ Exits(w, 0)
    /\ UNCHANGED <<writer_vars, server_vars, got, changed, hook, mishaps>>

\* It fails, for a reason of its own or because of the files: run_client
\* returns its status.
HookFails(w) ==
    /\ AtStage(w, "hook")
    /\ IF Matched THEN Mishap ELSE UNCHANGED mishaps
    /\ missed' = TRUE
    /\ Exits(w, 2)
    /\ UNCHANGED <<writer_vars, server_vars, got, changed, hook, loaded>>

\* The process is killed.  A hook under way may have done its work by then.
Killed(w) ==
    /\ "crash" \in Faults
    /\ ~AtStage(w, "exited")
    /\ Mishap
    /\ IF Active(w) THEN Crash(w) ELSE UNCHANGED writer_vars
    /\ Exits(w, 137)
    /\ \/ UNCHANGED loaded /\ missed' = (missed \/ loaded # Installed)
       \/ AtStage(w, "hook") /\ Matched /\ loaded' = Installed /\ missed' = FALSE
    /\ UNCHANGED <<server_vars, got, changed, hook>>

RunStep(w) ==
    \/ Start(w)
    \/ FetchCert(w) \/ FetchKey(w)
    \/ Check(w)
    \/ Write(w) \/ WriteFailed(w)
    \/ SkipHook(w) \/ ReachHook(w)
    \/ HookSucceeds(w) \/ HookFails(w)

Next ==
    \/ \E w \in Writers : RunStep(w) \/ FetchFails(w) \/ Killed(w)
    \/ Renew \/ PublishCert \/ PublishKey

\* Every request of run_client has a timeout and nothing else in it waits but
\* for the hook, which is taken to end (run_post_hook sets it no timeout); cron
\* starts run_client again, and a renewal that has begun is completed.
Fairness ==
    /\ \A w \in Writers : WF_vars(RunStep(w))
    /\ WF_vars(PublishCert) /\ WF_vars(PublishKey)

Spec == Init /\ [][Next]_vars /\ Fairness

-----------------------------------------------------------------------------
TypeOK ==
    /\ WritersTypeOK
    /\ Server!FilesTypeOK
    /\ stage \in [Writers -> Stages]
    /\ got \in [Writers -> [cert : Certs, key : Keys]]
    /\ changed \in [Writers -> BOOLEAN]
    /\ code \in [Writers -> {0, 1, 2, 137}]
    /\ hook \in {"none", "always", "on_change"}
    /\ loaded \in [cert : Content(Certs), key : Content(Keys)]
    /\ missed \in BOOLEAN
    /\ mishaps \in 0 .. MaxMishaps

NoWriterActive == \A w \in Writers : ~Active(w)

\* A run that has exited with status 0, and installed what it fetched.
EndedWell(w) == AtStage(w, "exited") /\ code[w] = 0 /\ NoWriterActive

\* Exit status 0 means the service has loaded the pair on disk, unless no hook
\* is configured, or --hook-on-change skipped it in a run after one whose hook
\* was missed, or in a run whose write was short: whatever was renewed, failed
\* or killed in between.
StaleOnlyAfterMissedHook ==
    \A w \in Writers :
        EndedWell(w) /\ loaded # Installed =>
            hook = "none" \/ (hook = "on_change" /\ (missed \/ "short" \in causes))

\* "Using --hook-on-change avoids unnecessary nginx reloads while still
\* ensuring the service is reloaded whenever a new certificate is written"
\* (README.md): once a run has ended well, the service has what is on disk.
ReloadedWheneverWritten ==
    \A w \in Writers : EndedWell(w) /\ hook = "on_change" => loaded = Installed

\* However the runs fail for a while, the files become the pair last issued
\* and stay so, and with an unconditional hook the service loads them.
EventuallyCurrent ==
    <>[](/\ cert_path = issued /\ privkey_path = KeyOf[issued]
         /\ (hook = "always" => loaded = Installed))
=============================================================================
