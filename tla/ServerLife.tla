----------------------------- MODULE ServerLife -----------------------------
(***************************************************************************)
(* A server process from its start to its end: load_server_config of       *)
(* sslpv.services.config checks files one by one, run_server of            *)
(* sslpv.services.server hands two of them to uvicorn, which reads them    *)
(* once, and sslpv.main turns what goes wrong into an exit status.         *)
(* Meanwhile a renewal replaces fullchain and privkey, and files may break *)
(* and be mended between two checks, or between check and use.             *)
(***************************************************************************)
EXTENDS Sequences, Naturals

CONSTANTS
    Certs, Keys,        \* PEM contents that renewals bring
    KeyOf,              \* certificate -> the key it goes with
    OwnCert,            \* the certificate configured as the server's own: one
                        \* apart, or a copy of one it distributes at times
    Unset,              \* null in the configuration; no certificate
    MaxRenewals,        \* bound: renewals
    MaxFaults           \* bound: files that break

ASSUME ServerLifeAssumption ==
    /\ Unset \notin Certs \cup Keys \cup {OwnCert, KeyOf[OwnCert]}
    /\ \A c \in Certs : KeyOf[c] \in Keys
    /\ {MaxRenewals, MaxFaults} \subseteq Nat

VARIABLES
    issued, fullchain, privkey, renewals,
    server_certfile,    \* what the file so configured holds, or Unset
    server_keyfile,
    faulty,             \* files that do not pass their check, just now
    faults,             \* files that broke so far
    phase,              \* where the server process is
    check,              \* the check that is next
    loaded,             \* the certificate and key of its TLS context
    code,               \* exit status of the last process
    flaws,              \* history: what was wrong at some moment of the
                        \* last start
    outrun              \* history: a renewal was in progress when it was
                        \* started, or came after

Disk == INSTANCE ServedFiles

file_vars == <<issued, fullchain, privkey, renewals>>
config_vars == <<server_certfile, server_keyfile>>
fault_vars == <<faulty, faults>>
process_vars == <<phase, check, loaded, code>>
life_vars == <<file_vars, config_vars, fault_vars, process_vars, flaws, outrun>>

Pair == [cert : Certs \cup {OwnCert, Unset}, key : Keys \cup {KeyOf[OwnCert], Unset}]

NoPair == [cert |-> Unset, key |-> Unset]

Phases == {"down", "checking", "load_cert", "load_key", "up"}

\* load_server_config: permissions, syntax and keys of the configuration, then
\* that the files can be read, then the two warnings, which stat a file.
Checks == <<"config", "fullchain", "privkey", "server_certfile", "server_keyfile",
            "privkey", "server_keyfile">>

Files == {"config", "fullchain", "privkey", "server_certfile", "server_keyfile"}

LastReadable == 5

\* The files whose checks apply: the server's own pair may be set in part.
Configured ==
    {"config", "fullchain", "privkey"}
        \cup (IF server_certfile = Unset THEN {} ELSE {"server_certfile"})
        \cup (IF server_keyfile = Unset THEN {} ELSE {"server_keyfile"})

\* A mistake: the certificate to distribute is used, whatever else is set.
tls_certfile_shared == [file |-> "fullchain", holds |-> fullchain]

\* ServerConfig.tls_certfile and tls_keyfile: each falls back on its own.
tls_certfile ==
    IF server_certfile = Unset
    THEN [file |-> "fullchain", holds |-> fullchain]
    ELSE [file |-> "server_certfile", holds |-> server_certfile]

tls_keyfile ==
    IF server_keyfile = Unset
    THEN [file |-> "privkey", holds |-> privkey]
    ELSE [file |-> "server_keyfile", holds |-> server_keyfile]

\* What is wrong at this moment with what the server is configured to use.
Flaws ==
    (faulty \cap Configured)
        \cup (IF KeyOf[tls_certfile.holds] = tls_keyfile.holds THEN {} ELSE {"pair"})

InitLife ==
    /\ Disk!InitFiles
    /\ server_certfile \in {Unset, OwnCert}
    /\ server_keyfile \in {Unset, KeyOf[OwnCert]}
    /\ faulty = {}
    /\ faults = 0
    /\ phase = "down"
    /\ check = 1
    /\ loaded = NoPair
    /\ code = 0
    /\ flaws = {}
    /\ outrun = FALSE

-----------------------------------------------------------------------------
\* The process.

Proceeds == UNCHANGED <<file_vars, config_vars, fault_vars, flaws, outrun>>

\* A mistake: an error's own number becomes the exit status.
ExitsRaw(status) ==
    /\ phase' = "down"
    /\ check' = 1
    /\ loaded' = NoPair
    /\ code' = IF status = 1 THEN 2 ELSE status

\* _run_server_subcommand: any error is exit status 1, Ctrl-C is 0.
Exits(status) ==
    /\ phase' = "down"
    /\ check' = 1
    /\ loaded' = NoPair
    /\ code' = status

Launch ==
    /\ phase = "down"
    /\ phase' = "checking"
    /\ code' = 0
    /\ flaws' = Flaws
    /\ outrun' = Disk!Renewing
    /\ UNCHANGED <<file_vars, config_vars, fault_vars, check, loaded>>

Passes ==
    /\ check' = IF check < Len(Checks) THEN check + 1 ELSE 1
    /\ phase' = IF check < Len(Checks) THEN phase ELSE "load_cert"
    /\ UNCHANGED <<loaded, code>>

\* A mistake: mode 0600 is asked for, and a stricter one turned down.
CheckExactMode ==
    /\ phase = "checking"
    /\ LET broken == Checks[check] \in faulty \cap Configured
       IN  \/ (~broken \/ check > LastReadable) /\ Passes
           \/ (broken \/ Checks[check] = "config") /\ Exits(1)
    /\ Proceeds

\* A file that is there but cannot be read does not fail a warning's stat.
Check ==
    /\ phase = "checking"
    /\ LET broken == Checks[check] \in faulty \cap Configured
       IN  \/ (~broken \/ check > LastReadable) /\ Passes
           \/ broken /\ Exits(1)
    /\ Proceeds

\* uvicorn reads the certificate, and then the key, which must match.
LoadCert ==
    /\ phase = "load_cert"
    /\ \/ /\ tls_certfile.file \in faulty
          /\ Exits(1)
       \/ /\ tls_certfile.file \notin faulty
          /\ phase' = "load_key"
          /\ loaded' = [loaded EXCEPT !.cert = tls_certfile.holds]
          /\ UNCHANGED <<check, code>>
    /\ Proceeds

LoadKey ==
    /\ phase = "load_key"
    /\ \/ /\ tls_keyfile.file \in faulty \/ KeyOf[loaded.cert] # tls_keyfile.holds
          /\ Exits(1)
       \/ /\ tls_keyfile.file \notin faulty /\ KeyOf[loaded.cert] = tls_keyfile.holds
          /\ phase' = "up"
          /\ loaded' = [loaded EXCEPT !.key = tls_keyfile.holds]
          /\ UNCHANGED <<check, code>>
    /\ Proceeds

\* It is interrupted, or killed.
Stop ==
    /\ phase # "down"
    /\ Exits(0) \/ Exits(137)
    /\ Proceeds

-----------------------------------------------------------------------------
\* The disk.

Starting == phase \notin {"down", "up"}

Remembers == flaws' = IF Starting THEN flaws \cup Flaws' ELSE flaws

Renew ==
    /\ Disk!Renew
    /\ outrun' = TRUE
    /\ UNCHANGED <<config_vars, fault_vars, process_vars>>
    /\ Remembers

Publish ==
    /\ Disk!PublishCert \/ Disk!PublishKey
    /\ UNCHANGED <<config_vars, fault_vars, process_vars, outrun>>
    /\ Remembers

\* A file is removed, made unreadable or, the configuration, exposed or spoilt.
Break(f) ==
    /\ faults < MaxFaults
    /\ faulty' = faulty \cup {f}
    /\ faults' = faults + 1
    /\ UNCHANGED <<file_vars, config_vars, process_vars, outrun>>
    /\ Remembers

Mend(f) ==
    /\ faulty' = faulty \ {f}
    /\ UNCHANGED <<file_vars, config_vars, faults, process_vars, flaws, outrun>>

LifeStep ==
    \/ Launch \/ Check \/ LoadCert \/ LoadKey \/ Stop
    \/ Renew \/ Publish
    \/ \E f \in Configured : Break(f)
    \/ \E f \in faulty : Mend(f)

-----------------------------------------------------------------------------
LifeTypeOK ==
    /\ Disk!FilesTypeOK
    /\ server_certfile \in {Unset, OwnCert}
    /\ server_keyfile \in {Unset, KeyOf[OwnCert]}
    /\ faulty \subseteq Files
    /\ faults \in 0 .. MaxFaults
    /\ phase \in Phases
    /\ check \in 1 .. Len(Checks)
    /\ loaded \in Pair
    /\ code \in {0, 1, 137}
    /\ flaws \subseteq Files \cup {"pair"}
    /\ outrun \in BOOLEAN

\* The server refuses to start only if, at some moment since it was launched,
\* a file it is configured with was broken, or the certificate and key of its
\* TLS context did not match: in the middle of a renewal, or because only one
\* of its own pair is configured.  No order of checks, mends and a completed
\* renewal makes a start fail otherwise.
StartFailsOnlyForCause ==
    phase = "down" /\ code = 1 => flaws # {}
=============================================================================
