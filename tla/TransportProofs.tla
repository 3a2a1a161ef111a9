--------------------------- MODULE TransportProofs ---------------------------
(***************************************************************************)
(* ServerLife and Transport: why a server fails to start, whom a client    *)
(* believes, and what a fingerprint is worth after renewals, for any       *)
(* certificates, keys and configuration.                                   *)
(***************************************************************************)
EXTENDS Transport, TLAPS

\* While a server starts, all that is wrong at any moment is remembered; and
\* the certificate it has read goes with the key it is to read, unless at some
\* moment the two files did not match.
Seen ==
    /\ Starting => Flaws \subseteq flaws
    /\ phase = "load_key" /\ "pair" \notin flaws => KeyOf[loaded.cert] = tls_keyfile.holds

\* A server that no renewal has outrun has the files of the last one.
Settled == phase # "down" /\ ~outrun => ~Disk!Renewing

\* What it keeps in memory: its own certificate, or the last one issued.
Kept ==
    phase \in {"load_key", "up"} =>
        /\ server_certfile # Unset => loaded.cert = server_certfile
        /\ server_certfile = Unset /\ ~outrun => loaded.cert = issued

LifeInv == LifeTypeOK /\ Seen /\ Settled /\ Kept /\ StartFailsOnlyForCause

-----------------------------------------------------------------------------
\* The server.

\* There are seven checks, each of a file.
LEMMA ChecksListed == Len(Checks) = 7 /\ \A i \in 1 .. 7 : Checks[i] \in Files
BY DEF Checks, Files

\* What a running or starting server sees is at its place, unless it is Unset.
LEMMA TlsFilesTyped ==
    ASSUME LifeTypeOK
    PROVE  /\ tls_certfile.holds \in Certs \cup {OwnCert}
           /\ tls_keyfile.holds \in Keys \cup {KeyOf[OwnCert]}
           /\ tls_certfile.file \in Configured /\ tls_keyfile.file \in Configured
           /\ server_certfile # Unset => tls_certfile.holds = server_certfile
           /\ server_certfile = Unset => tls_certfile.holds = fullchain
BY ServerLifeAssumption DEF LifeTypeOK, tls_certfile, tls_keyfile, Configured, Disk!FilesTypeOK

\* The files stay what they are.
LEMMA FilesKept ==
    ASSUME UNCHANGED <<file_vars, config_vars>>
    PROVE  /\ tls_certfile' = tls_certfile /\ tls_keyfile' = tls_keyfile
           /\ Configured' = Configured /\ Disk!Renewing' = Disk!Renewing
BY DEF file_vars, config_vars, tls_certfile, tls_keyfile, Configured, Disk!Renewing

\* So do the flaws, if no file breaks.
LEMMA FlawsKept ==
    ASSUME UNCHANGED <<file_vars, config_vars>>, faulty' \subseteq faulty
    PROVE  Flaws' \subseteq Flaws
BY FilesKept DEF Flaws

\* The end of a process, with a reason if its status is 1.
LEMMA ExitsInv ==
    ASSUME LifeInv, Proceeds, NEW status \in {0, 1, 137}, Exits(status),
           status = 1 => flaws # {}
    PROVE  LifeInv'
<1>1. /\ phase' = "down" /\ check' = 1 /\ loaded' = NoPair /\ code' = status
      /\ UNCHANGED <<file_vars, config_vars, fault_vars, flaws, outrun>>
  BY DEF Exits, Proceeds
<1>2. LifeTypeOK'
  BY <1>1, ChecksListed
     DEF LifeInv, LifeTypeOK, Phases, NoPair, Pair, file_vars, config_vars, fault_vars,
         Disk!FilesTypeOK
<1> QED
  BY <1>1, <1>2 DEF LifeInv, Seen, Settled, Kept, StartFailsOnlyForCause, Starting

\* A start.
LEMMA LaunchInv == ASSUME LifeInv, Launch PROVE LifeInv'
<1>1. /\ phase' = "checking" /\ code' = 0 /\ flaws' = Flaws /\ outrun' = Disk!Renewing
      /\ UNCHANGED <<file_vars, config_vars, fault_vars, check, loaded>>
  BY DEF Launch
<1>2. Flaws' = Flaws /\ Disk!Renewing' = Disk!Renewing
  BY <1>1, FilesKept DEF Flaws, fault_vars
<1>3. Flaws \subseteq Files \cup {"pair"}
  BY DEF LifeInv, LifeTypeOK, Flaws
<1>4. LifeTypeOK'
  BY <1>1, <1>3
     DEF LifeInv, LifeTypeOK, Phases, file_vars, config_vars, fault_vars, Disk!FilesTypeOK,
         Disk!Renewing
<1> QED
  BY <1>1, <1>2, <1>4 DEF LifeInv, Seen, Settled, Kept, StartFailsOnlyForCause

\* A check.
LEMMA CheckInv == ASSUME LifeInv, Check PROVE LifeInv'
<1>1. /\ phase = "checking" /\ Proceeds
      /\ UNCHANGED <<file_vars, config_vars, fault_vars, flaws, outrun>>
  BY DEF Check, Proceeds
<1>2. Flaws \subseteq flaws
  BY <1>1 DEF LifeInv, Seen, Starting
<1>3. CASE Checks[check] \in faulty \cap Configured /\ Exits(1)
  <2>1. flaws # {}
    BY <1>2, <1>3 DEF Flaws
  <2> QED
    BY <1>1, <1>3, <2>1, ExitsInv
<1>4. CASE Passes
  <2>1. /\ phase' \in {"checking", "load_cert"} /\ check' \in 1 .. 7
        /\ UNCHANGED <<loaded, code>>
    BY <1>1, <1>4, ChecksListed DEF Passes, LifeInv, LifeTypeOK
  <2>2. Flaws' \subseteq Flaws /\ Disk!Renewing' = Disk!Renewing
    BY <1>1, FlawsKept, FilesKept DEF fault_vars
  <2>3. LifeTypeOK'
    BY <1>1, <2>1, ChecksListed
       DEF LifeInv, LifeTypeOK, Phases, file_vars, config_vars, fault_vars, Disk!FilesTypeOK
  <2>4. Seen' /\ Settled'
    BY <1>1, <1>2, <2>1, <2>2 DEF LifeInv, Seen, Settled
  <2> QED
    BY <2>1, <2>3, <2>4 DEF LifeInv, Kept, StartFailsOnlyForCause
<1> QED
  BY <1>3, <1>4 DEF Check

\* uvicorn reads the certificate.
LEMMA LoadCertInv == ASSUME LifeInv, LoadCert PROVE LifeInv'
<1>1. /\ phase = "load_cert" /\ Proceeds
      /\ UNCHANGED <<file_vars, config_vars, fault_vars, flaws, outrun>>
  BY DEF LoadCert, Proceeds
<1>2. Flaws \subseteq flaws /\ LifeTypeOK
  BY <1>1 DEF LifeInv, Seen, Starting
<1>3. CASE tls_certfile.file \in faulty /\ Exits(1)
  <2>1. flaws # {}
    BY <1>2, <1>3, TlsFilesTyped DEF Flaws
  <2> QED
    BY <1>1, <1>3, <2>1, ExitsInv
<1>4. CASE /\ phase' = "load_key"
           /\ loaded' = [loaded EXCEPT !.cert = tls_certfile.holds]
           /\ UNCHANGED <<check, code>>
  <2>1. loaded' \in Pair /\ loaded'.cert = tls_certfile.holds
    BY <1>2, <1>4, TlsFilesTyped DEF LifeTypeOK, Pair
  <2>2. /\ Flaws' \subseteq Flaws /\ tls_keyfile' = tls_keyfile
        /\ Disk!Renewing' = Disk!Renewing
    BY <1>1, FlawsKept, FilesKept DEF fault_vars
  <2>3. LifeTypeOK'
    BY <1>1, <1>2, <1>4, <2>1
       DEF LifeTypeOK, Phases, file_vars, config_vars, fault_vars, Disk!FilesTypeOK
  <2>4. Seen'
    <3>1. "pair" \notin flaws => KeyOf[tls_certfile.holds] = tls_keyfile.holds
      BY <1>2 DEF Flaws
    <3> QED
      BY <1>1, <1>2, <2>1, <2>2, <3>1 DEF Seen
  <2>5. Settled'
    BY <1>1, <2>2 DEF LifeInv, Settled
  <2>6. Kept'
    <3>1. ~outrun => fullchain = issued
      BY <1>1 DEF LifeInv, Settled, Disk!Renewing
    <3> QED
      BY <1>1, <1>2, <2>1, <3>1, TlsFilesTyped DEF Kept, file_vars, config_vars
  <2> QED
    BY <1>4, <2>3, <2>4, <2>5, <2>6 DEF LifeInv, StartFailsOnlyForCause
<1> QED
  BY <1>3, <1>4 DEF LoadCert

\* uvicorn reads the key.
LEMMA LoadKeyInv == ASSUME LifeInv, LoadKey PROVE LifeInv'
<1>1. /\ phase = "load_key" /\ Proceeds
      /\ UNCHANGED <<file_vars, config_vars, fault_vars, flaws, outrun>>
  BY DEF LoadKey, Proceeds
<1>2. Flaws \subseteq flaws /\ LifeTypeOK
  BY <1>1 DEF LifeInv, Seen, Starting
<1>3. CASE /\ tls_keyfile.file \in faulty \/ KeyOf[loaded.cert] # tls_keyfile.holds
           /\ Exits(1)
  <2>1. flaws # {}
    BY <1>1, <1>2, <1>3, TlsFilesTyped DEF Flaws, LifeInv, Seen
  <2> QED
    BY <1>1, <1>3, <2>1, ExitsInv
<1>4. CASE /\ phase' = "up"
           /\ loaded' = [loaded EXCEPT !.key = tls_keyfile.holds]
           /\ UNCHANGED <<check, code>>
  <2>1. loaded' \in Pair /\ loaded'.cert = loaded.cert
    BY <1>2, <1>4, TlsFilesTyped DEF LifeTypeOK, Pair
  <2>2. Disk!Renewing' = Disk!Renewing
    BY <1>1, FilesKept
  <2>3. LifeTypeOK'
    BY <1>1, <1>2, <1>4, <2>1
       DEF LifeTypeOK, Phases, file_vars, config_vars, fault_vars, Disk!FilesTypeOK
  <2>4. Seen' /\ Settled' /\ Kept'
    BY <1>1, <1>4, <2>1, <2>2
       DEF LifeInv, Seen, Settled, Kept, Starting, file_vars, config_vars
  <2> QED
    BY <1>4, <2>3, <2>4 DEF LifeInv, StartFailsOnlyForCause
<1> QED
  BY <1>3, <1>4 DEF LoadKey

\* The process is ended from without.
LEMMA StopInv == ASSUME LifeInv, Stop PROVE LifeInv'
BY ExitsInv DEF Stop

-----------------------------------------------------------------------------
\* The disk.

\* A renewal, whose files are still to come.
LEMMA RenewInv == ASSUME LifeInv, Renew PROVE LifeInv'
<1>1. /\ issued' \in Certs /\ renewals' \in 0 .. MaxRenewals /\ outrun' = TRUE
      /\ UNCHANGED <<fullchain, privkey, config_vars, fault_vars, process_vars>>
  BY ServerLifeAssumption
     DEF Renew, Disk!Renew, LifeInv, LifeTypeOK, Disk!FilesTypeOK
<1>2. flaws' = IF Starting THEN flaws \cup Flaws' ELSE flaws
  BY DEF Renew, Remembers
<1>3. tls_keyfile' = tls_keyfile
  BY <1>1 DEF tls_keyfile, config_vars
<1>4. Flaws' \subseteq Files \cup {"pair"}
  BY <1>1 DEF LifeInv, LifeTypeOK, Flaws, fault_vars
<1>5. LifeTypeOK'
  BY <1>1, <1>2, <1>4
     DEF LifeInv, LifeTypeOK, Disk!FilesTypeOK, config_vars, fault_vars, process_vars
<1>6. Seen'
  BY <1>1, <1>2, <1>3 DEF LifeInv, Seen, Starting, process_vars
<1>7. Settled' /\ Kept' /\ StartFailsOnlyForCause'
  BY <1>1, <1>2
     DEF LifeInv, Settled, Kept, StartFailsOnlyForCause, Starting, config_vars, process_vars
<1> QED
  BY <1>5, <1>6, <1>7 DEF LifeInv

\* A file of the renewal arrives, and another may be missing.
LEMMA PublishInv == ASSUME LifeInv, Publish PROVE LifeInv'
<1>0. LifeTypeOK
  BY DEF LifeInv
<1>1. /\ \/ fullchain' = issued /\ privkey' = privkey
         \/ privkey' = KeyOf[issued] /\ fullchain' = fullchain
      /\ Disk!Renewing
      /\ UNCHANGED <<issued, renewals, config_vars, fault_vars, process_vars, outrun>>
  BY DEF Publish, Disk!PublishCert, Disk!PublishKey, Disk!Renewing
<1>2. flaws' = IF Starting THEN flaws \cup Flaws' ELSE flaws
  BY DEF Publish, Remembers
<1>3. fullchain' \in Certs /\ privkey' \in Keys
  BY <1>0, <1>1, ServerLifeAssumption DEF LifeTypeOK, Disk!FilesTypeOK
<1>4. Flaws' \subseteq Files \cup {"pair"}
  BY <1>0, <1>1 DEF LifeTypeOK, Flaws, fault_vars
<1>5. LifeTypeOK'
  BY <1>0, <1>1, <1>2, <1>3, <1>4
     DEF LifeTypeOK, Disk!FilesTypeOK, config_vars, fault_vars, process_vars
<1>6. Seen'
  <2>1. Starting' => Flaws' \subseteq flaws'
    BY <1>1, <1>2 DEF Starting, process_vars
  <2>2. ASSUME phase' = "load_key", "pair" \notin flaws'
        PROVE  KeyOf[loaded'.cert] = tls_keyfile'.holds
    <3>1. /\ Starting /\ phase = "load_key" /\ loaded' = loaded
          /\ "pair" \notin flaws /\ "pair" \notin Flaws'
      BY <1>1, <1>2, <2>2 DEF Starting, process_vars
    <3>2. KeyOf[loaded.cert] = tls_keyfile.holds /\ "pair" \notin Flaws
      BY <3>1 DEF LifeInv, Seen
    <3>3. /\ KeyOf[tls_certfile.holds] = tls_keyfile.holds
          /\ KeyOf[tls_certfile.holds]' = tls_keyfile'.holds
      BY <3>1, <3>2 DEF Flaws
    <3>4. tls_certfile' = tls_certfile \/ tls_keyfile' = tls_keyfile
      BY <1>1 DEF tls_certfile, tls_keyfile, config_vars
    <3> QED
      BY <3>1, <3>2, <3>3, <3>4
  <2> QED
    BY <2>1, <2>2 DEF Seen
<1>7. Settled'
  BY <1>1 DEF LifeInv, Settled, process_vars
<1>8. Kept' /\ StartFailsOnlyForCause'
  BY <1>1, <1>2
     DEF LifeInv, Kept, StartFailsOnlyForCause, Starting, config_vars, process_vars
<1> QED
  BY <1>5, <1>6, <1>7, <1>8 DEF LifeInv

\* A file breaks, and is remembered if the server starts meanwhile.
LEMMA BreakInv == ASSUME LifeInv, NEW f \in Configured, Break(f) PROVE LifeInv'
<1>0. LifeTypeOK
  BY DEF LifeInv
<1>1. /\ faulty' = faulty \cup {f} /\ faults' \in 0 .. MaxFaults
      /\ UNCHANGED <<file_vars, config_vars, process_vars, outrun>>
  BY <1>0, ServerLifeAssumption DEF Break, LifeTypeOK
<1>2. flaws' = IF Starting THEN flaws \cup Flaws' ELSE flaws
  BY DEF Break, Remembers
<1>3. tls_keyfile' = tls_keyfile /\ Disk!Renewing' = Disk!Renewing
  BY <1>1, FilesKept
<1>4. f \in Files
  BY DEF Configured, Files
<1>5. LifeTypeOK'
  <2>1. Flaws' \subseteq Files \cup {"pair"}
    BY <1>0, <1>1, <1>4 DEF LifeTypeOK, Flaws
  <2> QED
    BY <1>0, <1>1, <1>2, <1>4, <2>1
       DEF LifeTypeOK, Disk!FilesTypeOK, file_vars, config_vars, process_vars
<1>6. Seen'
  BY <1>1, <1>2, <1>3 DEF LifeInv, Seen, Starting, process_vars
<1>7. Settled' /\ Kept' /\ StartFailsOnlyForCause'
  BY <1>1, <1>2, <1>3
     DEF LifeInv, Settled, Kept, StartFailsOnlyForCause, Starting, file_vars, config_vars,
         process_vars
<1> QED
  BY <1>5, <1>6, <1>7 DEF LifeInv

\* A file is mended.
LEMMA MendInv == ASSUME LifeInv, NEW f \in faulty, Mend(f) PROVE LifeInv'
<1>1. /\ faulty' = faulty \ {f}
      /\ UNCHANGED <<file_vars, config_vars, faults, process_vars, flaws, outrun>>
  BY DEF Mend
<1>2. Flaws' \subseteq Flaws /\ tls_keyfile' = tls_keyfile /\ Disk!Renewing' = Disk!Renewing
  BY <1>1, FlawsKept, FilesKept
<1>3. LifeTypeOK'
  BY <1>1 DEF LifeInv, LifeTypeOK, Disk!FilesTypeOK, file_vars, config_vars, process_vars
<1>4. Seen' /\ Settled' /\ Kept' /\ StartFailsOnlyForCause'
  BY <1>1, <1>2
     DEF LifeInv, Seen, Settled, Kept, StartFailsOnlyForCause, Starting, file_vars,
         config_vars, process_vars
<1> QED
  BY <1>3, <1>4 DEF LifeInv

\* Every step of the server and of its disk.
LEMMA LifeStepInv == ASSUME LifeInv, LifeStep PROVE LifeInv'
BY LaunchInv, CheckInv, LoadCertInv, LoadKeyInv, StopInv, RenewInv, PublishInv, BreakInv,
   MendInv
   DEF LifeStep

\* None of them is one of a client's.
LEMMA LifeStutterInv == ASSUME LifeInv, UNCHANGED life_vars PROVE LifeInv'
<1>1. /\ UNCHANGED <<file_vars, config_vars, fault_vars, process_vars, flaws, outrun>>
  BY DEF life_vars
<1>2. Flaws' = Flaws /\ tls_keyfile' = tls_keyfile /\ Disk!Renewing' = Disk!Renewing
  BY <1>1, FilesKept DEF Flaws, fault_vars
<1>3. LifeTypeOK'
  BY <1>1 DEF LifeInv, LifeTypeOK, Disk!FilesTypeOK, file_vars, config_vars, fault_vars,
              process_vars
<1>4. Seen' /\ Settled' /\ Kept' /\ StartFailsOnlyForCause'
  BY <1>1, <1>2
     DEF LifeInv, Seen, Settled, Kept, StartFailsOnlyForCause, Starting, file_vars,
         config_vars, process_vars
<1> QED
  BY <1>3, <1>4 DEF LifeInv

-----------------------------------------------------------------------------
\* The client.

\* A fingerprint is that of the server's own certificate; or the server that
\* gave it is still the one that runs, or none does; or no renewal has come
\* since, and what the server would load is what was pinned.
Pinned ==
    pin # Unset =>
        /\ server_certfile # Unset => pin = server_certfile
        /\ ~relaunched => /\ phase \in {"up", "down"}
                          /\ phase = "up" => loaded.cert = pin
        /\ server_certfile = Unset /\ ~superseded =>
              /\ pin = issued /\ ~Disk!Renewing
              /\ phase \in {"load_key", "up"} => loaded.cert = issued

\* No request goes anywhere but over https.
Https == url # NoUrl => url.scheme = "https"

ClientTypeOK ==
    /\ expired \subseteq Chains
    /\ insecure \in BOOLEAN
    /\ pin \in Certs \cup {OwnCert, Unset}
    /\ url \in Urls \cup {NoUrl}
    /\ told \in Told
    /\ {relaunched, superseded} \subseteq BOOLEAN

IInv == LifeInv /\ ClientTypeOK /\ Pinned /\ Https /\ TokenOnlyToTrusted

\* What a step of the server does to the files and to what is in memory.
LEMMA LifeStepEffect ==
    ASSUME LifeInv, LifeStep
    PROVE  /\ UNCHANGED config_vars
           /\ issued' = issued => \/ Publish
                                  \/ UNCHANGED file_vars
           /\ phase \in {"up", "down"} =>
                 \/ phase' = phase /\ loaded' = loaded
                 \/ phase' = "down"
                 \/ phase = "down" /\ phase' = "checking"
           /\ phase' \in {"load_key", "up"} =>
                 \/ phase \in {"load_key", "up"} /\ loaded'.cert = loaded.cert
                 \/ phase = "load_cert" /\ loaded'.cert = tls_certfile.holds
<1>0. LifeTypeOK
  BY DEF LifeInv
<1>1. CASE Launch \/ Check \/ Stop
  BY <1>1 DEF Launch, Check, Stop, Exits, Passes, Proceeds
<1>2. CASE LoadCert \/ LoadKey
  BY <1>0, <1>2 DEF LoadCert, LoadKey, Exits, Proceeds, LifeTypeOK, Pair
<1>3. CASE Renew
  <2>1. issued' # issued
    BY <1>3 DEF Renew, Disk!Renew
  <2> QED
    BY <1>0, <1>3, <2>1 DEF Renew, process_vars, LifeTypeOK, Phases
<1>4. CASE Publish
  BY <1>0, <1>4 DEF Publish, process_vars, LifeTypeOK, Phases
<1>5. CASE \/ \E f \in Configured : Break(f)
           \/ \E f \in faulty : Mend(f)
  BY <1>0, <1>5 DEF Break, Mend, process_vars, LifeTypeOK, Phases
<1> QED
  BY <1>1, <1>2, <1>3, <1>4, <1>5 DEF LifeStep

\* A step of the server leaves a fingerprint worth what it says.
LEMMA ServerStepInv == ASSUME IInv, ServerStep PROVE IInv'
<1>0. /\ LifeInv /\ LifeTypeOK /\ LifeStep
      /\ UNCHANGED <<expired, insecure, url, told, pin>>
      /\ relaunched' = (relaunched \/ (phase = "down" /\ phase' = "checking"))
      /\ superseded' = (superseded \/ issued' # issued)
  BY DEF IInv, LifeInv, ServerStep, request_vars
<1>1. LifeInv'
  BY <1>0, LifeStepInv
<1>2. ClientTypeOK'
  <2>1. relaunched' \in BOOLEAN /\ superseded' \in BOOLEAN
    BY <1>0
  <2> QED
    BY <1>0, <2>1 DEF IInv, ClientTypeOK
<1>3. Https' /\ TokenOnlyToTrusted'
  BY <1>0 DEF IInv, Https, TokenOnlyToTrusted, Nobody
<1>4. Pinned'
  <2> SUFFICES ASSUME pin # Unset PROVE Pinned'
    BY <1>0 DEF Pinned
  <2>1. UNCHANGED config_vars
    BY <1>0, LifeStepEffect
  <2>2. server_certfile' # Unset => pin' = server_certfile'
    BY <1>0, <2>1 DEF IInv, Pinned, config_vars
  <2>3. ~relaunched' => /\ phase' \in {"up", "down"}
                        /\ phase' = "up" => loaded'.cert = pin'
    BY <1>0, LifeStepEffect DEF IInv, Pinned
  <2>4. ASSUME server_certfile' = Unset, ~superseded'
        PROVE  /\ pin' = issued' /\ ~Disk!Renewing'
               /\ phase' \in {"load_key", "up"} => loaded'.cert = issued'
    <3>1. /\ server_certfile = Unset /\ ~superseded /\ issued' = issued
          /\ pin = issued /\ ~Disk!Renewing
          /\ phase \in {"load_key", "up"} => loaded.cert = issued
      BY <1>0, <2>1, <2>4 DEF IInv, Pinned, config_vars
    <3>2. ~Publish
      BY <3>1 DEF Publish, Disk!PublishCert, Disk!PublishKey, Disk!Renewing
    <3>3. UNCHANGED file_vars
      BY <1>0, <3>1, <3>2, LifeStepEffect
    <3>4. Disk!Renewing' = Disk!Renewing
      BY <2>1, <3>3, FilesKept
    <3>5. tls_certfile.holds = issued
      BY <1>0, <3>1, TlsFilesTyped DEF Disk!Renewing
    <3> QED
      BY <1>0, <3>1, <3>4, <3>5, LifeStepEffect
  <2> QED
    BY <2>2, <2>3, <2>4 DEF Pinned
<1> QED
  BY <1>1, <1>2, <1>3, <1>4 DEF IInv

\* What a client does leaves the server as it is, and the pin with it.
LEMMA PinnedKept ==
    ASSUME IInv, UNCHANGED <<life_vars, pin_vars>>
    PROVE  LifeInv' /\ Pinned'
<1>1. LifeInv'
  BY LifeStutterInv DEF IInv
<1>2. Disk!Renewing' = Disk!Renewing
  BY FilesKept DEF life_vars
<1>3. Pinned'
  BY <1>2
     DEF IInv, Pinned, life_vars, file_vars, config_vars, process_vars, pin_vars
<1> QED
  BY <1>1, <1>3

\* A request.
LEMMA SubmitInv == ASSUME IInv, NEW u \in Urls, Submit(u) PROVE IInv'
<1>1. LifeInv' /\ Pinned'
  BY PinnedKept DEF Submit
<1>2. Nobody \in Told
  BY DEF Nobody, Told
<1>3. ClientTypeOK'
  BY <1>2 DEF Submit, pin_vars, IInv, ClientTypeOK
<1>4. Https' /\ TokenOnlyToTrusted'
  BY DEF Submit, Https, TokenOnlyToTrusted, Nobody
<1> QED
  BY <1>1, <1>3, <1>4 DEF IInv

\* What a host presents is a certificate, if there is one.
LEMMA PresentsTyped ==
    ASSUME LifeTypeOK, NEW host
    PROVE  Presents(host) \in Certs \cup {OwnCert, OtherCert, Unset}
BY DEF LifeTypeOK, Pair, Presents

\* A connection, refused or redirected: the token goes where the opener
\* accepts the certificate, and over https.
LEMMA HopInv == ASSUME IInv, Hop PROVE IInv'
<1>0. /\ url # NoUrl /\ url \in Urls /\ url.scheme = "https" /\ LifeTypeOK
      /\ ClientTypeOK /\ TokenOnlyToTrusted
  BY DEF Hop, IInv, LifeInv, ClientTypeOK, Https
<1>1. UNCHANGED <<life_vars, expired, insecure, pin_vars>>
  BY DEF Hop
<1>2. LifeInv' /\ Pinned'
  BY <1>1, PinnedKept
<1>3. CASE url' = NoUrl /\ UNCHANGED told
  <2>1. ClientTypeOK'
    BY <1>0, <1>1, <1>3 DEF ClientTypeOK, pin_vars
  <2>2. Https' /\ TokenOnlyToTrusted'
    BY <1>0, <1>1, <1>3 DEF Https, TokenOnlyToTrusted, Nobody, pin_vars
  <2> QED
    BY <1>2, <2>1, <2>2 DEF IInv
<1>4. CASE Accepts(Presents(url.host)) /\ Connects
  <2> DEFINE cert == Presents(url.host)
  <2>1. told' = [scheme |-> "https", cert |-> cert]
    BY <1>0, <1>4 DEF Connects
  <2>2. url' = NoUrl \/ (url' \in Urls /\ url'.scheme = "https")
    BY <1>4 DEF Connects, Follow
  <2>3. cert \in Certs \cup {OwnCert, OtherCert, Unset}
    BY <1>0, PresentsTyped
  <2>4. /\ pin # Unset => cert = pin
        /\ pin = Unset /\ ~insecure => cert \in Chains
    BY <1>4 DEF Accepts
  <2> HIDE DEF cert
  <2>5. told' \in Told /\ told'.scheme = "https" /\ told'.cert = cert
    BY <2>1, <2>3 DEF Told
  <2>6. ClientTypeOK'
    BY <1>0, <1>1, <2>2, <2>5 DEF ClientTypeOK, pin_vars
  <2>7. Https' /\ TokenOnlyToTrusted'
    BY <1>1, <2>2, <2>4, <2>5 DEF Https, TokenOnlyToTrusted, pin_vars
  <2> QED
    BY <1>2, <2>6, <2>7 DEF IInv
<1> QED
  BY <1>0, <1>3, <1>4 DEF Hop

\* A fingerprint is taken.
LEMMA TakePinInv == ASSUME IInv, TakePin PROVE IInv'
<1>0. LifeInv /\ LifeTypeOK /\ phase = "up"
  BY DEF IInv, LifeInv, TakePin
<1>1. /\ UNCHANGED <<life_vars, expired, insecure, url>>
      /\ pin' = loaded.cert /\ relaunched' = FALSE /\ superseded' = outrun /\ told' = Nobody
  BY DEF TakePin
<1>2. UNCHANGED <<file_vars, config_vars, phase, loaded, outrun>>
  BY <1>1 DEF life_vars, process_vars
<1>3. LifeInv'
  BY <1>0, <1>1, LifeStutterInv
<1>4. ClientTypeOK'
  <2>1. loaded.cert \in Certs \cup {OwnCert, Unset} /\ outrun \in BOOLEAN
    BY <1>0 DEF LifeTypeOK, Pair
  <2>2. Nobody \in Told
    BY DEF Nobody, Told
  <2> QED
    BY <1>1, <2>1, <2>2 DEF IInv, ClientTypeOK
<1>5. Https' /\ TokenOnlyToTrusted'
  BY <1>1 DEF IInv, Https, TokenOnlyToTrusted, Nobody
<1>6. Pinned'
  <2>1. Disk!Renewing' = Disk!Renewing
    BY <1>2, FilesKept
  <2>2. /\ server_certfile # Unset => loaded.cert = server_certfile
        /\ server_certfile = Unset /\ ~outrun => loaded.cert = issued
        /\ ~outrun => ~Disk!Renewing
    BY <1>0 DEF LifeInv, Kept, Settled
  <2> QED
    BY <1>0, <1>1, <1>2, <2>1, <2>2 DEF Pinned, file_vars, config_vars
<1> QED
  BY <1>3, <1>4, <1>5, <1>6 DEF IInv

\* A certificate's last day passes.
LEMMA ExpireInv == ASSUME IInv, NEW c \in Chains, Expire(c) PROVE IInv'
<1>1. LifeInv' /\ Pinned'
  BY PinnedKept DEF Expire
<1>2. ClientTypeOK' /\ Https' /\ TokenOnlyToTrusted'
  BY DEF Expire, request_vars, pin_vars, IInv, ClientTypeOK, Https, TokenOnlyToTrusted, Nobody
<1> QED
  BY <1>1, <1>2 DEF IInv

\* Nothing happens.
LEMMA StutterInv == ASSUME IInv, UNCHANGED vars PROVE IInv'
<1>1. LifeInv' /\ Pinned'
  BY PinnedKept DEF vars
<1>2. ClientTypeOK' /\ Https' /\ TokenOnlyToTrusted'
  BY DEF vars, request_vars, pin_vars, IInv, ClientTypeOK, Https, TokenOnlyToTrusted, Nobody
<1> QED
  BY <1>1, <1>2 DEF IInv

\* The initial states.
LEMMA InitInv == Init => IInv
<1> SUFFICES ASSUME Init PROVE IInv
  OBVIOUS
<1>1. LifeTypeOK
  <2>1. Disk!FilesTypeOK
    BY ServerLifeAssumption DEF Init, InitLife, Disk!InitFiles, Disk!FilesTypeOK
  <2>2. check \in 1 .. Len(Checks) /\ faults \in 0 .. MaxFaults
    BY ChecksListed, ServerLifeAssumption DEF Init, InitLife
  <2>3. loaded \in Pair /\ phase \in Phases
    BY DEF Init, InitLife, Pair, NoPair, Phases
  <2> QED
    BY <2>1, <2>2, <2>3 DEF Init, InitLife, LifeTypeOK
<1>2. Seen /\ Settled /\ Kept /\ StartFailsOnlyForCause
  BY DEF Init, InitLife, Seen, Starting, Settled, Kept, StartFailsOnlyForCause
<1>3. Nobody \in Told
  BY DEF Nobody, Told
<1>4. ClientTypeOK /\ Pinned /\ Https /\ TokenOnlyToTrusted
  BY <1>3 DEF Init, ClientTypeOK, Pinned, Https, TokenOnlyToTrusted
<1> QED
  BY <1>1, <1>2, <1>4 DEF IInv, LifeInv

-----------------------------------------------------------------------------
\* Every reachable state has the invariant the theorems below rest on: what is
\* wrong during a start is remembered, what is in memory is what was on disk,
\* and a pin is what it was taken of.
THEOREM TransportInvariant == Spec => []IInv
<1>1. IInv /\ [Next]_vars => IInv'
  BY ServerStepInv, SubmitInv, HopInv, TakePinInv, ExpireInv, StutterInv DEF Next
<1> QED
  BY <1>1, InitInv, PTL DEF Spec

\* Every variable keeps to its set.
THEOREM TransportTyped == Spec => []TypeOK
<1>1. IInv => TypeOK
  BY DEF IInv, LifeInv, ClientTypeOK, TypeOK
<1> QED
  BY <1>1, TransportInvariant, PTL

\* The server does not start only if a file it is configured with was broken,
\* or its pair did not match, at some moment since it was launched.
THEOREM StartsUnlessFlawed == Spec => []StartFailsOnlyForCause
<1>1. IInv => StartFailsOnlyForCause
  BY DEF IInv, LifeInv
<1> QED
  BY <1>1, TransportInvariant, PTL

\* Wherever redirects lead, the token goes to trusted hosts only, over https.
THEOREM TokenStaysWithTrusted == Spec => []TokenOnlyToTrusted
<1>1. IInv => TokenOnlyToTrusted
  BY DEF IInv
<1> QED
  BY <1>1, TransportInvariant, PTL

\* A fingerprint is of no use any more only after a renewal and a restart, and
\* never if the server has a certificate of its own.
THEOREM PinHoldsUntilRestart == Spec => []PinBreaksOnlyByRestart
<1>1. IInv => PinBreaksOnlyByRestart
  <2> SUFFICES ASSUME IInv, pin # Unset, phase = "up", loaded.cert # pin
               PROVE  server_certfile = Unset /\ relaunched /\ superseded
    BY DEF PinBreaksOnlyByRestart
  <2>1. server_certfile = Unset
    BY DEF IInv, LifeInv, Kept, Pinned
  <2> QED
    BY <2>1 DEF IInv, ClientTypeOK, Pinned
<1> QED
  BY <1>1, TransportInvariant, PTL

\* A server that is up presents what the client's CAs vouch for, unless that
\* has run out, or was overtaken by a renewal since the server was started.
THEOREM ChainHoldsUntilRenewal == Spec => []RefusedOnlyForCause
<1>1. IInv => RefusedOnlyForCause
  BY DEF IInv, LifeInv, LifeTypeOK, Kept, RefusedOnlyForCause
<1> QED
  BY <1>1, TransportInvariant, PTL
=============================================================================
