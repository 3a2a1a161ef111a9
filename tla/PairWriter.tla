----------------------------- MODULE PairWriter -----------------------------
(***************************************************************************)
(* write_pair_atomically of sslpv.services.client, one action per system   *)
(* call that may fail or be cut short: a certificate and its private key   *)
(* are each staged in a temporary file and then renamed into place, the    *)
(* certificate first.  Writers are processes that may run at the same time *)
(* (two cron entries, a run that outlasts its period) and write again and  *)
(* again; any of them may be killed between two calls.                     *)
(*                                                                         *)
(* Each action is one call with the handling of its OSError.  Faults names *)
(* the failures an instance allows:                                        *)
(*   "stage"       mkstemp, fsync or fchmod raises, or os.write does       *)
(*   "short"       os.write writes less than it was given, and returns     *)
(*   "rename_cert", "rename_key"   os.replace raises                       *)
(*   "undo"        os.remove(cert_path) raises                             *)
(*   "unlink"      os.remove of a temporary file raises                    *)
(*   "crash"       the process dies (a KeyboardInterrupt is not handled    *)
(*                 by "except Exception" and leaves the same state)        *)
(***************************************************************************)
EXTENDS Naturals, FiniteSets

CONSTANTS
    Writers,            \* processes
    Certs, Keys,        \* contents of a certificate and of a key file
    KeyOf,              \* the key each certificate was issued for
    Absent,             \* no such file
    Truncated,          \* a file cut short by a short write
    Faults

ASSUME PairWriterAssumption ==
    /\ KeyOf \in [Certs -> Keys]
    /\ {Absent, Truncated} \cap (Certs \cup Keys) = {}
    /\ Absent # Truncated
    /\ Faults \subseteq {"stage", "short", "rename_cert", "rename_key",
                         "undo", "unlink", "crash"}

VARIABLES
    cert_path, privkey_path,    \* the two files, as any reader finds them
    at,                         \* what each writer is about to do
    new,                        \* the [cert, key] it was called with
    cert_tmp, privkey_tmp,      \* the temporary files of its last call
    causes                      \* history: what has disturbed the pair since
                                \* a writer last installed one undisturbed

files == <<cert_path, privkey_path>>
temps == <<cert_tmp, privkey_tmp>>
writer_vars == <<files, at, new, temps, causes>>

Resting == {"idle", "done", "failed", "crashed"}

Steps == {"stage_cert", "stage_key", "rename_cert", "rename_key", "undo", "clean_up"}

Active(w) == at[w] \in Steps

Goes(w, step) == at' = [at EXCEPT ![w] = step]

-----------------------------------------------------------------------------
InitWriters ==
    /\ \/ cert_path = Absent /\ privkey_path = Absent
       \/ \E c \in Certs : cert_path = c /\ privkey_path = KeyOf[c]
    /\ at = [w \in Writers |-> "idle"]
    /\ new \in [Writers -> {[cert |-> c, key |-> KeyOf[c]] : c \in Certs}]
    /\ cert_tmp = [w \in Writers |-> Absent]
    /\ privkey_tmp = [w \in Writers |-> Absent]
    /\ causes = {}

\* The call.  Directories are made first, outside the try block.  It has no
\* temporary files yet, and takes new names for them: what an earlier call may
\* have left stays on disk, and nothing touches it again.
Begin(w, cert, key) ==
    /\ ~Active(w)
    /\ new' = [new EXCEPT ![w] = [cert |-> cert, key |-> key]]
    /\ Goes(w, "stage_cert")
    /\ cert_tmp' = [cert_tmp EXCEPT ![w] = Absent]
    /\ privkey_tmp' = [privkey_tmp EXCEPT ![w] = Absent]
    /\ causes' = causes \cup (IF \E v \in Writers \ {w} : Active(v) THEN {"overlap"} ELSE {})
    /\ UNCHANGED files

\* makedirs or mkstemp raises: there is no temporary file to remove.
FailsToCreate(w) ==
    /\ "stage" \in Faults
    /\ Goes(w, "clean_up")
    /\ UNCHANGED <<files, new, temps, causes>>

\* Nothing checks how much os.write has written.
StagedAs(bytes) == {bytes} \cup (IF "short" \in Faults THEN {Truncated} ELSE {})

StageCert(w) ==
    /\ at[w] = "stage_cert"
    /\ \/ FailsToCreate(w)
       \/ /\ \E content \in StagedAs(new[w].cert) :
                cert_tmp' = [cert_tmp EXCEPT ![w] = content]
          /\ \/ Goes(w, "stage_key")
             \/ "stage" \in Faults /\ Goes(w, "clean_up")
          /\ UNCHANGED <<files, new, privkey_tmp, causes>>

StageKey(w) ==
    /\ at[w] = "stage_key"
    /\ \/ FailsToCreate(w)
       \/ /\ \E content \in StagedAs(new[w].key) :
                privkey_tmp' = [privkey_tmp EXCEPT ![w] = content]
          /\ \/ Goes(w, "rename_cert")
             \/ "stage" \in Faults /\ Goes(w, "clean_up")
          /\ UNCHANGED <<files, new, cert_tmp, causes>>

\* A mistake: the key's temporary file is renamed to the certificate's path.
RenameCertSwapped(w) ==
    /\ at[w] = "rename_cert"
    /\ cert_path' = privkey_tmp[w]
    /\ Goes(w, "rename_key")
    /\ UNCHANGED <<privkey_path, new, temps, causes>>

\* A mistake: a failed rename of the certificate does not stop the key's.
RenameCertRegardless(w) ==
    /\ at[w] = "rename_cert"
    /\ \/ /\ cert_path' = cert_tmp[w]
          /\ cert_tmp' = [cert_tmp EXCEPT ![w] = Absent]
       \/ "rename_cert" \in Faults /\ UNCHANGED <<cert_path, cert_tmp>>
    /\ Goes(w, "rename_key")
    /\ UNCHANGED <<privkey_path, new, privkey_tmp, causes>>

RenameCert(w) ==
    /\ at[w] = "rename_cert"
    /\ \/ /\ cert_path' = cert_tmp[w]
          /\ cert_tmp' = [cert_tmp EXCEPT ![w] = Absent]
          /\ Goes(w, "rename_key")
       \/ /\ "rename_cert" \in Faults
          /\ Goes(w, "clean_up")
          /\ UNCHANGED <<cert_path, cert_tmp>>
    /\ UNCHANGED <<privkey_path, new, privkey_tmp, causes>>

\* The causes left when w has put both files in place: none, if the files are
\* whole and no other writer is at work.
CausesAfter(w) ==
    IF \E v \in Writers \ {w} : Active(v) THEN causes \cup {"overlap"}
    ELSE IF Truncated \in {cert_path, privkey_tmp[w]} THEN {"short"}
    ELSE IF cert_path # new[w].cert THEN causes
    ELSE {}

RenameKey(w) ==
    /\ at[w] = "rename_key"
    /\ \/ /\ privkey_path' = privkey_tmp[w]
          /\ privkey_tmp' = [privkey_tmp EXCEPT ![w] = Absent]
          /\ causes' = CausesAfter(w)
          /\ Goes(w, "done")
       \/ /\ "rename_key" \in Faults
          /\ causes' = causes \cup {"rename_key"}
          /\ Goes(w, "undo")
          /\ UNCHANGED <<privkey_path, privkey_tmp>>
    /\ UNCHANGED <<cert_path, new, cert_tmp>>

\* The new certificate is removed; the one it replaced is gone already.
Undo(w) ==
    /\ at[w] = "undo"
    /\ cert_path' \in {Absent} \cup (IF "undo" \in Faults THEN {cert_path} ELSE {})
    /\ Goes(w, "clean_up")
    /\ UNCHANGED <<privkey_path, new, temps, causes>>

\* What os.remove leaves of a temporary file: nothing, unless it raises.
Removed(file) == {Absent} \cup (IF "unlink" \in Faults THEN {file} ELSE {})

\* A mistake: only the certificate's temporary file is removed.
CleanUpCertOnly(w) ==
    /\ at[w] = "clean_up"
    /\ \E left \in Removed(cert_tmp[w]) : cert_tmp' = [cert_tmp EXCEPT ![w] = left]
    /\ Goes(w, "failed")
    /\ UNCHANGED <<files, new, privkey_tmp, causes>>

\* The temporary files not yet renamed are removed, one whether or not the
\* other could be, and the error re-raised.
CleanUp(w) ==
    /\ at[w] = "clean_up"
    /\ \E left \in Removed(cert_tmp[w]) : cert_tmp' = [cert_tmp EXCEPT ![w] = left]
    /\ \E left \in Removed(privkey_tmp[w]) : privkey_tmp' = [privkey_tmp EXCEPT ![w] = left]
    /\ Goes(w, "failed")
    /\ UNCHANGED <<files, new, causes>>

\* The process dies before its next call, and its files stay as they are.
Crash(w) ==
    /\ "crash" \in Faults
    /\ Active(w)
    /\ Goes(w, "crashed")
    /\ causes' = causes \cup
            (IF at[w] \in {"rename_key", "undo"} THEN {"crash"} ELSE {})
    /\ UNCHANGED <<files, new, temps>>

WriterStep(w) ==
    \/ StageCert(w)
    \/ StageKey(w)
    \/ RenameCert(w)
    \/ RenameKey(w)
    \/ Undo(w)
    \/ CleanUp(w)

WriterNext ==
    \E w \in Writers :
        \/ \E c \in Certs : Begin(w, c, KeyOf[c])
        \/ WriterStep(w)
        \/ Crash(w)

WriterSpec == InitWriters /\ [][WriterNext]_writer_vars

-----------------------------------------------------------------------------
Content(Bytes) == Bytes \cup {Absent, Truncated}

WritersTypeOK ==
    /\ cert_path \in Content(Certs)
    /\ privkey_path \in Content(Keys)
    /\ at \in [Writers -> Resting \cup Steps]
    /\ new \in [Writers -> [cert : Certs, key : Keys]]
    /\ cert_tmp \in [Writers -> Content(Certs)]
    /\ privkey_tmp \in [Writers -> Content(Keys)]
    /\ causes \subseteq {"overlap", "short", "rename_key", "crash"}

\* What a service that loads the two files needs.
Matched == cert_path \in Certs /\ privkey_path = KeyOf[cert_path]

NothingYet == cert_path = Absent /\ privkey_path = Absent

\* Only a rename of the key that failed, a process killed between the two
\* renames, a short write or two writers at once can leave the files unmatched:
\* no other failure does, wherever it strikes.  And none of them does so for
\* good: a write that ends well with no other writer active leaves no cause.
UnmatchedOnlyForCause ==
    Matched \/ NothingYet \/ causes # {}
        \/ \E w \in Writers : at[w] = "rename_key"

\* The key on disk is replaced only while the certificate issued for it lies
\* beside it, unless a writer overlaps or a write is short.
KeyFollowsCert ==
    [][privkey_path' # privkey_path =>
          \/ cert_path' = cert_path /\ cert_path \in Certs
               /\ privkey_path' = KeyOf[cert_path]
          \/ causes' \cap {"overlap", "short"} # {}]_writer_vars

\* A call that returns or raises leaves no temporary file behind, whichever of
\* its steps failed and however much it had staged and renamed by then; only a
\* crash does, or a removal that itself fails.
TempsLeftOnlyByCrash ==
    \A w \in Writers :
        at[w] \in {"idle", "done"} \/ (at[w] = "failed" /\ "unlink" \notin Faults) =>
            cert_tmp[w] = Absent /\ privkey_tmp[w] = Absent

-----------------------------------------------------------------------------
\* "If the second rename fails, an attempt is made to roll back or clean up so
\* that a half-updated pair never persists", and the pair is written
\* "atomically" (docstring of write_pair_atomically): a write that has failed
\* leaves the files a pair, if they were one.
FailureKeepsAPair ==
    \A w \in Writers : at[w] = "failed" => Matched \/ NothingYet
=============================================================================
