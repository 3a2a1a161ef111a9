--------------------------- MODULE ClientRunProofs ---------------------------
(***************************************************************************)
(* PairWriter and ClientRun: what may leave the two files unmatched or the *)
(* service with an old pair, for any number of writers, certificates that  *)
(* share a key or not, and any faults.                                     *)
(***************************************************************************)
EXTENDS ClientRun, TLAPS

\* Two writers at work at once are remembered as long as both are.
Overlaps ==
    \A v, w \in Writers : v # w /\ Active(v) /\ Active(w) => "overlap" \in causes

\* What a writer has staged is what it was called with, or was cut short; and
\* while it is about to rename the key its certificate is in place, unless
\* another writer has been at work.
Staged(w) ==
    /\ new[w].key = KeyOf[new[w].cert]
    /\ at[w] \in {"stage_key", "rename_cert"} => cert_tmp[w] \in {new[w].cert, Truncated}
    /\ at[w] \in {"rename_cert", "rename_key"} => privkey_tmp[w] \in {new[w].key, Truncated}
    /\ at[w] = "rename_key" /\ "overlap" \notin causes => cert_path \in {new[w].cert, Truncated}
    /\ at[w] = "undo" => causes # {}

\* A temporary file is there from its creation to its rename or its removal.
InPlace(w) ==
    /\ at[w] \in {"idle", "stage_cert", "rename_key", "undo", "done"} => cert_tmp[w] = Absent
    /\ at[w] \in {"idle", "stage_cert", "stage_key", "done"} => privkey_tmp[w] = Absent
    /\ at[w] = "failed" /\ "unlink" \notin Faults =>
          cert_tmp[w] = Absent /\ privkey_tmp[w] = Absent

WInv ==
    /\ WritersTypeOK
    /\ Overlaps
    /\ \A w \in Writers : Staged(w) /\ InPlace(w)
    /\ UnmatchedOnlyForCause

-----------------------------------------------------------------------------
\* Only w's part of the writers' state changes.
OnlyWriter(w) ==
    \A v \in Writers \ {w} : /\ at'[v] = at[v] /\ new'[v] = new[v]
                             /\ cert_tmp'[v] = cert_tmp[v]
                             /\ privkey_tmp'[v] = privkey_tmp[v]

\* What a writer's step leaves of the invariant to the others.
LEMMA OthersStaged ==
    ASSUME WInv, NEW w \in Writers, OnlyWriter(w),
           cert_path' = cert_path \/ Active(w),
           \A v \in Writers \ {w} : Active(v) => causes \subseteq causes',
           Active(w)' => \/ Active(w)
                         \/ \A v \in Writers \ {w} : Active(v) => "overlap" \in causes'
    PROVE  Overlaps' /\ (\A v \in Writers \ {w} : Staged(v)' /\ InPlace(v)')
<1>1. ASSUME NEW v \in Writers \ {w}
      PROVE  /\ Active(v)' <=> Active(v)
             /\ Active(v) /\ Active(w)' => "overlap" \in causes'
  <2>1. Active(v)' <=> Active(v)
    BY DEF OnlyWriter, Active
  <2>2. Active(v) /\ Active(w) => "overlap" \in causes
    BY DEF WInv, Overlaps
  <2> QED
    BY <2>1, <2>2
<1>2. Overlaps'
  <2> SUFFICES ASSUME NEW u \in Writers, NEW v \in Writers, u # v, Active(u)', Active(v)'
               PROVE  "overlap" \in causes'
    BY DEF Overlaps
  <2>1. CASE u = w \/ v = w
    BY <1>1, <2>1
  <2>2. CASE u # w /\ v # w
    BY <1>1, <2>2 DEF WInv, Overlaps
  <2> QED
    BY <2>1, <2>2
<1>3. ASSUME NEW v \in Writers \ {w} PROVE Staged(v)' /\ InPlace(v)'
  <2>1. /\ at'[v] = at[v] /\ new'[v] = new[v]
        /\ cert_tmp'[v] = cert_tmp[v] /\ privkey_tmp'[v] = privkey_tmp[v]
    BY DEF OnlyWriter
  <2>2. Staged(v) /\ InPlace(v)
    BY DEF WInv
  <2>0. InPlace(v)'
    BY <2>1, <2>2 DEF InPlace
  <2>3. CASE ~Active(v)
    BY <2>0, <2>1, <2>2, <2>3 DEF Staged, Active, Steps
  <2>4. CASE Active(v)
    <3>1. causes \subseteq causes'
      BY <2>4
    <3>2. cert_path' = cert_path \/ "overlap" \in causes'
      BY <2>4, <3>1 DEF WInv, Overlaps
    <3> QED
      BY <2>0, <2>1, <2>2, <3>1, <3>2 DEF Staged
  <2> QED
    BY <2>3, <2>4
<1> QED
  BY <1>2, <1>3

\* The files stay as matched as they were.
LEMMA FilesStay ==
    ASSUME WInv, NEW w \in Writers, OnlyWriter(w), UNCHANGED files, causes \subseteq causes',
           at[w] = "rename_key" => causes' # {}
    PROVE  UnmatchedOnlyForCause'
<1>1. Matched' = Matched /\ NothingYet' = NothingYet
  BY DEF files, Matched, NothingYet
<1>2. ASSUME NEW v \in Writers, at[v] = "rename_key"
      PROVE  at'[v] = "rename_key" \/ causes' # {}
  BY <1>2 DEF OnlyWriter
<1> QED
  BY <1>1, <1>2 DEF WInv, UnmatchedOnlyForCause

\* The call.
LEMMA BeginInv ==
    ASSUME WInv, NEW w \in Writers, NEW c \in Certs, Begin(w, c, KeyOf[c])
    PROVE  WInv'
<1>0. WritersTypeOK /\ KeyOf[c] \in Keys
  BY PairWriterAssumption DEF WInv
<1>1. /\ new' = [new EXCEPT ![w] = [cert |-> c, key |-> KeyOf[c]]]
      /\ at' = [at EXCEPT ![w] = "stage_cert"]
      /\ causes' = causes \cup (IF \E v \in Writers \ {w} : Active(v) THEN {"overlap"} ELSE {})
      /\ cert_tmp' = [cert_tmp EXCEPT ![w] = Absent]
      /\ privkey_tmp' = [privkey_tmp EXCEPT ![w] = Absent]
      /\ UNCHANGED files
      /\ ~Active(w)
  BY DEF Begin, Goes
<1>2. WritersTypeOK'
  BY <1>0, <1>1 DEF WritersTypeOK, files, Steps, Content
<1>3. /\ OnlyWriter(w) /\ at'[w] = "stage_cert" /\ new'[w] = [cert |-> c, key |-> KeyOf[c]]
      /\ cert_tmp'[w] = Absent /\ privkey_tmp'[w] = Absent
  BY <1>0, <1>1 DEF OnlyWriter, WritersTypeOK
<1>4. Overlaps' /\ (\A v \in Writers \ {w} : Staged(v)' /\ InPlace(v)')
  BY <1>1, <1>3, OthersStaged DEF files
<1>5. Staged(w)' /\ InPlace(w)'
  BY <1>3 DEF Staged, InPlace
<1>6. UnmatchedOnlyForCause'
  BY <1>1, <1>3, FilesStay DEF Active, Steps
<1> QED
  BY <1>2, <1>4, <1>5, <1>6 DEF WInv

\* A step before the first rename, or of the clean-up: the files stay, and the
\* writer goes on with what it has staged.
LEMMA PreparesInv ==
    ASSUME WInv, NEW w \in Writers, WritersTypeOK', OnlyWriter(w), Active(w),
           at[w] # "rename_key", new'[w] = new[w], UNCHANGED files, UNCHANGED causes,
           Staged(w)', InPlace(w)'
    PROVE  WInv'
<1>1. Overlaps' /\ (\A v \in Writers \ {w} : Staged(v)' /\ InPlace(v)')
  BY OthersStaged DEF files
<1>2. UnmatchedOnlyForCause'
  BY FilesStay
<1> QED
  BY <1>1, <1>2 DEF WInv

\* The certificate is staged.
LEMMA StageCertInv == ASSUME WInv, NEW w \in Writers, StageCert(w) PROVE WInv'
<1>0. WritersTypeOK /\ Active(w) /\ at[w] = "stage_cert" /\ Staged(w) /\ InPlace(w)
  BY DEF WInv, StageCert, Active, Steps
<1>1. /\ UNCHANGED <<files, new, privkey_tmp, causes>>
      /\ at' \in {[at EXCEPT ![w] = "clean_up"], [at EXCEPT ![w] = "stage_key"]}
      /\ \/ cert_tmp' = cert_tmp /\ at' = [at EXCEPT ![w] = "clean_up"]
         \/ cert_tmp' = [cert_tmp EXCEPT ![w] = new[w].cert]
         \/ cert_tmp' = [cert_tmp EXCEPT ![w] = Truncated]
  BY DEF StageCert, FailsToCreate, StagedAs, Goes, temps
<1>2. new[w].cert \in Certs
  BY <1>0 DEF WritersTypeOK
<1>3. WritersTypeOK'
  BY <1>0, <1>1, <1>2 DEF WritersTypeOK, files, Content, Steps
<1>4. OnlyWriter(w) /\ new'[w] = new[w]
  BY <1>0, <1>1 DEF OnlyWriter, WritersTypeOK
<1>5. Staged(w)' /\ InPlace(w)'
  BY <1>0, <1>1 DEF Staged, InPlace, WritersTypeOK
<1> QED
  BY <1>0, <1>1, <1>3, <1>4, <1>5, PreparesInv

\* The key is staged.
LEMMA StageKeyInv == ASSUME WInv, NEW w \in Writers, StageKey(w) PROVE WInv'
<1>0. WritersTypeOK /\ Active(w) /\ at[w] = "stage_key" /\ Staged(w) /\ InPlace(w)
  BY DEF WInv, StageKey, Active, Steps
<1>1. /\ UNCHANGED <<files, new, cert_tmp, causes>>
      /\ at' \in {[at EXCEPT ![w] = "clean_up"], [at EXCEPT ![w] = "rename_cert"]}
      /\ \/ privkey_tmp' = privkey_tmp /\ at' = [at EXCEPT ![w] = "clean_up"]
         \/ privkey_tmp' = [privkey_tmp EXCEPT ![w] = new[w].key]
         \/ privkey_tmp' = [privkey_tmp EXCEPT ![w] = Truncated]
  BY DEF StageKey, FailsToCreate, StagedAs, Goes, temps
<1>2. new[w].key \in Keys
  BY <1>0 DEF WritersTypeOK
<1>3. WritersTypeOK'
  BY <1>0, <1>1, <1>2 DEF WritersTypeOK, files, Content, Steps
<1>4. OnlyWriter(w) /\ new'[w] = new[w]
  BY <1>0, <1>1 DEF OnlyWriter, WritersTypeOK
<1>5. Staged(w)' /\ InPlace(w)'
  BY <1>0, <1>1 DEF Staged, InPlace, WritersTypeOK
<1> QED
  BY <1>0, <1>1, <1>3, <1>4, <1>5, PreparesInv

\* The temporary files are removed.
LEMMA CleanUpInv == ASSUME WInv, NEW w \in Writers, CleanUp(w) PROVE WInv'
<1>0. WritersTypeOK /\ Active(w) /\ at[w] = "clean_up" /\ Staged(w)
  BY DEF WInv, CleanUp, Active, Steps
<1>1. /\ UNCHANGED <<files, new, causes>>
      /\ at' = [at EXCEPT ![w] = "failed"]
  BY DEF CleanUp, Goes
<1>2. PICK left \in Removed(cert_tmp[w]) : cert_tmp' = [cert_tmp EXCEPT ![w] = left]
  BY DEF CleanUp
<1>3. PICK rest \in Removed(privkey_tmp[w]) : privkey_tmp' = [privkey_tmp EXCEPT ![w] = rest]
  BY DEF CleanUp
<1>4. /\ left \in {Absent, cert_tmp[w]} /\ rest \in {Absent, privkey_tmp[w]}
      /\ "unlink" \notin Faults => left = Absent /\ rest = Absent
  BY <1>2, <1>3 DEF Removed
<1>5. WritersTypeOK'
  BY <1>0, <1>1, <1>2, <1>3, <1>4 DEF WritersTypeOK, files, Content, Resting
<1>6. /\ OnlyWriter(w) /\ new'[w] = new[w] /\ at'[w] = "failed"
      /\ cert_tmp'[w] = left /\ privkey_tmp'[w] = rest
  BY <1>0, <1>1, <1>2, <1>3 DEF OnlyWriter, WritersTypeOK
<1>7. Staged(w)' /\ InPlace(w)'
  BY <1>0, <1>1, <1>4, <1>6 DEF Staged, InPlace
<1> QED
  BY <1>0, <1>1, <1>5, <1>6, <1>7, PreparesInv

\* The certificate is renamed into place.
LEMMA RenameCertInv == ASSUME WInv, NEW w \in Writers, RenameCert(w) PROVE WInv'
<1>0. WritersTypeOK /\ Active(w) /\ at[w] = "rename_cert" /\ Staged(w) /\ InPlace(w)
  BY DEF WInv, RenameCert, Active, Steps
<1>1. UNCHANGED <<privkey_path, new, privkey_tmp, causes>>
  BY DEF RenameCert
<1>2. CASE /\ at' = [at EXCEPT ![w] = "clean_up"]
           /\ UNCHANGED <<cert_path, cert_tmp>>
  <2>1. WritersTypeOK'
    BY <1>0, <1>1, <1>2 DEF WritersTypeOK, Steps
  <2>2. OnlyWriter(w) /\ new'[w] = new[w]
    BY <1>0, <1>1, <1>2 DEF OnlyWriter, WritersTypeOK
  <2>3. Staged(w)' /\ InPlace(w)'
    BY <1>0, <1>1, <1>2 DEF Staged, InPlace, WritersTypeOK
  <2> QED
    BY <1>0, <1>1, <1>2, <2>1, <2>2, <2>3, PreparesInv DEF files
<1>3. CASE /\ cert_path' = cert_tmp[w]
           /\ cert_tmp' = [cert_tmp EXCEPT ![w] = Absent]
           /\ at' = [at EXCEPT ![w] = "rename_key"]
  <2>1. WritersTypeOK'
    BY <1>0, <1>1, <1>3 DEF WritersTypeOK, Steps, Content
  <2>2. OnlyWriter(w) /\ at'[w] = "rename_key" /\ cert_tmp'[w] = Absent
    BY <1>0, <1>1, <1>3 DEF OnlyWriter, WritersTypeOK
  <2>3. Overlaps' /\ (\A v \in Writers \ {w} : Staged(v)' /\ InPlace(v)')
    BY <1>0, <1>1, <2>2, OthersStaged
  <2>4. Staged(w)' /\ InPlace(w)'
    BY <1>0, <1>1, <1>3, <2>2 DEF Staged, InPlace
  <2>5. UnmatchedOnlyForCause'
    BY <2>2 DEF UnmatchedOnlyForCause
  <2> QED
    BY <2>1, <2>3, <2>4, <2>5 DEF WInv
<1> QED
  BY <1>2, <1>3 DEF RenameCert, Goes

\* What is known when the key has been renamed: the pair is the writer's own,
\* or there is a cause.
LEMMA InstalledOrCause ==
    ASSUME WInv, NEW w \in Writers, at[w] = "rename_key"
    PROVE  \/ CausesAfter(w) \cap {"overlap", "short"} # {}
           \/ /\ CausesAfter(w) = {}
              /\ cert_path = new[w].cert /\ cert_path \in Certs
              /\ privkey_tmp[w] = KeyOf[cert_path]
<1>1. new[w].cert \in Certs /\ new[w].key = KeyOf[new[w].cert] /\ Staged(w) /\ InPlace(w)
  BY DEF WInv, WritersTypeOK, Staged
<1>2. privkey_tmp[w] \in {new[w].key, Truncated}
  BY <1>1 DEF Staged
<1>3. "overlap" \notin causes => cert_path \in {new[w].cert, Truncated}
  BY <1>1 DEF Staged
<1> QED
  BY <1>1, <1>2, <1>3 DEF CausesAfter

\* The key is renamed into place, or is not.
LEMMA RenameKeyInv == ASSUME WInv, NEW w \in Writers, RenameKey(w) PROVE WInv'
<1>0. WritersTypeOK /\ Active(w) /\ at[w] = "rename_key" /\ Staged(w) /\ InPlace(w)
  BY DEF WInv, RenameKey, Active, Steps
<1>1. UNCHANGED <<cert_path, new, cert_tmp>>
  BY DEF RenameKey
<1>2. CASE /\ privkey_path' = privkey_tmp[w]
           /\ privkey_tmp' = [privkey_tmp EXCEPT ![w] = Absent]
           /\ causes' = CausesAfter(w)
           /\ at' = [at EXCEPT ![w] = "done"]
  <2>1. CausesAfter(w) \subseteq {"overlap", "short", "rename_key", "crash"}
    BY <1>0 DEF CausesAfter, WritersTypeOK
  <2>2. WritersTypeOK'
    BY <1>0, <1>1, <1>2, <2>1 DEF WritersTypeOK, Resting, Content
  <2>3. /\ OnlyWriter(w) /\ at'[w] = "done" /\ new'[w] = new[w]
        /\ privkey_tmp'[w] = Absent
    BY <1>0, <1>1, <1>2 DEF OnlyWriter, WritersTypeOK
  <2>4. \A v \in Writers \ {w} : Active(v) => causes \subseteq causes'
    BY <1>2 DEF CausesAfter
  <2>5. Overlaps' /\ (\A v \in Writers \ {w} : Staged(v)' /\ InPlace(v)')
    BY <1>0, <2>3, <2>4, OthersStaged
  <2>6. Staged(w)' /\ InPlace(w)'
    BY <1>0, <1>1, <2>3 DEF Staged, InPlace
  <2>7. UnmatchedOnlyForCause'
    BY <1>0, <1>1, <1>2, InstalledOrCause DEF UnmatchedOnlyForCause, Matched
  <2> QED
    BY <2>2, <2>5, <2>6, <2>7 DEF WInv
<1>3. CASE /\ causes' = causes \cup {"rename_key"}
           /\ at' = [at EXCEPT ![w] = "undo"]
           /\ UNCHANGED <<privkey_path, privkey_tmp>>
  <2>1. WritersTypeOK'
    BY <1>0, <1>1, <1>3 DEF WritersTypeOK, Steps
  <2>2. OnlyWriter(w) /\ at'[w] = "undo" /\ new'[w] = new[w]
    BY <1>0, <1>1, <1>3 DEF OnlyWriter, WritersTypeOK
  <2>3. Overlaps' /\ (\A v \in Writers \ {w} : Staged(v)' /\ InPlace(v)')
    BY <1>0, <1>3, <2>2, OthersStaged
  <2>4. Staged(w)' /\ InPlace(w)'
    BY <1>0, <1>1, <1>3, <2>2 DEF Staged, InPlace
  <2>5. UnmatchedOnlyForCause'
    BY <1>3 DEF UnmatchedOnlyForCause
  <2> QED
    BY <2>1, <2>3, <2>4, <2>5 DEF WInv
<1> QED
  BY <1>2, <1>3 DEF RenameKey, Goes

\* The new certificate is removed, the cause of it remains.
LEMMA UndoInv == ASSUME WInv, NEW w \in Writers, Undo(w) PROVE WInv'
<1>0. WritersTypeOK /\ Active(w) /\ at[w] = "undo" /\ Staged(w) /\ InPlace(w)
  BY DEF WInv, Undo, Active, Steps
<1>1. /\ cert_path' \in {Absent, cert_path}
      /\ at' = [at EXCEPT ![w] = "clean_up"]
      /\ UNCHANGED <<privkey_path, new, cert_tmp, privkey_tmp, causes>>
  BY DEF Undo, Goes, temps
<1>2. WritersTypeOK'
  BY <1>0, <1>1 DEF WritersTypeOK, Steps, Content
<1>3. OnlyWriter(w) /\ at'[w] = "clean_up" /\ new'[w] = new[w]
  BY <1>0, <1>1 DEF OnlyWriter, WritersTypeOK
<1>4. Overlaps' /\ (\A v \in Writers \ {w} : Staged(v)' /\ InPlace(v)')
  BY <1>0, <1>1, <1>3, OthersStaged
<1>5. Staged(w)' /\ InPlace(w)'
  BY <1>0, <1>3 DEF Staged, InPlace
<1>6. UnmatchedOnlyForCause'
  BY <1>0, <1>1 DEF UnmatchedOnlyForCause, Staged
<1> QED
  BY <1>2, <1>4, <1>5, <1>6 DEF WInv

\* The process dies.
LEMMA CrashInv == ASSUME WInv, NEW w \in Writers, Crash(w) PROVE WInv'
<1>0. WritersTypeOK /\ Active(w) /\ Staged(w) /\ InPlace(w)
  BY DEF WInv, Crash
<1>1. /\ at' = [at EXCEPT ![w] = "crashed"]
      /\ causes' = causes \cup (IF at[w] \in {"rename_key", "undo"} THEN {"crash"} ELSE {})
      /\ UNCHANGED <<files, new, cert_tmp, privkey_tmp>>
  BY DEF Crash, Goes, temps
<1>2. WritersTypeOK'
  BY <1>0, <1>1 DEF WritersTypeOK, Resting, Content, files
<1>3. OnlyWriter(w) /\ at'[w] = "crashed" /\ new'[w] = new[w]
  BY <1>0, <1>1 DEF OnlyWriter, WritersTypeOK
<1>4. Overlaps' /\ (\A v \in Writers \ {w} : Staged(v)' /\ InPlace(v)')
  BY <1>0, <1>1, <1>3, OthersStaged
<1>5. Staged(w)' /\ InPlace(w)'
  BY <1>0, <1>3 DEF Staged, InPlace
<1>6. UnmatchedOnlyForCause'
  BY <1>1, <1>3, FilesStay
<1> QED
  BY <1>2, <1>4, <1>5, <1>6 DEF WInv

\* Nothing happens.
LEMMA WriterStutterInv == ASSUME WInv, UNCHANGED writer_vars PROVE WInv'
<1>1. UNCHANGED <<cert_path, privkey_path, at, new, cert_tmp, privkey_tmp, causes>>
  BY DEF writer_vars, files, temps
<1>2. WritersTypeOK'
  BY <1>1 DEF WInv, WritersTypeOK
<1>3. Overlaps' /\ (\A w \in Writers : Staged(w)' /\ InPlace(w)') /\ UnmatchedOnlyForCause'
  BY <1>1 DEF WInv, Overlaps, Active, Staged, InPlace, UnmatchedOnlyForCause, Matched, NothingYet
<1> QED
  BY <1>2, <1>3 DEF WInv

\* Every step of the writers keeps the invariant.
LEMMA WriterStepInv == ASSUME WInv, [WriterNext]_writer_vars PROVE WInv'
<1>1. ASSUME NEW w \in Writers, WriterStep(w) PROVE WInv'
  BY <1>1, StageCertInv, StageKeyInv, RenameCertInv, RenameKeyInv, UndoInv, CleanUpInv
     DEF WriterStep
<1> QED
  BY <1>1, BeginInv, CrashInv, WriterStutterInv DEF WriterNext

\* Writers start from a pair, or from nothing.
LEMMA InitWritersInv == InitWriters => WInv
<1> SUFFICES ASSUME InitWriters PROVE WInv
  OBVIOUS
<1>1. new \in [Writers -> {[cert |-> c, key |-> KeyOf[c]] : c \in Certs}]
  BY DEF InitWriters
<1>2. \A w \in Writers : /\ new[w] \in [cert : Certs, key : Keys]
                         /\ new[w].key = KeyOf[new[w].cert]
  <2> TAKE w \in Writers
  <2>1. PICK c \in Certs : new[w] = [cert |-> c, key |-> KeyOf[c]]
    BY <1>1
  <2> QED
    BY <2>1, PairWriterAssumption
<1>3. new \in [Writers -> [cert : Certs, key : Keys]]
  BY <1>1, <1>2
<1>4. WritersTypeOK
  BY <1>3, PairWriterAssumption DEF InitWriters, WritersTypeOK, Content, Resting
<1>5. Overlaps /\ UnmatchedOnlyForCause
  BY DEF InitWriters, Overlaps, Active, Steps, UnmatchedOnlyForCause, Matched, NothingYet
<1>6. \A w \in Writers : Staged(w) /\ InPlace(w)
  BY <1>2 DEF InitWriters, Staged, InPlace
<1> QED
  BY <1>4, <1>5, <1>6 DEF WInv

\* The key is replaced only by the one that goes with the certificate in place.
LEMMA StepKeyFollows ==
    ASSUME WInv, WriterNext, privkey_path' # privkey_path
    PROVE  \/ cert_path' = cert_path /\ cert_path \in Certs
                /\ privkey_path' = KeyOf[cert_path]
           \/ causes' \cap {"overlap", "short"} # {}
<1>1. PICK w \in Writers : RenameKey(w)
  BY DEF WriterNext, Begin, WriterStep, StageCert, StageKey, FailsToCreate, RenameCert, Undo,
         CleanUp, Crash, files
<1>2. /\ at[w] = "rename_key" /\ cert_path' = cert_path
      /\ privkey_path' = privkey_tmp[w] /\ causes' = CausesAfter(w)
  BY <1>1 DEF RenameKey
<1> QED
  BY <1>2, InstalledOrCause

-----------------------------------------------------------------------------
\* Writers by themselves keep the invariant the theorems on them rest on: what
\* is staged is what was asked for or cut short, and what a writer is about to
\* complete is its own, unless another has been at work.
THEOREM WritersInvariant == WriterSpec => []WInv
BY InitWritersInv, WriterStepInv, PTL DEF WriterSpec

\* Every variable of the writers keeps to its set.
THEOREM WritersTyped == WriterSpec => []WritersTypeOK
<1>1. WInv => WritersTypeOK
  BY DEF WInv
<1> QED
  BY <1>1, WritersInvariant, PTL

\* An unmatched pair has one of four causes, and a write that ends well with no
\* other writer active leaves none.
THEOREM PairUnmatchedOnlyForCause == WriterSpec => []UnmatchedOnlyForCause
<1>1. WInv => UnmatchedOnlyForCause
  BY DEF WInv
<1> QED
  BY <1>1, WritersInvariant, PTL

\* The key is replaced only with its certificate in place, unless writers
\* overlap or a write is short.
THEOREM KeyReplacedAfterCert == WriterSpec => KeyFollowsCert
<1>1. WInv /\ [WriterNext]_writer_vars =>
        [privkey_path' # privkey_path =>
            \/ cert_path' = cert_path /\ cert_path \in Certs
                 /\ privkey_path' = KeyOf[cert_path]
            \/ causes' \cap {"overlap", "short"} # {}]_writer_vars
  BY StepKeyFollows
<1> QED
  BY <1>1, WritersInvariant, PTL DEF WriterSpec, KeyFollowsCert

\* However a call ends, but for a crash or a removal that fails, it has left no
\* temporary file: what it has not renamed it has removed.
THEOREM TempsRemovedOrRenamed == WriterSpec => []TempsLeftOnlyByCrash
<1>1. WInv => TempsLeftOnlyByCrash
  BY DEF WInv, InPlace, TempsLeftOnlyByCrash
<1> QED
  BY <1>1, WritersInvariant, PTL

-----------------------------------------------------------------------------
\* Runs of the client do to the files what writers do, and nothing else.

RunsTypeOK ==
    /\ stage \in [Writers -> Stages]
    /\ got \in [Writers -> [cert : Certs, key : Keys]]
    /\ changed \in [Writers -> BOOLEAN]
    /\ code \in [Writers -> {0, 1, 2, 137}]

ServiceTypeOK ==
    /\ hook \in {"none", "always", "on_change"}
    /\ loaded \in [cert : Content(Certs), key : Content(Keys)]
    /\ missed \in BOOLEAN

IInv == TypeOK /\ WInv

\* What is on disk is a pair of contents.
LEMMA InstalledTyped ==
    ASSUME WritersTypeOK
    PROVE  Installed \in [cert : Content(Certs), key : Content(Keys)]
BY DEF WritersTypeOK, Installed

\* A pair that is written has passed cert_key_match.
LEMMA CheckBegins ==
    ASSUME TypeOK, NEW w \in Writers, Check(w)
    PROVE  \/ UNCHANGED writer_vars
           \/ \E c \in Certs : Begin(w, c, KeyOf[c])
<1>1. got[w].cert \in Certs
  BY DEF TypeOK
<1> QED
  BY <1>1 DEF Check, MismatchExits, DetectAndWrite, CertKeyMatch

\* A step of a client, of cron, of the server or of the service is one of a
\* writer or none.
LEMMA RunsAreWriters == ASSUME TypeOK, [Next]_vars PROVE [WriterNext]_writer_vars
<1>1. CASE UNCHANGED vars
  BY <1>1 DEF vars
<1>2. CASE Renew \/ PublishCert \/ PublishKey
  BY <1>2 DEF Renew, PublishCert, PublishKey
<1>3. ASSUME NEW w \in Writers, FetchFails(w) PROVE UNCHANGED writer_vars
  BY <1>3 DEF FetchFails
<1>4. ASSUME NEW w \in Writers, Killed(w) PROVE Crash(w) \/ UNCHANGED writer_vars
  BY <1>4 DEF Killed
<1>5. ASSUME NEW w \in Writers, RunStep(w)
      PROVE  \/ UNCHANGED writer_vars
             \/ \E c \in Certs : Begin(w, c, KeyOf[c])
             \/ WriterStep(w)
  <2>1. CASE Check(w)
    BY <2>1, CheckBegins
  <2>2. CASE Write(w)
    BY <2>2 DEF Write
  <2>3. CASE ~Check(w) /\ ~Write(w)
    BY <1>5, <2>3
       DEF RunStep, Start, FetchCert, FetchKey, WriteFailed, SkipHook, ReachHook, HookSucceeds,
           HookFails
  <2> QED
    BY <2>1, <2>2, <2>3
<1>6. CASE Next
  BY <1>2, <1>3, <1>4, <1>5, <1>6 DEF Next, WriterNext
<1> QED
  BY <1>1, <1>6

\* The server's files are a certificate and a key.
LEMMA ServerStepTyped ==
    ASSUME Server!FilesTypeOK,
           Renew \/ PublishCert \/ PublishKey \/ UNCHANGED server_vars
    PROVE  Server!FilesTypeOK'
<1>1. KeyOf[issued] \in Keys
  BY PairWriterAssumption DEF Server!FilesTypeOK
<1> QED
  BY <1>1, ClientRunAssumption
     DEF Renew, PublishCert, PublishKey, Server!Renew, Server!PublishCert, Server!PublishKey,
         server_vars, Server!FilesTypeOK

\* A failure is counted.
LEMMA MishapTyped ==
    ASSUME TypeOK, Mishap \/ UNCHANGED mishaps
    PROVE  mishaps' \in 0 .. MaxMishaps
BY ClientRunAssumption DEF Mishap, TypeOK

\* A run's own state keeps to its sets.
LEMMA RunStepTyped ==
    ASSUME TypeOK, WritersTypeOK', NEW w \in Writers, RunStep(w) \/ FetchFails(w) \/ Killed(w)
    PROVE  /\ RunsTypeOK' /\ ServiceTypeOK'
           /\ UNCHANGED server_vars
           /\ Mishap \/ UNCHANGED mishaps
<1>0. RunsTypeOK /\ ServiceTypeOK /\ Installed \in [cert : Content(Certs), key : Content(Keys)]
  BY InstalledTyped DEF TypeOK, RunsTypeOK, ServiceTypeOK
<1>1. CASE Start(w)
  BY <1>0, <1>1 DEF Start, MovesTo, service_vars, RunsTypeOK, ServiceTypeOK, Stages
<1>2. CASE FetchCert(w) \/ FetchKey(w)
  <2>1. Server!Served.cert \in Certs /\ Server!Served.key \in Keys
    BY DEF TypeOK, Server!FilesTypeOK, Server!Served
  <2>2. got' \in [Writers -> [cert : Certs, key : Keys]]
    <3>1. CASE FetchCert(w)
      BY <1>0, <2>1, <3>1 DEF FetchCert, RunsTypeOK
    <3>2. CASE FetchKey(w)
      BY <1>0, <2>1, <3>2 DEF FetchKey, RunsTypeOK
    <3> QED
      BY <1>2, <3>1, <3>2
  <2> QED
    BY <1>0, <1>2, <2>2
       DEF FetchCert, FetchKey, MovesTo, service_vars, RunsTypeOK, ServiceTypeOK, Stages
<1>3. CASE Check(w)
  <2> DEFINE differs == DetectPairChange(got[w])
  <2>1. UNCHANGED <<server_vars, got, hook, loaded, missed, mishaps>>
    BY <1>3 DEF Check, service_vars
  <2>2. differs \in BOOLEAN
    BY DEF DetectPairChange
  <2>3. \/ /\ stage' = [stage EXCEPT ![w] = "exited"] /\ code' = [code EXCEPT ![w] = 1]
           /\ changed' = changed
        \/ /\ stage' = [stage EXCEPT ![w] = "write"] /\ code' = code
           /\ changed' = [changed EXCEPT ![w] = differs]
    BY <1>3 DEF Check, MismatchExits, DetectAndWrite, Exits, MovesTo
  <2> HIDE DEF differs
  <2>4. changed' \in [Writers -> BOOLEAN]
    BY <1>0, <2>2, <2>3 DEF RunsTypeOK
  <2>5. stage' \in [Writers -> Stages] /\ code' \in [Writers -> {0, 1, 2, 137}]
    BY <1>0, <2>3 DEF RunsTypeOK, Stages
  <2> QED
    BY <1>0, <2>1, <2>4, <2>5 DEF RunsTypeOK, ServiceTypeOK
<1>4. CASE Write(w)
  BY <1>0, <1>4 DEF Write, run_vars, service_vars, RunsTypeOK, ServiceTypeOK
<1>5. CASE WriteFailed(w)
  BY <1>0, <1>5 DEF WriteFailed, Exits, MovesTo, RunsTypeOK, ServiceTypeOK, Stages
<1>6. CASE SkipHook(w) \/ ReachHook(w)
  BY <1>0, <1>6
     DEF SkipHook, ReachHook, Exits, MovesTo, service_vars, RunsTypeOK, ServiceTypeOK, Stages
<1>7. CASE HookSucceeds(w)
  BY <1>0, <1>7 DEF HookSucceeds, Exits, MovesTo, RunsTypeOK, ServiceTypeOK, Stages
<1>8. CASE HookFails(w)
  BY <1>0, <1>8 DEF HookFails, Exits, MovesTo, RunsTypeOK, ServiceTypeOK, Stages
<1>9. CASE FetchFails(w)
  BY <1>0, <1>9
     DEF FetchFails, Exits, MovesTo, service_vars, RunsTypeOK, ServiceTypeOK, Stages
<1>10. CASE Killed(w)
  <2>1. /\ UNCHANGED <<server_vars, got, changed, hook>> /\ Mishap
        /\ stage' = [stage EXCEPT ![w] = "exited"] /\ code' = [code EXCEPT ![w] = 137]
        /\ loaded' \in {loaded, Installed}
    BY <1>10 DEF Killed, Exits, MovesTo
  <2>2. missed' \in BOOLEAN
    BY <1>10 DEF Killed
  <2> QED
    BY <1>0, <2>1, <2>2 DEF RunsTypeOK, ServiceTypeOK, Stages
<1> QED
  BY <1>1, <1>2, <1>3, <1>4, <1>5, <1>6, <1>7, <1>8, <1>9, <1>10 DEF RunStep

\* Every step keeps the invariant.
LEMMA StepInv == ASSUME IInv, [Next]_vars PROVE IInv'
<1>0. TypeOK /\ WInv /\ RunsTypeOK /\ ServiceTypeOK /\ Server!FilesTypeOK
  BY DEF IInv, TypeOK, RunsTypeOK, ServiceTypeOK
<1>1. WInv'
  BY <1>0, RunsAreWriters, WriterStepInv
<1>2. WritersTypeOK'
  BY <1>1 DEF WInv
<1>3. ASSUME NEW w \in Writers, RunStep(w) \/ FetchFails(w) \/ Killed(w)
      PROVE  TypeOK'
  <2>1. /\ RunsTypeOK' /\ ServiceTypeOK'
        /\ UNCHANGED server_vars
        /\ Mishap \/ UNCHANGED mishaps
    BY <1>0, <1>2, <1>3, RunStepTyped
  <2> QED
    BY <1>0, <1>2, <2>1, ServerStepTyped, MishapTyped DEF TypeOK, RunsTypeOK, ServiceTypeOK
<1>4. ASSUME Renew \/ PublishCert \/ PublishKey \/ UNCHANGED vars
      PROVE  TypeOK'
  <2>1. UNCHANGED <<run_vars, service_vars, mishaps>>
    BY <1>4 DEF Renew, PublishCert, PublishKey, vars
  <2>2. Server!FilesTypeOK'
    BY <1>0, <1>4, ServerStepTyped DEF vars
  <2> QED
    BY <1>0, <1>2, <2>1, <2>2 DEF TypeOK, run_vars, service_vars
<1> QED
  BY <1>1, <1>3, <1>4 DEF Next, IInv

\* The initial states.
LEMMA InitInv == Init => IInv
<1> SUFFICES ASSUME Init PROVE IInv
  OBVIOUS
<1>1. WInv
  BY InitWritersInv DEF Init
<1>2. WritersTypeOK
  BY <1>1 DEF WInv
<1>3. Server!FilesTypeOK
  BY PairWriterAssumption, ClientRunAssumption DEF Init, Server!InitFiles, Server!FilesTypeOK
<1>4. TypeOK
  <2>1. loaded \in [cert : Content(Certs), key : Content(Keys)] /\ mishaps \in 0 .. MaxMishaps
    BY <1>2, InstalledTyped, ClientRunAssumption DEF Init
  <2>2. got \in [Writers -> [cert : Certs, key : Keys]]
    BY <1>2 DEF Init, WritersTypeOK
  <2>3. /\ stage \in [Writers -> Stages] /\ changed \in [Writers -> BOOLEAN]
        /\ code \in [Writers -> {0, 1, 2, 137}]
        /\ hook \in {"none", "always", "on_change"} /\ missed \in BOOLEAN
    BY DEF Init, Stages
  <2> QED
    BY <1>2, <1>3, <2>1, <2>2, <2>3 DEF TypeOK
<1> QED
  BY <1>1, <1>4 DEF IInv

\* Every reachable state of the clients is well-formed, and one of writers.
THEOREM ClientRunInvariant == Spec => []IInv
BY InitInv, StepInv, PTL DEF Spec

\* Every variable keeps to its set.
THEOREM ClientRunTyped == Spec => []TypeOK
<1>1. IInv => TypeOK
  BY DEF IInv
<1> QED
  BY <1>1, ClientRunInvariant, PTL

\* Around the writers there are fetches that do not match, renewals, hooks and
\* restarts: to the files, clients do what writers do, and nothing else.
THEOREM RunsImplementWriters == Spec => WriterSpec
<1>1. Init => InitWriters
  BY DEF Init
<1>2. IInv /\ [Next]_vars => [WriterNext]_writer_vars
  BY RunsAreWriters DEF IInv
<1> QED
  BY <1>1, <1>2, ClientRunInvariant, PTL DEF Spec, WriterSpec

\* Whatever is fetched, and whenever, an unmatched pair has a cause.
THEOREM RunsUnmatchedOnlyForCause == Spec => []UnmatchedOnlyForCause
BY RunsImplementWriters, PairUnmatchedOnlyForCause, PTL

-----------------------------------------------------------------------------
\* A single client, and the service it serves.

\* The last write was cut short, and is on disk.
Broken == "short" \in causes /\ Truncated \in {cert_path, privkey_path}

\* Why the service may have something else than what is on disk.
Excused == loaded = Installed \/ missed \/ hook = "none" \/ (hook = "on_change" /\ Broken)

\* The run writes what it fetched, and nobody else writes; a run that found
\* nothing changed finds the service up to date, or its hook was missed.
Alone(w) ==
    /\ "overlap" \notin causes
    /\ stage[w] # "write" => ~Active(w)
    /\ stage[w] = "write" => at[w] \in Steps \cup {"done", "failed"} /\ new[w] = got[w]
    /\ stage[w] \notin {"write", "hook"} => Excused
    /\ stage[w] = "exited" /\ code[w] = 0 /\ hook = "always" => loaded = Installed
    /\ stage[w] = "write" /\ ~changed[w] /\ hook = "on_change" => loaded = got[w] \/ missed
    /\ stage[w] = "write" /\ at[w] = "done" => Installed = new[w] \/ Broken

\* The files and the service are as they were.
LEMMA DiskKept ==
    ASSUME UNCHANGED <<writer_vars, loaded, hook>>, missed => missed'
    PROVE  /\ Installed' = Installed /\ Broken' = Broken
           /\ \A w : Active(w)' = Active(w)
           /\ Excused => Excused'
<1>1. UNCHANGED <<cert_path, privkey_path, at, causes>>
  BY DEF writer_vars, files
<1>2. Installed' = Installed /\ Broken' = Broken /\ \A w : Active(w)' = Active(w)
  BY <1>1 DEF Installed, Broken, Active
<1> QED
  BY <1>2 DEF Excused

\* A step of the run up to the comparison, or one that ends it without a write.
LEMMA BeforeWriteAlone ==
    ASSUME TypeOK, NEW w \in Writers, Alone(w), stage[w] \notin {"write", "hook"},
           UNCHANGED <<writer_vars, service_vars>>,
           stage'[w] \notin {"write", "hook"},
           stage'[w] = "exited" => code'[w] # 0
    PROVE  Alone(w)'
<1>1. /\ Installed' = Installed /\ Active(w)' = Active(w) /\ (Excused => Excused')
      /\ UNCHANGED <<causes, at, loaded, hook>>
  BY DiskKept DEF service_vars, writer_vars
<1> QED
  BY <1>1 DEF Alone

\* The comparison, and the call of write_pair_atomically.
LEMMA CheckAlone ==
    ASSUME TypeOK, NEW w \in Writers, Writers = {w}, Alone(w), Check(w)
    PROVE  Alone(w)'
<1>1. stage[w] = "check" /\ UNCHANGED <<got, hook, loaded, missed>>
  BY DEF Check, AtStage, service_vars
<1>2. CASE MismatchExits(w)
  <2>1. /\ UNCHANGED <<writer_vars, service_vars>>
        /\ stage'[w] = "exited" /\ code'[w] = 1
    BY <1>2 DEF Check, MismatchExits, Exits, MovesTo, TypeOK
  <2> QED
    BY <1>1, <2>1, BeforeWriteAlone
<1>3. CASE DetectAndWrite(w)
  <2>1. /\ Begin(w, got[w].cert, got[w].key)
        /\ stage' = [stage EXCEPT ![w] = "write"]
        /\ changed' = [changed EXCEPT ![w] = DetectPairChange(got[w])]
    BY <1>3 DEF DetectAndWrite, MovesTo
  <2>2. /\ stage'[w] = "write" /\ at'[w] = "stage_cert"
        /\ new'[w] = [cert |-> got[w].cert, key |-> got[w].key]
        /\ causes' = causes
    BY <2>1 DEF Begin, Goes, TypeOK, WritersTypeOK
  <2>3. got[w] \in [cert : Certs, key : Keys]
    BY DEF TypeOK
  <2>4. new'[w] = got'[w]
    BY <1>1, <2>2, <2>3
  <2>5. changed'[w] = (got[w] # Installed)
    BY <2>1 DEF DetectPairChange, TypeOK
  <2>6. ASSUME ~changed'[w], hook = "on_change" PROVE loaded = got[w] \/ missed
    <3>1. got[w] = Installed
      BY <2>5, <2>6
    <3>2. cert_path \in Certs /\ privkey_path \in Keys
      BY <2>3, <3>1 DEF Installed
    <3>3. ~Broken
      BY <3>2, PairWriterAssumption DEF Broken
    <3> QED
      BY <1>1, <2>6, <3>1, <3>3 DEF Alone, Excused
  <2> QED
    BY <1>1, <2>2, <2>4, <2>6 DEF Alone, Steps
<1> QED
  BY <1>2, <1>3 DEF Check

\* What a step of write_pair_atomically does to the pair.
LEMMA WriterStepEffect ==
    ASSUME WInv, NEW w \in Writers, Writers = {w}, "overlap" \notin causes, WriterStep(w)
    PROVE  /\ "overlap" \notin causes' /\ new' = new
           /\ at'[w] \in Steps \cup {"done", "failed"}
           /\ at'[w] = "done" => Installed' = new[w] \/ Broken'
<1>0. WritersTypeOK /\ Staged(w) /\ InPlace(w)
  BY DEF WInv
<1>1. CASE StageCert(w) \/ StageKey(w)
  BY <1>0, <1>1 DEF StageCert, StageKey, FailsToCreate, Goes, WritersTypeOK, Steps
<1>2. CASE RenameCert(w) \/ Undo(w) \/ CleanUp(w)
  BY <1>0, <1>2 DEF RenameCert, Undo, CleanUp, Goes, WritersTypeOK, Steps
<1>3. CASE RenameKey(w)
  <2>1. /\ new' = new /\ cert_path' = cert_path
        /\ \/ /\ at'[w] = "done" /\ privkey_path' = privkey_tmp[w]
              /\ causes' = CausesAfter(w)
           \/ at'[w] = "undo" /\ causes' = causes \cup {"rename_key"}
    BY <1>0, <1>3 DEF RenameKey, Goes, WritersTypeOK
  <2>2. CausesAfter(w) \in {{"short"}, causes, {}}
    BY DEF CausesAfter
  <2>3. ASSUME at'[w] = "done" PROVE Installed' = new[w] \/ Broken'
    <3>1. privkey_path' = privkey_tmp[w] /\ causes' = CausesAfter(w)
      BY <2>1, <2>3
    <3>2. CASE Truncated \in {cert_path, privkey_tmp[w]}
      BY <2>1, <3>1, <3>2 DEF CausesAfter, Broken
    <3>3. CASE Truncated \notin {cert_path, privkey_tmp[w]}
      <4>1. cert_path = new[w].cert /\ privkey_tmp[w] = new[w].key
        BY <1>0, <1>3, <3>3 DEF Staged, RenameKey
      <4>2. new[w] \in [cert : Certs, key : Keys]
        BY <1>0 DEF WritersTypeOK
      <4>3. Installed' = new[w]
        BY <2>1, <3>1, <4>1, <4>2 DEF Installed
      <4> QED
        BY <4>3
    <3> QED
      BY <3>2, <3>3
  <2> QED
    BY <2>1, <2>2, <2>3 DEF Steps
<1> QED
  BY <1>1, <1>2, <1>3 DEF WriterStep

\* A step of the write.
LEMMA WriteAlone ==
    ASSUME IInv, NEW w \in Writers, Writers = {w}, Alone(w), Write(w)
    PROVE  Alone(w)'
<1>1. /\ stage[w] = "write" /\ WriterStep(w)
      /\ UNCHANGED <<stage, got, changed, code, hook, loaded, missed>>
  BY DEF Write, AtStage, run_vars, service_vars
<1>2. /\ "overlap" \notin causes' /\ new' = new
      /\ at'[w] \in Steps \cup {"done", "failed"}
      /\ at'[w] = "done" => Installed' = new[w] \/ Broken'
  BY <1>1, WriterStepEffect DEF IInv, Alone
<1> QED
  BY <1>1, <1>2 DEF Alone

\* The end of a run that leaves the files alone: for a reason, or with the
\* service up to date, or to be blamed on a missed hook.
LEMMA ExitAlone ==
    ASSUME TypeOK, NEW w \in Writers, Alone(w), stage'[w] = "exited",
           "overlap" \notin causes', ~Active(w)', Excused',
           code'[w] = 0 /\ hook' = "always" => (loaded = Installed)'
    PROVE  Alone(w)'
BY DEF Alone

\* The end of the write, and the hook.
LEMMA AfterWriteAlone ==
    ASSUME TypeOK, NEW w \in Writers, Alone(w),
           WriteFailed(w) \/ SkipHook(w) \/ ReachHook(w) \/ HookSucceeds(w) \/ HookFails(w)
    PROVE  Alone(w)'
<1>1. CASE WriteFailed(w)
  <2>1. /\ UNCHANGED <<writer_vars, hook, loaded>> /\ missed' = (missed \/ loaded # Installed)
        /\ at[w] = "failed" /\ stage'[w] = "exited" /\ code'[w] = 1
    BY <1>1 DEF WriteFailed, Exits, MovesTo, TypeOK
  <2>2. Installed' = Installed /\ UNCHANGED <<at, causes>>
    BY <2>1, DiskKept DEF writer_vars
  <2>3. Excused' /\ ~Active(w)'
    BY <2>1, <2>2 DEF Excused, Active, Steps
  <2> QED
    BY <2>1, <2>2, <2>3, ExitAlone DEF Alone
<1>2. CASE SkipHook(w)
  <2>1. /\ UNCHANGED <<writer_vars, hook, loaded, missed>>
        /\ stage[w] = "write" /\ at[w] = "done" /\ stage'[w] = "exited"
        /\ hook = "none" \/ (hook = "on_change" /\ ~changed[w])
    BY <1>2 DEF SkipHook, AtStage, Exits, MovesTo, TypeOK, service_vars
  <2>2. Installed' = Installed /\ Broken' = Broken /\ UNCHANGED <<at, causes>>
    BY <2>1, DiskKept DEF writer_vars
  <2>3. Excused'
    BY <2>1, <2>2 DEF Alone, Excused
  <2>4. ~Active(w)' /\ "overlap" \notin causes'
    BY <2>1, <2>2 DEF Active, Steps, Alone
  <2> QED
    BY <2>1, <2>3, <2>4, ExitAlone
<1>3. CASE ReachHook(w)
  <2>1. /\ UNCHANGED <<at, causes>> /\ at[w] = "done" /\ stage'[w] = "hook"
    BY <1>3 DEF ReachHook, MovesTo, TypeOK, writer_vars
  <2> QED
    BY <2>1 DEF Alone, Active, Steps
<1>4. CASE HookSucceeds(w)
  <2>1. /\ UNCHANGED writer_vars /\ loaded' = Installed /\ stage[w] = "hook"
        /\ stage'[w] = "exited"
    BY <1>4 DEF HookSucceeds, AtStage, Exits, MovesTo, TypeOK
  <2>2. UNCHANGED <<cert_path, privkey_path, at, causes>>
    BY <2>1 DEF writer_vars, files
  <2>3. (loaded = Installed)'
    BY <2>1, <2>2 DEF Installed
  <2>4. Excused' /\ ~Active(w)' /\ "overlap" \notin causes'
    BY <2>1, <2>2, <2>3 DEF Excused, Active, Alone
  <2> QED
    BY <2>1, <2>3, <2>4, ExitAlone
<1>5. CASE HookFails(w)
  <2>1. /\ UNCHANGED <<at, causes>> /\ missed' = TRUE /\ stage[w] = "hook"
        /\ stage'[w] = "exited" /\ code'[w] = 2
    BY <1>5 DEF HookFails, AtStage, Exits, MovesTo, TypeOK, writer_vars
  <2>2. Excused' /\ ~Active(w)' /\ "overlap" \notin causes'
    BY <2>1 DEF Excused, Active, Alone
  <2> QED
    BY <2>1, <2>2, ExitAlone
<1> QED
  BY <1>1, <1>2, <1>3, <1>4, <1>5

\* The process is killed, before or after the hook has done its work.
LEMMA KilledAlone ==
    ASSUME TypeOK, NEW w \in Writers, Alone(w), Killed(w)
    PROVE  Alone(w)'
<1>1. stage'[w] = "exited" /\ code'[w] = 137
  BY DEF Killed, Exits, MovesTo, TypeOK
<1>2. /\ UNCHANGED <<cert_path, privkey_path>>
      /\ "overlap" \notin causes' /\ ~Active(w)'
  <2>1. CASE Active(w)
    <3>1. Crash(w)
      BY <2>1 DEF Killed
    <3>2. /\ at' = [at EXCEPT ![w] = "crashed"] /\ UNCHANGED files
          /\ causes' \in {causes, causes \cup {"crash"}}
      BY <3>1 DEF Crash, Goes
    <3>3. at'[w] = "crashed"
      BY <3>2 DEF TypeOK, WritersTypeOK
    <3> QED
      BY <3>2, <3>3 DEF Alone, Active, Steps, files
  <2>2. CASE ~Active(w)
    BY <2>2 DEF Killed, writer_vars, files, Alone, Active
  <2> QED
    BY <2>1, <2>2
<1>3. Installed' = Installed
  BY <1>2 DEF Installed
<1>4. Excused'
  <2>1. CASE UNCHANGED loaded /\ missed' = (missed \/ loaded # Installed)
    BY <1>3, <2>1 DEF Excused
  <2>2. CASE loaded' = Installed
    BY <1>3, <2>2 DEF Excused
  <2> QED
    BY <2>1, <2>2 DEF Killed
<1> QED
  BY <1>1, <1>2, <1>4, ExitAlone

\* Every step of a single client keeps what is known of it.
LEMMA StepAlone ==
    ASSUME IInv, NEW w \in Writers, Writers = {w}, Alone(w), [Next]_vars
    PROVE  Alone(w)'
<1>0. TypeOK
  BY DEF IInv
<1>1. CASE Renew \/ PublishCert \/ PublishKey \/ UNCHANGED vars
  <2>1. UNCHANGED <<writer_vars, stage, got, changed, code, hook, loaded, missed>>
    BY <1>1 DEF Renew, PublishCert, PublishKey, vars, run_vars, service_vars
  <2>2. UNCHANGED <<cert_path, privkey_path, at, new, causes>>
    BY <2>1 DEF writer_vars, files
  <2>3. /\ Installed' = Installed /\ Broken' = Broken /\ Active(w)' = Active(w)
        /\ Excused => Excused'
    BY <2>1, DiskKept
  <2> QED
    BY <2>1, <2>2, <2>3 DEF Alone
<1>2. CASE Start(w) \/ FetchCert(w) \/ FetchKey(w) \/ FetchFails(w)
  <2>1. /\ UNCHANGED <<writer_vars, service_vars>>
        /\ stage[w] \notin {"write", "hook"} /\ stage'[w] \notin {"write", "hook"}
        /\ stage'[w] = "exited" => code'[w] # 0
    BY <1>0, <1>2
       DEF Start, FetchCert, FetchKey, FetchFails, AtStage, Exits, MovesTo, TypeOK
  <2> QED
    BY <1>0, <2>1, BeforeWriteAlone
<1>3. CASE Check(w)
  BY <1>0, <1>3, CheckAlone
<1>4. CASE Write(w)
  BY <1>4, WriteAlone
<1>5. CASE WriteFailed(w) \/ SkipHook(w) \/ ReachHook(w) \/ HookSucceeds(w) \/ HookFails(w)
  BY <1>0, <1>5, AfterWriteAlone
<1>6. CASE Killed(w)
  BY <1>0, <1>6, KilledAlone
<1> QED
  BY <1>1, <1>2, <1>3, <1>4, <1>5, <1>6 DEF Next, RunStep

\* At first the service has what is on disk.
LEMMA InitAlone == ASSUME Init, NEW w \in Writers PROVE Alone(w)
BY DEF Init, InitWriters, Alone, Active, Steps, Excused

\* Of one client, run again and again: exit status 0 means that the service has
\* loaded the pair on disk, or that no hook is configured, or that with
\* --hook-on-change an earlier hook was missed or the write was cut short.
THEOREM ReloadedUnlessMissed ==
    ASSUME NEW w, Writers = {w}
    PROVE  Spec => []StaleOnlyAfterMissedHook
<1>0. w \in Writers
  OBVIOUS
<1>1. Init => Alone(w)
  BY <1>0, InitAlone
<1>2. IInv /\ Alone(w) /\ [Next]_vars => Alone(w)'
  BY <1>0, StepAlone
<1>3. IInv /\ Alone(w) => StaleOnlyAfterMissedHook
  <2> SUFFICES ASSUME IInv, Alone(w), EndedWell(w), loaded # Installed
               PROVE  hook = "none" \/ (hook = "on_change" /\ (missed \/ "short" \in causes))
    BY DEF StaleOnlyAfterMissedHook
  <2>1. stage[w] = "exited" /\ code[w] = 0 /\ hook \in {"none", "always", "on_change"}
    BY DEF EndedWell, AtStage, IInv, TypeOK
  <2> QED
    BY <2>1 DEF Alone, Excused, Broken
<1> QED
  BY <1>1, <1>2, <1>3, ClientRunInvariant, PTL DEF Spec
=============================================================================
