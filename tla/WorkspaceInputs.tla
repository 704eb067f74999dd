--------------------------- MODULE WorkspaceInputs ----------------------------
(***************************************************************************)
(* What a workspace keeps on disk for its runs: the versions of uploaded   *)
(* datasets (web/uploads.py) and the slot of its trusted strategy package  *)
(* (web/local_packages.py).  Both are sets of files that several threads   *)
(* and processes write and read one file at a time.                        *)
(***************************************************************************)
EXTENDS Integers, Sequences, FiniteSets, FiniteSetsExt

(***************************************************************************)
(* The store of uploaded dataset versions (web/uploads.py).  The threads   *)
(* of one owner process publish under one lock; a version is a raw source, *)
(* a capture and a manifest in three directories, written one after the    *)
(* other, and it exists once its manifest has been renamed into place.     *)
(* Any write may fail, the owner may die between any two of them, and      *)
(* other processes read the store meanwhile without a lock.                *)
(***************************************************************************)

CONSTANTS
  UploadRequests,  \* what may be published: its kind, bytes and declarations, the
                   \* bytes its capture claims to be made of, whether it decodes,
                   \* and the sizes of its two files
  Threads,         \* publishing threads of the owner
  UploadReaders,   \* loads, in this or in another process
  MaxIds,          \* bound: host-generated names
  MaxVersions,     \* MAX_PUBLISHED_VERSIONS
  MaxBytes,        \* MAX_STORED_BYTES
  MaxSweep,        \* MAX_SWEEP_ENTRIES
  UploadMaxFaults  \* bound: crashes, failed writes and files that go bad

UploadKinds == {"strict", "simulated", "mapped", "provider", "offline"}

ASSUME UploadAssumption ==
  /\ \A q \in UploadRequests :
       /\ q.kind \in UploadKinds /\ q.rawSize \in Nat \ {0} /\ q.capSize \in Nat \ {0}
       \* Only an adapter's capture arrives from outside: the host makes the others.
       /\ q.kind \notin {"provider", "offline"} => q.claims = q.bytes
  /\ MaxIds \in Nat /\ MaxVersions \in Nat \ {0} /\ MaxBytes \in Nat
  /\ MaxSweep \in Nat /\ UploadMaxFaults \in Nat

Ids == 1..MaxIds
NoFile == [there |-> FALSE, bytes |-> "none", by |-> "none", size |-> 0]
File(bytes, by, size) == [there |-> TRUE, bytes |-> bytes, by |-> by, size |-> size]
NoManifest == [there |-> FALSE, kind |-> "strict", decl |-> "none", raw |-> NoFile,
               capture |-> NoFile, intact |-> FALSE]
NoRequest == [kind |-> "strict", bytes |-> "none", claims |-> "none", decl |-> "none",
              ok |-> FALSE, rawSize |-> 1, capSize |-> 1]
UploadRest == [pc |-> "idle", id |-> 0, q |-> NoRequest]
NoLoad == [pc |-> "idle", id |-> 0, manifest |-> NoManifest, capture |-> NoFile]

VARIABLES
  uploadUp,     \* the owner process runs
  raw,          \* raw/: the retained sources
  captures,     \* captures/: the strict captures
  versions,     \* versions/: the manifests
  used,         \* the names generated so far
  pub,          \* the publishing threads
  load,         \* the readers
  uploadShown,  \* the preview identities callers hold
  issued,       \* ghost: the request each name was generated for
  returned,     \* ghost: the versions a caller was given
  accepted,     \* ghost: what readers took for a version's capture
  uploadFaults  \* faults so far

uploadVars == <<uploadUp, raw, captures, versions, used, pub, load, uploadShown, issued,
                returned, accepted, uploadFaults>>

UploadInit ==
  /\ uploadUp = TRUE /\ used = {} /\ uploadShown = {} /\ returned = {} /\ accepted = {}
  /\ raw = [i \in Ids |-> NoFile] /\ captures = [i \in Ids |-> NoFile]
  /\ versions = [i \in Ids |-> NoManifest]
  /\ pub = [t \in Threads |-> UploadRest] /\ load = [r \in UploadReaders |-> NoLoad]
  /\ issued = [i \in Ids |-> NoRequest] /\ uploadFaults = 0

-----------------------------------------------------------------------------
(* What is written and how it is read back. *)

\* The raw source: what arrived, or the response envelope around it.
RawOf(q) == File(q.bytes, IF q.kind \in {"provider", "offline"} THEN "envelope" ELSE "none",
                 q.rawSize)

\* What a kind's normalizer makes of the raw bytes; a strict upload is its own
\* capture, and no other kind's is.
UploadNormalized(kind, decl, bytes) ==
  [bytes |-> bytes, by |-> IF kind = "strict" THEN "none" ELSE decl]

CaptureOf(q) ==
  LET n == UploadNormalized(q.kind, q.decl, q.claims) IN File(n.bytes, n.by, q.capSize)

\* The identity of a preview binds the bytes and every declaration.
Identity(q) == <<q.kind, q.bytes, q.decl>>

ManifestOf(q) ==
  [there |-> TRUE, kind |-> q.kind, decl |-> q.decl, raw |-> RawOf(q),
   capture |-> CaptureOf(q), intact |-> TRUE]

\* The kinds whose capture a read derives again from the raw source.
Rederived == {"mapped", "provider", "offline"}

CaptureMatches(m, c) == c.there /\ c = m.capture

RawMatches(m, r) ==
  /\ r.there /\ r = m.raw
  /\ m.kind \in Rederived =>
       UploadNormalized(m.kind, m.decl, r.bytes) = [bytes |-> m.capture.bytes, by |-> m.capture.by]

Loads(i) ==
  /\ versions[i].there /\ versions[i].intact
  /\ CaptureMatches(versions[i], captures[i]) /\ RawMatches(versions[i], raw[i])

Versions == {i \in Ids : versions[i].there}

StoredBytes ==
  MapThenSumSet(LAMBDA i : raw[i].size, Ids) + MapThenSumSet(LAMBDA i : captures[i].size, Ids)

-----------------------------------------------------------------------------
(* Publication, under the owner's lock. *)

\* The owner's lock is held for a whole publication.
Locked == \E t \in Threads : pub[t].pc # "idle"

\* A preview changes nothing and gives its caller the identity it verified.
UploadPreview(q) ==
  /\ uploadUp /\ q.kind = "offline" /\ q.ok
  /\ uploadShown' = uploadShown \cup {Identity(q)} /\ uploadShown' # uploadShown
  /\ UNCHANGED <<uploadUp, raw, captures, versions, used, pub, load, issued, returned,
                 accepted, uploadFaults>>

\* The versions an offline identity is answered with: those that still load.
Replays(q) ==
  {i \in Versions : /\ versions[i].kind = "offline" /\ Loads(i)
                    /\ <<"offline", versions[i].raw.bytes, versions[i].decl>> = Identity(q)}

WithinQuota(q) ==
  /\ Cardinality(Versions) < MaxVersions
  /\ StoredBytes + q.rawSize + q.capSize <= MaxBytes

\* A repeated publication of one preview returns the version it has.
Replay(q) == q.kind = "offline" /\ Replays(q) # {}

\* An offline publication presents the identity of its own preview.
UploadPresented(q) == q.kind = "offline" => Identity(q) \in uploadShown

\* The bytes and declarations are bounded and decode to one instrument's bars.
Decodes(q) == q.ok

\* A capture that comes from an adapter is what its own response reproduces.
Reproduces(q) ==
  q.kind \in {"provider", "offline"} =>
    UploadNormalized(q.kind, q.decl, q.bytes) = UploadNormalized(q.kind, q.decl, q.claims)

\* The request is checked, decoded and measured, and a name is generated.  A
\* request that is refused, or answered with an earlier version, changes no
\* file.
BeginPublish(t, q) ==
  /\ uploadUp /\ ~Locked
  /\ Decodes(q) /\ UploadPresented(q)
  /\ \/ /\ Replay(q)
        /\ \E i \in Replays(q) : returned' = returned \cup {i}
        /\ UNCHANGED <<pub, used, issued>>
     \/ /\ ~Replay(q) /\ Reproduces(q) /\ WithinQuota(q)
        /\ \E i \in Ids \ used :
             /\ used' = used \cup {i}
             /\ pub' = [pub EXCEPT ![t] = [pc |-> "raw", id |-> i, q |-> q]]
             /\ issued' = [issued EXCEPT ![i] = q]
        /\ UNCHANGED returned
  /\ UNCHANGED <<uploadUp, raw, captures, versions, load, uploadShown, accepted, uploadFaults>>

UploadStep(t, from, to) ==
  /\ uploadUp /\ pub[t].pc = from
  /\ pub' = [pub EXCEPT ![t].pc = to]

\* Mutant of WriteRaw: the version is named before its files are written.
WriteVersionFirst(t) ==
  /\ UploadStep(t, "raw", "capture")
  /\ raw' = [raw EXCEPT ![pub[t].id] = RawOf(pub[t].q)]
  /\ versions' = [versions EXCEPT ![pub[t].id] = ManifestOf(pub[t].q)]
  /\ UNCHANGED <<uploadUp, captures, used, load, uploadShown, issued, returned, accepted, uploadFaults>>

WriteRaw(t) ==
  /\ UploadStep(t, "raw", "capture")
  /\ raw' = [raw EXCEPT ![pub[t].id] = RawOf(pub[t].q)]
  /\ UNCHANGED <<uploadUp, captures, versions, used, load, uploadShown, issued, returned, accepted, uploadFaults>>

\* The capture is a file of its own, or a link to the raw source.
WriteCapture(t) ==
  /\ UploadStep(t, "capture", "manifest")
  /\ captures' = [captures EXCEPT ![pub[t].id] = CaptureOf(pub[t].q)]
  /\ UNCHANGED <<uploadUp, raw, versions, used, load, uploadShown, issued, returned, accepted, uploadFaults>>

\* The manifest is written aside and renamed into place.
WriteManifest(t) ==
  /\ UploadStep(t, "manifest", "sync")
  /\ versions' = [versions EXCEPT ![pub[t].id] = ManifestOf(pub[t].q)]
  /\ UNCHANGED <<uploadUp, raw, captures, used, load, uploadShown, issued, returned, accepted, uploadFaults>>

\* The directory is synced and the version is the caller's.
Return(t) ==
  /\ uploadUp /\ pub[t].pc = "sync"
  /\ returned' = returned \cup {pub[t].id}
  /\ pub' = [pub EXCEPT ![t] = UploadRest]
  /\ UNCHANGED <<uploadUp, raw, captures, versions, used, load, uploadShown, issued, accepted, uploadFaults>>

\* One of the writes, the rename or the sync fails.
WriteFails(t) ==
  /\ uploadUp /\ uploadFaults < UploadMaxFaults
  /\ pub[t].pc \in {"raw", "capture", "manifest", "sync"}
  /\ pub' = [pub EXCEPT ![t].pc = "drop_manifest"]
  /\ uploadFaults' = uploadFaults + 1
  /\ UNCHANGED <<uploadUp, raw, captures, versions, used, load, uploadShown, issued, returned, accepted>>

\* The failed version is taken back: its manifest, its capture, its source.
DropManifest(t) ==
  /\ UploadStep(t, "drop_manifest", "drop_capture")
  /\ versions' = [versions EXCEPT ![pub[t].id] = NoManifest]
  /\ UNCHANGED <<uploadUp, raw, captures, used, load, uploadShown, issued, returned, accepted, uploadFaults>>

DropCapture(t) ==
  /\ UploadStep(t, "drop_capture", "drop_raw")
  /\ captures' = [captures EXCEPT ![pub[t].id] = NoFile]
  /\ UNCHANGED <<uploadUp, raw, versions, used, load, uploadShown, issued, returned, accepted, uploadFaults>>

DropRaw(t) ==
  /\ uploadUp /\ pub[t].pc = "drop_raw"
  /\ raw' = [raw EXCEPT ![pub[t].id] = NoFile]
  /\ pub' = [pub EXCEPT ![t] = UploadRest]
  /\ UNCHANGED <<uploadUp, captures, versions, used, load, uploadShown, issued, returned, accepted, uploadFaults>>

-----------------------------------------------------------------------------
(* The owner's life, and files that go bad. *)

UploadCrash ==
  /\ uploadUp /\ uploadFaults < UploadMaxFaults
  /\ uploadUp' = FALSE /\ pub' = [t \in Threads |-> UploadRest] /\ uploadFaults' = uploadFaults + 1
  /\ UNCHANGED <<raw, captures, versions, used, load, uploadShown, issued, returned, accepted>>

\* The first names of a directory, as many as a sweep examines.
Examined(dir) ==
  LET names == {i \in Ids : dir[i].there}
  IN  {i \in names : Cardinality({j \in names : j < i}) < MaxSweep}

Swept(dir) ==
  [i \in Ids |-> IF i \in Examined(dir) \ Versions THEN NoFile ELSE dir[i]]

\* The owner starts and sweeps what an earlier one left unpublished.
Restart ==
  /\ ~uploadUp /\ uploadUp' = TRUE
  /\ raw' = Swept(raw) /\ captures' = Swept(captures)
  /\ UNCHANGED <<versions, used, pub, load, uploadShown, issued, returned, accepted, uploadFaults>>

\* A stored file is changed by somebody else.  A strict capture is a link to
\* its raw source, and both change together.
Bad(file) == [file EXCEPT !.bytes = "bad"]
GoesBad(i) ==
  /\ uploadFaults < UploadMaxFaults /\ versions[i].there
  /\ \/ /\ raw[i].there
        /\ raw' = [raw EXCEPT ![i] = Bad(@)]
        /\ captures' = IF versions[i].kind = "strict"
                       THEN [captures EXCEPT ![i] = Bad(@)] ELSE captures
        /\ UNCHANGED versions
     \/ /\ captures[i].there /\ versions[i].kind # "strict"
        /\ captures' = [captures EXCEPT ![i] = Bad(@)]
        /\ UNCHANGED <<raw, versions>>
     \/ /\ versions' = [versions EXCEPT ![i].intact = FALSE]
        /\ UNCHANGED <<raw, captures>>
  /\ uploadFaults' = uploadFaults + 1
  /\ UNCHANGED <<uploadUp, used, pub, load, uploadShown, issued, returned, accepted>>

-----------------------------------------------------------------------------
(* A load: the manifest, then the capture, then the raw source. *)

BeginLoad(r, i) ==
  /\ load[r].pc = "idle" /\ versions[i].there /\ versions[i].intact
  /\ load' = [load EXCEPT ![r] = [pc |-> "capture", id |-> i,
                                  manifest |-> versions[i], capture |-> NoFile]]
  /\ UNCHANGED <<uploadUp, raw, captures, versions, used, pub, uploadShown, issued, returned,
                 accepted, uploadFaults>>

LoadCapture(r) ==
  /\ load[r].pc = "capture"
  /\ load' = [load EXCEPT ![r] =
                IF CaptureMatches(load[r].manifest, captures[load[r].id])
                THEN [load[r] EXCEPT !.pc = "raw", !.capture = captures[load[r].id]]
                ELSE NoLoad]
  /\ UNCHANGED <<uploadUp, raw, captures, versions, used, pub, uploadShown, issued, returned,
                 accepted, uploadFaults>>

LoadRaw(r) ==
  /\ load[r].pc = "raw"
  /\ load' = [load EXCEPT ![r] = NoLoad]
  /\ accepted' = IF RawMatches(load[r].manifest, raw[load[r].id])
                 THEN accepted \cup {[id |-> load[r].id, capture |-> load[r].capture]}
                 ELSE accepted
  /\ UNCHANGED <<uploadUp, raw, captures, versions, used, pub, uploadShown, issued, returned, uploadFaults>>

UploadNext ==
  \/ \E q \in UploadRequests : UploadPreview(q) \/ \E t \in Threads : BeginPublish(t, q)
  \/ \E t \in Threads : \/ WriteRaw(t) \/ WriteCapture(t) \/ WriteManifest(t) \/ Return(t)
                        \/ WriteFails(t)
                        \/ DropManifest(t) \/ DropCapture(t) \/ DropRaw(t)
  \/ UploadCrash \/ Restart \/ \E i \in Ids : GoesBad(i)
  \/ \E r \in UploadReaders : (\E i \in Ids : BeginLoad(r, i)) \/ LoadCapture(r) \/ LoadRaw(r)

UploadSpec == UploadInit /\ [][UploadNext]_uploadVars

-----------------------------------------------------------------------------
(* Properties. *)

\* Every name is used once, and every file stands under a name that was
\* generated for it.
UploadTypeOK ==
  /\ uploadUp \in BOOLEAN /\ uploadFaults \in 0..UploadMaxFaults
  /\ returned \subseteq used
  /\ \A i \in Ids : raw[i].there \/ captures[i].there \/ versions[i].there => i \in used
  /\ Cardinality({t \in Threads : pub[t].pc # "idle"}) <= 1

Touched(i) ==
  \/ ~versions[i].intact
  \/ "bad" \in {raw[i].bytes, captures[i].bytes}

\* A version that can be seen is whole: whatever write failed and wherever the
\* owner died, a manifest stands beside the source and the capture it names.
PublishedIsWhole == \A i \in Versions : Touched(i) \/ Loads(i)

\* A version a caller was given can be loaded for good: no later failure,
\* restart or sweep takes it away (_sweep_orphans and the clean-up of publish).
ReturnedIsRetained == \A i \in returned : versions[i].there /\ (Touched(i) \/ Loads(i))

\* One preview identity is one version: a repeated publication, also one that
\* waited for the lock, is answered with the version that has it
\* (_published_offline_identity); only one that no longer loads is replaced.
OneVersionPerIdentity ==
  \A i, j \in {k \in Versions : versions[k].kind = "offline" /\ Loads(k)} :
    versions[i].raw = versions[j].raw /\ versions[i].decl = versions[j].decl => i = j

\* The store stays within its limits, captures and what a dead owner left
\* behind included.
QuotaHolds == Cardinality(Versions) <= MaxVersions /\ StoredBytes <= MaxBytes

\* What a load accepts is the capture that was published under the name, also
\* when files change between its three reads.
LoadedIsPublished == \A a \in accepted : a.capture = CaptureOf(issued[a.id])

\* Only bytes and declarations that the host previewed are published as a
\* pasted response.
PublishedWasPreviewed ==
  \A i \in Versions : versions[i].kind = "offline" => Identity(issued[i]) \in uploadShown

\* Once the owner has started, what an earlier one left behind is gone, as long
\* as a sweep sees the whole directory (_sweep_orphans).
StartIsClean ==
  [][Restart /\ MaxSweep >= MaxIds =>
       \A i \in Ids : raw'[i].there \/ captures'[i].there => versions'[i].there]_uploadVars

\* Every publication ends and frees the lock.
PublicationEnds == \A t \in Threads : (pub[t].pc # "idle") ~> (pub[t].pc = "idle")

\* The upload store: a published version is whole, was previewed and is the
\* only one of its identity, a returned one is retained, what is loaded was
\* published, and the quota holds.
UploadSafe ==
    /\ UploadTypeOK /\ PublishedIsWhole /\ ReturnedIsRetained /\ OneVersionPerIdentity
    /\ LoadedIsPublished /\ PublishedWasPreviewed /\ QuotaHolds

-----------------------------------------------------------------------------
(***************************************************************************)
(* The single trusted-package slot of a workspace                          *)
(* (web/local_packages.LocalStrategyStoreV1, the checks of                 *)
(* plugin/local_strategy.py, and the calls of web/service.py into them).   *)
(* A slot is five files, each replaced atomically, none of them under a    *)
(* lock: the registration handler runs on the event loop, revocations and  *)
(* reads run on server threads and in worker processes, and every file is  *)
(* read and written in a step of its own.                                  *)
(*                                                                         *)
(* A package stands for its bytes, its identity and the manifest that      *)
(* names them (a digest is equal exactly when the bytes are).  A death     *)
(* stands for a crash and for a write that fails, which leave the same     *)
(* files.                                                                  *)
(***************************************************************************)

CONSTANTS
    Deciders,        \* requests that register or revoke, in flight at one time
    PackageReaders,  \* requests that ask, in flight at one time
    Asks,            \* what they ask: "status", "binding", "catalog", "load"
    Packages,        \* the packages an operator may capture
    Bases,           \* the registered scenarios a registration borrows from
    MaxRegisters,    \* bound: registrations
    MaxRevokes,      \* bound: revocations
    MaxSwaps,        \* bound: 1 when the slot may be replaced, else 0
    MaxDeaths        \* bound: calls that die

PackageAbsent == "absent"

ASSUME LocalPackagesAssumption ==
    /\ {MaxRegisters, MaxRevokes, MaxSwaps, MaxDeaths} \subseteq Nat
    /\ Asks \subseteq {"status", "binding", "catalog", "load"} /\ PackageAbsent \notin Packages

VARIABLES
    packageDisk,  \* the five files of the slot
    reachable,    \* the names still reach the directory the store opened
    packageCall,  \* the call each caller is in
    barred,       \* a revocation was answered and no registration began since
    registers, revokes, deaths

packageVars == <<packageDisk, reachable, packageCall, barred, registers, revokes, deaths>>

Callers == Deciders \cup PackageReaders
NoMeta == [pkg |-> PackageAbsent, base |-> PackageAbsent, revoked |-> FALSE]
NoGrant == [pkg |-> PackageAbsent, trusted |-> FALSE]
Empty == [package |-> PackageAbsent, manifest |-> PackageAbsent, scenario |-> <<PackageAbsent, PackageAbsent>>,
          grant |-> NoGrant, meta |-> NoMeta]

-----------------------------------------------------------------------------
(* A call and the files it reads, in order.                                *)

Writers == {"register", "revoke"}
Capability == <<"meta", "grant", "meta", "manifest", "package">>
Binding == Capability \o <<"grant">>
Catalog == Binding \o <<"meta", "manifest", "package">>

Reads == [status |-> <<"meta", "grant">> \o Capability, binding |-> Binding,
          catalog |-> Catalog, load |-> <<"meta">> \o Catalog \o <<"scenario">>,
          register |-> <<"meta", "grant">> \o Capability, revoke |-> <<"meta", "grant">>]

(* ans is the package a call found trusted; granted holds the packages     *)
(* that had a trusted grant at some moment of the call, alone is whether   *)
(* no other decision was under way, shut whether trust was withdrawn       *)
(* before the call began.                                                  *)
PackageRest(ans) == [kind |-> "rest", stage |-> "rest", at |-> 1, got |-> <<>>, pkg |-> PackageAbsent,
                     base |-> PackageAbsent, frozen |-> FALSE, ans |-> ans, was |-> "rest",
                     granted |-> {}, alone |-> FALSE, shut |-> FALSE]

Deciding(c) == packageCall[c].kind \in Writers
Granted == IF packageDisk.grant.trusted THEN {packageDisk.grant.pkg} ELSE {}

Call(kind, stage, pkg, base, frozen) ==
    [kind |-> kind, stage |-> stage, at |-> 1, got |-> <<>>, pkg |-> pkg, base |-> base,
     frozen |-> frozen, ans |-> PackageAbsent, was |-> kind,
     granted |-> IF kind \in Writers THEN {} ELSE Granted,
     alone |-> kind = "register" /\ ~\E d \in Callers : Deciding(d),
     shut |-> barred /\ kind \notin Writers]

(* A decision that begins disturbs the ones under way. *)
Disturbed(c, new) == [d \in Callers |->
    IF d = c THEN new
    ELSE [packageCall[d] EXCEPT !.alone = FALSE, !.shut = @ /\ new.kind # "register"]]

PackageEnd(c, ans) ==
           [packageCall EXCEPT ![c] =
               IF packageCall[c].kind = "revoke" THEN PackageRest(PackageAbsent)
               ELSE [PackageRest(ans) EXCEPT !.was = packageCall[c].kind, !.pkg = packageCall[c].pkg,
                                             !.granted = packageCall[c].granted,
                                             !.alone = packageCall[c].alone, !.shut = packageCall[c].shut]]

(* register: nothing is written unless the caller's expected identity is   *)
(* the one that was captured.  One handler of the event loop at a time.    *)
Register(c, captured, expected, base) ==
    /\ packageCall[c].kind = "rest" /\ ~\E d \in Callers : packageCall[d].kind = "register"
    /\ registers < MaxRegisters
    /\ IF captured = expected
       THEN /\ packageCall' = Disturbed(c, Call("register", "write", captured, base, FALSE))
            /\ barred' = FALSE /\ registers' = registers + 1
       ELSE UNCHANGED <<packageCall, barred, registers>>
    /\ UNCHANGED <<packageDisk, reachable, revokes, deaths>>

Revoke(c) ==
    /\ packageCall[c].kind = "rest"
    /\ revokes < MaxRevokes
    /\ revokes' = revokes + 1
    /\ packageCall' = Disturbed(c, Call("revoke", "read", PackageAbsent, PackageAbsent, FALSE))
    /\ UNCHANGED <<packageDisk, reachable, barred, registers, deaths>>

(* status, binding and its comparison, catalog with or without a frozen    *)
(* binding and payload, and _load_scenario.                                *)
PackageAsk(c, kind, want, frozen) ==
           /\ packageCall[c].kind = "rest"
           /\ kind \in {"status", "load"} => want = PackageAbsent
           /\ frozen => kind = "catalog" /\ want # PackageAbsent
           /\ packageCall' = [packageCall EXCEPT ![c] = Call(kind, "read", want, PackageAbsent, frozen)]
           /\ UNCHANGED <<packageDisk, reachable, barred, registers, revokes, deaths>>

-----------------------------------------------------------------------------
(* Reading.                                                                *)

IsAbsent(file, v) == CASE file \in {"meta", "grant"} -> v.pkg = PackageAbsent
                       [] file = "scenario" -> v[1] = PackageAbsent
                       [] OTHER -> v = PackageAbsent

First(k) == CASE k.kind \in {"status", "register"} -> 2 [] k.kind = "load" -> 1 [] OTHER -> 0

(* The first metadata and every grant must carry the trust. *)
Trusts(k, file, v) ==
    \/ k.kind = "revoke"
    \/ /\ file = "grant" => v.trusted
       /\ file = "meta" /\ Len(k.got) <= First(k) => ~v.revoked

(* capability: inspect_local_strategy of what was read, under the grant    *)
(* that was read, against the identity the metadata records.               *)
CapabilityOk(k) ==
    LET v(i) == k.got[First(k) + i]
    IN  v(2).pkg = v(4) /\ v(4) = v(5) /\ v(1).pkg = v(5)

(* select_local_strategy and the comparison with a frozen binding. *)
SelectOk(k) ==
    LET v(i) == k.got[First(k) + i]
    IN  v(6).pkg = v(4) /\ k.pkg \in {PackageAbsent, v(4)}

(* activate_local_strategy of the frozen or the retained bytes. *)
ActivateOk(k) ==
    LET v(i) == k.got[First(k) + i]
    IN  (IF k.frozen THEN k.pkg ELSE v(9)) = v(6).pkg

Verdict(k) ==
    /\ CapabilityOk(k)
    /\ k.kind \in {"binding", "catalog", "load"} => SelectOk(k)
    /\ k.kind \in {"catalog", "load"} => ActivateOk(k)
    /\ k.kind = "load" => k.got[11][1] = k.got[7].pkg

(* What the call hands out. *)
Handed(k) == CASE k.kind = "catalog" -> IF k.frozen THEN k.pkg ELSE k.got[9]
               [] k.kind = "load" -> k.got[10]
               [] OTHER -> k.got[First(k) + 5]

Reading(c) == packageCall[c].stage = "read"

(* _read, under _anchor. *)
Read(c) ==
    /\ Reading(c)
    /\ LET k == packageCall[c]
           file == Reads[k.kind][k.at]
           v == packageDisk[file]
           whole == Append(k.got, v)
           all == [k EXCEPT !.got = whole]
       IN  IF ~reachable \/ IsAbsent(file, v) \/ ~Trusts(k, file, v)
           THEN packageCall' = PackageEnd(c, PackageAbsent)
           ELSE IF k.at < Len(Reads[k.kind])
           THEN packageCall' = [packageCall EXCEPT ![c].got = whole, ![c].at = @ + 1]
           ELSE IF k.kind = "revoke"
           THEN packageCall' = [packageCall EXCEPT ![c] = [all EXCEPT !.stage = "write", !.at = 1]]
           ELSE packageCall' = PackageEnd(c, IF Verdict(all) THEN Handed(all) ELSE PackageAbsent)
    /\ UNCHANGED <<packageDisk, reachable, barred, registers, revokes, deaths>>

-----------------------------------------------------------------------------
(* Writing.                                                                *)

(* The files a registration replaces, in order; one value each. *)
RegisterWrites(k) ==
    << [Empty EXCEPT !.package = k.pkg], [Empty EXCEPT !.manifest = k.pkg],
       [Empty EXCEPT !.scenario = <<k.pkg, k.base>>],
       [Empty EXCEPT !.grant = [pkg |-> k.pkg, trusted |-> TRUE]],
       [Empty EXCEPT !.meta = [pkg |-> k.pkg, base |-> k.base, revoked |-> FALSE]] >>

RevokeWrites(k) ==
    << [Empty EXCEPT !.meta = [k.got[1] EXCEPT !.revoked = TRUE]],
       [Empty EXCEPT !.grant = [k.got[2] EXCEPT !.trusted = FALSE]] >>

Writes(k) == IF k.kind = "register" THEN RegisterWrites(k) ELSE RevokeWrites(k)

Laid(new) == [f \in DOMAIN packageDisk |-> IF new[f] = Empty[f] THEN packageDisk[f] ELSE new[f]]

Noted(d, new) == IF new.grant.trusted /\ packageCall[d].stage = "read"
                 THEN [packageCall[d] EXCEPT !.granted = @ \cup {new.grant.pkg}] ELSE packageCall[d]

(* _write, under _anchor; the call ends with the slot's status. *)
Write(c) ==
    /\ packageCall[c].stage = "write"
    /\ LET k == packageCall[c]
           new == Writes(k)[k.at]
           last == k.at = Len(Writes(k))
       IN  IF ~reachable
           THEN /\ packageCall' = PackageEnd(c, PackageAbsent)
                /\ UNCHANGED <<packageDisk, barred>>
           ELSE /\ packageDisk' = Laid(new)
                /\ packageCall' = [d \in Callers |->
                     IF d # c THEN Noted(d, new)
                     ELSE IF ~last THEN [k EXCEPT !.at = @ + 1]
                     ELSE IF k.kind = "revoke" THEN PackageEnd(c, PackageAbsent)[c]
                     ELSE [k EXCEPT !.stage = "read", !.at = 1, !.granted = {k.pkg}]]
                /\ barred' = IF last /\ k.kind = "revoke"
                             THEN ~\E d \in Callers : packageCall[d].kind = "register" ELSE barred
    /\ UNCHANGED <<reachable, registers, revokes, deaths>>

(* The process dies, or a write fails. *)
Die(c) ==
    /\ Deciding(c)
    /\ deaths < MaxDeaths
    /\ deaths' = deaths + 1
    /\ packageCall' = [packageCall EXCEPT ![c] = PackageRest(PackageAbsent)]
    /\ UNCHANGED <<packageDisk, reachable, barred, registers, revokes>>

(* The workspace or the slot directory is replaced under the store. *)
Swap ==
    /\ reachable /\ MaxSwaps > 0
    /\ reachable' = FALSE
    /\ UNCHANGED <<packageDisk, packageCall, barred, registers, revokes, deaths>>

Forget(c) ==
    /\ packageCall[c].kind = "rest" /\ packageCall[c] # PackageRest(PackageAbsent)
    /\ packageCall' = [packageCall EXCEPT ![c] = PackageRest(PackageAbsent)]
    /\ UNCHANGED <<packageDisk, reachable, barred, registers, revokes, deaths>>

-----------------------------------------------------------------------------
PackageInit ==
    /\ packageDisk = Empty
    /\ reachable = TRUE
    /\ packageCall = [c \in Callers |-> PackageRest(PackageAbsent)]
    /\ barred = FALSE
    /\ registers = 0 /\ revokes = 0 /\ deaths = 0

PackageNext ==
    \/ Swap
    \/ \E c \in Deciders :
          \/ \E p, q \in Packages, b \in Bases : Register(c, p, q, b)
          \/ Revoke(c) \/ Write(c) \/ Die(c)
    \/ \E c \in PackageReaders :
          \E kind \in Asks,
                want \in Packages \cup {PackageAbsent}, frozen \in BOOLEAN : PackageAsk(c, kind, want, frozen)
    \/ \E c \in Callers : Read(c) \/ Forget(c)

PackageSpec == PackageInit /\ [][PackageNext]_packageVars

-----------------------------------------------------------------------------
(* The files hold what a registration or a revocation writes. *)
PackageTypeOK ==
    /\ {packageDisk.package, packageDisk.manifest, packageDisk.scenario[1], packageDisk.grant.pkg, packageDisk.meta.pkg}
          \subseteq Packages \cup {PackageAbsent}
    /\ {packageDisk.scenario[2], packageDisk.meta.base} \subseteq Bases \cup {PackageAbsent}
    /\ \A c \in Callers : packageCall[c].ans \in Packages \cup {PackageAbsent}
    /\ packageDisk.meta # NoMeta => packageDisk.grant # NoGrant /\ packageDisk.package # PackageAbsent
                                    /\ packageDisk.manifest # PackageAbsent /\ packageDisk.scenario[1] # PackageAbsent

(* However the reads of a call fall between the writes of a registration   *)
(* or a revocation, it hands out only bytes that were named by a trusted   *)
(* grant while the call ran (capability, catalog, activate_local_strategy). *)
HandedIsGranted ==
    \A c \in Callers : packageCall[c].ans # PackageAbsent => packageCall[c].ans \in packageCall[c].granted

(* Once a revocation was answered, no call that begins before the next     *)
(* registration finds anything trusted, whatever died or was interrupted   *)
(* before it (revoke, capability).                                         *)
RevocationBars ==
    \A c \in Callers : packageCall[c].shut => packageCall[c].ans = PackageAbsent

(* A frozen binding is never satisfied by another package: a slot that was *)
(* replaced since refuses it (catalog, _require_local_binding).            *)
FrozenIsExact ==
    \A c \in Callers : packageCall[c].kind = "rest" /\ packageCall[c].ans # PackageAbsent =>
        packageCall[c].pkg \in {PackageAbsent, packageCall[c].ans}

(* A registration that no other decision disturbs, in a slot that stays    *)
(* where it is, answers that its package is trusted, whatever an earlier   *)
(* interrupted registration left (register, status).                       *)
RegisteredIsTrusted ==
    \A c \in Callers : packageCall[c].was = "register" /\ packageCall[c].alone /\ reachable
                       /\ packageCall[c].kind = "rest" => packageCall[c].ans # PackageAbsent

\* The local package slot: what is handed out was granted, a revocation bars,
\* what a job froze is exact, and a registered slot is trusted.
PackageSafe ==
    /\ PackageTypeOK /\ HandedIsGranted /\ RevocationBars /\ FrozenIsExact
    /\ RegisteredIsTrusted
=============================================================================
