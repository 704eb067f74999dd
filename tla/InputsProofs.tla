---------------------------- MODULE InputsProofs ----------------------------
(***************************************************************************)
(* What is proved of the files a workspace keeps for its runs.  The upload *)
(* store publishes immutable versions under one quota; the package slot    *)
(* holds what was decided of one package.  Both are directories whose      *)
(* files are replaced one at a time, under a lock of one process, while    *)
(* readers look at them without it, and both may fail or stop in between.  *)
(***************************************************************************)
EXTENDS MCWeb, FiniteSetTheorems, SequenceTheorems, WellFoundedInduction, TLAPS

-----------------------------------------------------------------------------
(* The upload store: its inductive invariant.                              *)

Writing == {"raw", "capture", "manifest"}
Dropping == {"drop_manifest", "drop_capture", "drop_raw"}
Busy(t) == pub[t].pc # "idle"
Manifest(q, intact) ==
    [there |-> TRUE, kind |-> q.kind, decl |-> q.decl, raw |-> RawOf(q),
     capture |-> CaptureOf(q), intact |-> intact]

UploadTypes ==
    /\ uploadUp \in BOOLEAN /\ uploadFaults \in 0..UploadMaxFaults /\ used \subseteq Ids
    /\ raw = [i \in Ids |-> raw[i]] /\ captures = [i \in Ids |-> captures[i]]
    /\ versions = [i \in Ids |-> versions[i]] /\ issued = [i \in Ids |-> issued[i]]
    /\ returned \subseteq used
    /\ \A t \in Threads : pub[t] = [pc |-> pub[t].pc, id |-> pub[t].id, q |-> pub[t].q]
    /\ pub = [t \in Threads |-> pub[t]] /\ load = [r \in UploadReaders |-> load[r]]
    /\ \A i \in Ids : raw[i].there \/ captures[i].there \/ versions[i].there => i \in used

\* One publication at a time, of a name and a request that are its own, and no
\* further than its files say.
Stages == Writing \cup Dropping \cup {"sync"}
Own(pc, i, q) ==
    /\ uploadUp /\ i \in used \ returned /\ q = issued[i]
    /\ pc \in Writing \cup {"drop_capture", "drop_raw"} => ~versions[i].there
    /\ pc = "sync" => versions[i].there
    /\ pc \in {"capture", "manifest"} => raw[i] = RawOf(q)
    /\ pc = "manifest" => captures[i] = CaptureOf(q)
    /\ q \in UploadRequests /\ Reproduces(q) /\ UploadPresented(q)
    /\ pc \in Writing => ~Replay(q)
OwnsVersion(t, pc, i, q) == pub[t] = [pc |-> pc, id |-> i, q |-> q] /\ Own(pc, i, q)
OwnerIsAlone ==
    /\ \A t \in Threads : Busy(t) =>
          \E pc \in Stages, i \in Ids, q \in UploadRequests : OwnsVersion(t, pc, i, q)
    /\ \A t, u \in Threads : Busy(t) /\ Busy(u) => t = u

\* A manifest stands beside the files it was written for, which somebody else
\* may have changed since.
Stands(i, q) ==
    /\ issued[i] = q /\ q \in UploadRequests /\ Reproduces(q) /\ UploadPresented(q)
    /\ versions[i] = Manifest(q, versions[i].intact) /\ versions[i].intact \in BOOLEAN
    /\ raw[i] \in {RawOf(q), Bad(RawOf(q))}
    /\ captures[i] \in {CaptureOf(q), Bad(CaptureOf(q))}
VersionStands(i) == \E q \in UploadRequests : Stands(i, q)

\* What a reader holds is of one manifest.
LoadIsOfVersion(r) ==
    LET m == load[r]
    IN  /\ m.pc \in {"idle", "capture", "raw"}
        /\ m.pc # "idle" => m.id \in used /\ m.manifest.capture = CaptureOf(issued[m.id])
        /\ m.pc = "raw" => m.capture = m.manifest.capture

UploadInv ==
    /\ UploadTypes /\ OwnerIsAlone
    /\ \A i \in Versions : VersionStands(i)
    /\ \A i \in returned : versions[i].there
    /\ \A r \in UploadReaders : LoadIsOfVersion(r)
    /\ \A a \in accepted : a.id \in used
    /\ LoadedIsPublished /\ OneVersionPerIdentity

\* The files of version i of request q load as long as nobody has touched them.
LEMMA WholeLoads ==
    ASSUME NEW i \in Ids, NEW q, Stands(i, q), versions[i].there
    PROVE  Loads(i) <=> /\ versions[i].intact /\ raw[i] = RawOf(q)
                        /\ captures[i] = CaptureOf(q)
<1>1. q \in UploadRequests /\ Reproduces(q) /\ versions[i] = Manifest(q, versions[i].intact)
    BY DEF Stands
<1>2. q.kind \in UploadKinds /\ (q.kind \notin {"provider", "offline"} => q.claims = q.bytes)
    BY <1>1, UploadAssumption
<1>3. /\ versions[i].kind = q.kind /\ versions[i].decl = q.decl /\ versions[i].raw = RawOf(q)
      /\ versions[i].capture = CaptureOf(q)
    BY <1>1 DEF Manifest
<1>4. RawOf(q).there /\ CaptureOf(q).there /\ RawOf(q).bytes = q.bytes
    BY DEF RawOf, CaptureOf, File
<1>5. /\ CaptureOf(q).bytes = UploadNormalized(q.kind, q.decl, q.claims).bytes
      /\ CaptureOf(q).by = UploadNormalized(q.kind, q.decl, q.claims).by
    BY DEF CaptureOf, File
<1>6. UploadNormalized(q.kind, q.decl, q.bytes) = UploadNormalized(q.kind, q.decl, q.claims)
    BY <1>1, <1>2 DEF Reproduces
<1>7. UploadNormalized(q.kind, q.decl, q.bytes)
        = [bytes |-> CaptureOf(q).bytes, by |-> CaptureOf(q).by]
    BY <1>5, <1>6 DEF UploadNormalized
<1> QED
    BY <1>3, <1>4, <1>7 DEF Loads, CaptureMatches, RawMatches

\* What nobody touches keeps standing.
LEMMA StandsOn ==
    ASSUME NEW i \in Ids, raw'[i] = raw[i], captures'[i] = captures[i],
           versions'[i] = versions[i]
    PROVE  /\ Loads(i)' <=> Loads(i)
           /\ VersionStands(i) /\ issued'[i] = issued[i] /\ uploadShown \subseteq uploadShown'
                => VersionStands(i)'
<1>1. Loads(i)' <=> Loads(i)  BY DEF Loads
<1>2. ASSUME issued'[i] = issued[i], uploadShown \subseteq uploadShown', NEW q, Stands(i, q)
      PROVE  Stands(i, q)'
    BY <1>2 DEF Stands, UploadPresented
<1> QED  BY <1>1, <1>2 DEF VersionStands

\* A step after which no version loads that did not before.
NothingGained ==
    \A i \in Ids : versions'[i].there /\ Loads(i)'
                      => /\ versions[i].there /\ Loads(i) /\ versions'[i].kind = versions[i].kind
                         /\ versions'[i].raw = versions[i].raw /\ versions'[i].decl = versions[i].decl

\* Where nothing is gained, identities stay single and no request replays that did not.
LEMMA GainsKeepIdentity ==
    ASSUME NothingGained, OneVersionPerIdentity
    PROVE  OneVersionPerIdentity' /\ \A q : Replay(q)' => Replay(q)
<1>1. OneVersionPerIdentity'
    BY DEF NothingGained, OneVersionPerIdentity, Versions
<1>2. ASSUME NEW q, Replay(q)' PROVE Replay(q)
    BY <1>2 DEF NothingGained, Replay, Replays, Versions, Identity
<1> QED  BY <1>1, <1>2

\* The files of all but name i are as they were.
OnlyTouches(i) ==
    /\ raw' = [j \in Ids |-> raw'[j]] /\ captures' = [j \in Ids |-> captures'[j]]
    /\ versions' = [j \in Ids |-> versions'[j]]
    /\ \A j \in Ids \ {i} :
          raw'[j] = raw[j] /\ captures'[j] = captures[j] /\ versions'[j] = versions[j]
    /\ UNCHANGED <<used, issued, uploadShown, load, accepted>>

\* Files without a manifest load nothing.
LEMMA TouchGainsNothing ==
    ASSUME NEW i \in Ids, OnlyTouches(i), ~versions'[i].there
    PROVE  NothingGained
BY StandsOn DEF NothingGained, OnlyTouches

\* The parts of the invariant that are about versions and readers, if they hold of
\* the name that is touched.
LEMMA TouchKeeps ==
    ASSUME UploadInv, NEW i \in used, OnlyTouches(i), versions'[i].there => VersionStands(i)'
    PROVE  /\ \A j \in Versions' : VersionStands(j)'
           /\ \A r \in UploadReaders : LoadIsOfVersion(r)'
           /\ \A a \in accepted' : a.id \in used'
           /\ LoadedIsPublished'
           /\ raw' = [j \in Ids |-> raw'[j]] /\ captures' = [j \in Ids |-> captures'[j]]
           /\ versions' = [j \in Ids |-> versions'[j]] /\ issued' = [j \in Ids |-> issued'[j]]
           /\ \A j \in Ids : raw'[j].there \/ captures'[j].there \/ versions'[j].there
                                => j \in used'
<1>1. i \in Ids /\ used' = used /\ issued' = issued /\ uploadShown' = uploadShown
    BY DEF UploadInv, UploadTypes, OnlyTouches
<1>2. ASSUME NEW j \in Versions' PROVE VersionStands(j)'
    <2>1. CASE j = i  BY <1>2, <2>1 DEF Versions
    <2>2. CASE j # i
        <3>1. j \in Versions /\ VersionStands(j)
            BY <1>2, <2>2 DEF Versions, OnlyTouches, UploadInv
        <3> QED  BY <1>1, <1>2, <2>2, <3>1, StandsOn DEF OnlyTouches, Versions
    <2> QED  BY <2>1, <2>2
<1>3. ASSUME NEW r \in UploadReaders PROVE LoadIsOfVersion(r)'
    BY <1>1 DEF UploadInv, LoadIsOfVersion, OnlyTouches
<1>4. (\A a \in accepted' : a.id \in used') /\ LoadedIsPublished'
    BY <1>1 DEF UploadInv, LoadedIsPublished, OnlyTouches
<1>5. \A j \in Ids : raw'[j].there \/ captures'[j].there \/ versions'[j].there => j \in used'
    BY <1>1 DEF UploadInv, UploadTypes, OnlyTouches
<1> QED  BY <1>1, <1>2, <1>3, <1>4, <1>5 DEF OnlyTouches, UploadInv, UploadTypes

\* A publication goes on to another step, or ends.
LEMMA PublicationMoves ==
    ASSUME UploadInv, NEW t \in Threads, NEW p, pub' = [pub EXCEPT ![t] = p],
           p = [pc |-> p.pc, id |-> p.id, q |-> p.q]
    PROVE  /\ pub'[t] = p
           /\ \A u \in Threads \ {t} : pub'[u] = pub[u]
           /\ pub' = [u \in Threads |-> pub'[u]]
           /\ \A u \in Threads : pub'[u] = [pc |-> pub'[u].pc, id |-> pub'[u].id, q |-> pub'[u].q]
BY DEF UploadInv, UploadTypes

\* A step of the one publication there is, of name i.
LEMMA StepKeepsUploads ==
    ASSUME UploadInv, NEW t \in Threads, Busy(t), NEW p, pub' = [pub EXCEPT ![t] = p],
           p = [pc |-> p.pc, id |-> p.id, q |-> p.q],
           NEW i \in used, OnlyTouches(i), uploadUp' = uploadUp,
           returned' \subseteq used, \A j \in returned' : versions'[j].there,
           uploadFaults' \in 0..UploadMaxFaults,
           versions'[i].there => VersionStands(i)', OneVersionPerIdentity',
           p.pc # "idle" => \E pc \in Stages, j \in Ids, q \in UploadRequests :
                               p = [pc |-> pc, id |-> j, q |-> q] /\ Own(pc, j, q)'
    PROVE  UploadInv'
<1>2. /\ \A j \in Versions' : VersionStands(j)'
      /\ \A r \in UploadReaders : LoadIsOfVersion(r)'
      /\ \A a \in accepted' : a.id \in used'
      /\ LoadedIsPublished'
      /\ raw' = [j \in Ids |-> raw'[j]] /\ captures' = [j \in Ids |-> captures'[j]]
      /\ versions' = [j \in Ids |-> versions'[j]] /\ issued' = [j \in Ids |-> issued'[j]]
      /\ \A j \in Ids : raw'[j].there \/ captures'[j].there \/ versions'[j].there
                           => j \in used'
    BY TouchKeeps
<1>3. /\ pub'[t] = p
      /\ \A u \in Threads \ {t} : pub'[u] = pub[u]
      /\ pub' = [u \in Threads |-> pub'[u]]
      /\ \A u \in Threads : pub'[u] = [pc |-> pub'[u].pc, id |-> pub'[u].id, q |-> pub'[u].q]
    BY PublicationMoves
<1>4. UploadTypes'
    BY <1>2, <1>3 DEF UploadInv, UploadTypes, OnlyTouches
<1>5. \A u \in Threads : Busy(u)' => u = t
    BY <1>3 DEF UploadInv, OwnerIsAlone, Busy
<1>6. OwnerIsAlone'
    BY <1>3, <1>5 DEF OwnerIsAlone, Busy, OwnsVersion
<1> QED  BY <1>2, <1>4, <1>6 DEF UploadInv

\* The publication that is busy, and what it has done so far.
LEMMA BusyOwns ==
    ASSUME UploadInv, NEW t \in Threads, Busy(t)
    PROVE  \E pc \in Stages, i \in Ids, q \in UploadRequests :
              /\ pub[t] = [pc |-> pc, id |-> i, q |-> q] /\ Own(pc, i, q)
              /\ i \in used /\ i \notin returned
<1>1. PICK pc \in Stages, i \in Ids, q \in UploadRequests : OwnsVersion(t, pc, i, q)
    BY DEF UploadInv, OwnerIsAlone
<1>2. pub[t] = [pc |-> pc, id |-> i, q |-> q]  BY <1>1 DEF OwnsVersion
<1>3. Own(pc, i, q) /\ i \in used /\ i \notin returned
    BY <1>1 DEF OwnsVersion, Own
<1> QED  BY <1>2, <1>3

\* What a step of a publication says of the record it moves.
LEMMA UploadStepMoves ==
    ASSUME NEW t, NEW pc, NEW i, NEW q, pub[t] = [pc |-> pc, id |-> i, q |-> q],
           NEW from, NEW to, UploadStep(t, from, to)
    PROVE  pc = from /\ pub' = [pub EXCEPT ![t] = [pc |-> to, id |-> i, q |-> q]]
<1>1. pc = from /\ pub' = [pub EXCEPT ![t] = [pub[t] EXCEPT !.pc = to]]
    BY DEF UploadStep
<1>2. [pub[t] EXCEPT !.pc = to] = [pc |-> to, id |-> i, q |-> q]  OBVIOUS
<1> QED  BY <1>1, <1>2

\* The steps of a publication, one by one (publish, _write_new).
LEMMA WriteRawKeepsUploads ==
    ASSUME UploadInv, NEW t \in Threads, WriteRaw(t)
    PROVE  UploadInv'
<1>1. Busy(t) /\ pub[t].pc = "raw"  BY DEF WriteRaw, UploadStep, Busy
<1>2. PICK pc \in Stages, i \in Ids, q \in UploadRequests :
              /\ pub[t] = [pc |-> pc, id |-> i, q |-> q] /\ Own(pc, i, q)
              /\ i \in used /\ i \notin returned
    BY <1>1, BusyOwns
<1> DEFINE p == [pc |-> "capture", id |-> i, q |-> q]
<1>3. pc = "raw" /\ pub' = [pub EXCEPT ![t] = p]
    BY <1>1, <1>2, UploadStepMoves DEF WriteRaw
<1>4. raw' = [raw EXCEPT ![i] = RawOf(q)]
      /\ UNCHANGED <<uploadUp, captures, versions, used, load, uploadShown, issued, returned,
                     accepted, uploadFaults>>
    BY <1>2 DEF WriteRaw
<1>5. OnlyTouches(i)
    BY <1>4 DEF OnlyTouches, UploadInv, UploadTypes
<1>6. ~versions'[i].there  BY <1>2, <1>3, <1>4 DEF Own, Writing
<1>7. OneVersionPerIdentity' /\ (Replay(q)' => Replay(q))
    <2>1. NothingGained  BY <1>5, <1>6, TouchGainsNothing
    <2> QED  BY <2>1, GainsKeepIdentity DEF UploadInv
<1>8. Own("capture", i, q)'
    BY <1>2, <1>3, <1>4, <1>6, <1>7 DEF Own, Writing, UploadPresented, UploadInv, UploadTypes
<1>9. /\ uploadUp' = uploadUp /\ returned' \subseteq used /\ uploadFaults' \in 0..UploadMaxFaults
      /\ \A j \in returned' : versions'[j].there
    BY <1>4 DEF UploadInv, UploadTypes
<1>10. "capture" \in Stages  BY DEF Stages, Writing
<1> QED
    BY <1>1, <1>2, <1>3, <1>5, <1>6, <1>7, <1>8, <1>9, <1>10, StepKeepsUploads

LEMMA WriteCaptureKeepsUploads ==
    ASSUME UploadInv, NEW t \in Threads, WriteCapture(t)
    PROVE  UploadInv'
<1>1. Busy(t) /\ pub[t].pc = "capture"  BY DEF WriteCapture, UploadStep, Busy
<1>2. PICK pc \in Stages, i \in Ids, q \in UploadRequests :
              /\ pub[t] = [pc |-> pc, id |-> i, q |-> q] /\ Own(pc, i, q)
              /\ i \in used /\ i \notin returned
    BY <1>1, BusyOwns
<1> DEFINE p == [pc |-> "manifest", id |-> i, q |-> q]
<1>3. pc = "capture" /\ pub' = [pub EXCEPT ![t] = p]
    BY <1>1, <1>2, UploadStepMoves DEF WriteCapture
<1>4. captures' = [captures EXCEPT ![i] = CaptureOf(q)]
      /\ UNCHANGED <<uploadUp, raw, versions, used, load, uploadShown, issued, returned,
                     accepted, uploadFaults>>
    BY <1>2 DEF WriteCapture
<1>5. OnlyTouches(i)
    BY <1>4 DEF OnlyTouches, UploadInv, UploadTypes
<1>6. ~versions'[i].there  BY <1>2, <1>3, <1>4 DEF Own, Writing
<1>7. OneVersionPerIdentity' /\ (Replay(q)' => Replay(q))
    <2>1. NothingGained  BY <1>5, <1>6, TouchGainsNothing
    <2> QED  BY <2>1, GainsKeepIdentity DEF UploadInv
<1>8. Own("manifest", i, q)'
    BY <1>2, <1>3, <1>4, <1>6, <1>7 DEF Own, Writing, UploadPresented, UploadInv, UploadTypes
<1>9. /\ uploadUp' = uploadUp /\ returned' \subseteq used /\ uploadFaults' \in 0..UploadMaxFaults
      /\ \A j \in returned' : versions'[j].there
    BY <1>4 DEF UploadInv, UploadTypes
<1>10. "manifest" \in Stages  BY DEF Stages, Writing
<1> QED
    BY <1>1, <1>2, <1>3, <1>5, <1>6, <1>7, <1>8, <1>9, <1>10, StepKeepsUploads

LEMMA ManifestKeepsUploads ==
    ASSUME UploadInv, NEW t \in Threads, WriteManifest(t)
    PROVE  UploadInv'
<1>1. Busy(t) /\ pub[t].pc = "manifest"  BY DEF WriteManifest, UploadStep, Busy
<1>2. PICK pc \in Stages, i \in Ids, q \in UploadRequests :
              /\ pub[t] = [pc |-> pc, id |-> i, q |-> q] /\ Own(pc, i, q)
              /\ i \in used /\ i \notin returned
    BY <1>1, BusyOwns
<1> DEFINE p == [pc |-> "sync", id |-> i, q |-> q]
<1>3. pc = "manifest" /\ pub' = [pub EXCEPT ![t] = p]
    BY <1>1, <1>2, UploadStepMoves DEF WriteManifest
<1>4. versions' = [versions EXCEPT ![i] = ManifestOf(q)]
      /\ UNCHANGED <<uploadUp, raw, captures, used, load, uploadShown, issued, returned,
                     accepted, uploadFaults>>
    BY <1>2 DEF WriteManifest
<1>5. OnlyTouches(i)
    BY <1>4 DEF OnlyTouches, UploadInv, UploadTypes
<1>6. versions'[i] = ManifestOf(q)  BY <1>4 DEF UploadInv, UploadTypes
<1>7. /\ versions'[i].there /\ versions'[i].intact = TRUE /\ versions'[i].raw = RawOf(q)
      /\ versions'[i].decl = q.decl /\ versions'[i].kind = q.kind
      /\ versions'[i] = Manifest(q, versions'[i].intact)
    BY <1>6 DEF ManifestOf, Manifest
<1>8. raw[i] = RawOf(q) /\ captures[i] = CaptureOf(q) /\ ~Replay(q) /\ q = issued[i]
      /\ Reproduces(q) /\ UploadPresented(q)
    BY <1>2, <1>3 DEF Own, Writing
<1>9. VersionStands(i)'
    <2>1. Stands(i, q)'
        BY <1>4, <1>7, <1>8 DEF Stands, UploadPresented
    <2> QED  BY <2>1 DEF VersionStands
<1>10. \A j \in Ids \ {i} : Loads(j)' <=> Loads(j)
    BY <1>5, StandsOn DEF OnlyTouches
<1>11. OneVersionPerIdentity'
    <2> SUFFICES ASSUME NEW j \in Ids, NEW k \in Ids,
                        versions'[j].there, versions'[j].kind = "offline", Loads(j)',
                        versions'[k].there, versions'[k].kind = "offline", Loads(k)',
                        versions'[j].raw = versions'[k].raw,
                        versions'[j].decl = versions'[k].decl, j # k
                 PROVE  FALSE
        BY DEF OneVersionPerIdentity, Versions
    <2>1. CASE j # i /\ k # i
        BY <1>5, <1>10, <2>1 DEF OnlyTouches, OneVersionPerIdentity, Versions, UploadInv
    <2>2. ASSUME NEW l \in Ids \ {i}, versions'[l].there, versions'[l].kind = "offline",
                 Loads(l)', versions'[l].raw = versions'[i].raw,
                 versions'[l].decl = versions'[i].decl, versions'[i].kind = "offline"
          PROVE  FALSE
        <3>1. /\ versions[l].there /\ versions[l].kind = "offline" /\ Loads(l)
              /\ versions[l].raw = RawOf(q) /\ versions[l].decl = q.decl /\ q.kind = "offline"
            BY <1>5, <1>7, <1>10, <2>2 DEF OnlyTouches
        <3>2. RawOf(q).bytes = q.bytes  BY DEF RawOf, File
        <3> QED  BY <1>8, <3>1, <3>2 DEF Replay, Replays, Versions, Identity
    <2>3. CASE j = i  BY <2>2, <2>3
    <2>4. CASE k = i  BY <2>2, <2>4
    <2> QED  BY <2>1, <2>3, <2>4
<1>12. Own("sync", i, q)'
    BY <1>2, <1>4, <1>7, <1>8 DEF Own, Writing, UploadPresented
<1>13. /\ uploadUp' = uploadUp /\ returned' \subseteq used /\ uploadFaults' \in 0..UploadMaxFaults
       /\ \A j \in returned' : versions'[j].there
    BY <1>2, <1>4, <1>5 DEF UploadInv, UploadTypes, OnlyTouches
<1>14. "sync" \in Stages  BY DEF Stages
<1> QED
    BY <1>1, <1>2, <1>3, <1>5, <1>9, <1>11, <1>12, <1>13, <1>14, StepKeepsUploads
LEMMA ReturnKeepsUploads ==
    ASSUME UploadInv, NEW t \in Threads, Return(t)
    PROVE  UploadInv'
<1>1. Busy(t) /\ pub[t].pc = "sync"
    BY DEF Return, UploadStep, Busy
<1>2. PICK pc \in Stages, i \in Ids, q \in UploadRequests :
              /\ pub[t] = [pc |-> pc, id |-> i, q |-> q] /\ Own(pc, i, q)
              /\ i \in used /\ i \notin returned
    BY <1>1, BusyOwns
<1>3. pc = "sync" /\ pub' = [pub EXCEPT ![t] = UploadRest]
    BY <1>1, <1>2 DEF Return
<1>4. returned' = returned \cup {i}
      /\ UNCHANGED <<uploadUp, raw, captures, versions, used, load, uploadShown, issued,
                     accepted, uploadFaults>>
    BY <1>2 DEF Return
<1>5. OnlyTouches(i)
    BY <1>4 DEF OnlyTouches, UploadInv, UploadTypes
<1>6. versions[i].there  BY <1>2, <1>3 DEF Own
<1>7. i \in Versions  BY <1>6 DEF Versions
<1>8. VersionStands(i)'
    BY <1>4, <1>7, StandsOn DEF UploadInv
<1>9. OneVersionPerIdentity'
    <2>1. \A j \in Ids : Loads(j)' <=> Loads(j)  BY <1>4, StandsOn
    <2> QED  BY <1>4, <2>1 DEF UploadInv, OneVersionPerIdentity, Versions
<1>10. /\ uploadUp' = uploadUp /\ returned' \subseteq used /\ uploadFaults' \in 0..UploadMaxFaults
       /\ \A j \in returned' : versions'[j].there
    BY <1>2, <1>4, <1>6 DEF UploadInv, UploadTypes
<1>11. UploadRest.pc = "idle"
       /\ UploadRest = [pc |-> UploadRest.pc, id |-> UploadRest.id, q |-> UploadRest.q]
    BY DEF UploadRest
<1> QED
    BY <1>1, <1>2, <1>3, <1>5, <1>8, <1>9, <1>10, <1>11, StepKeepsUploads

\* A write that fails, before or after its file is there.
LEMMA WriteFailsKeepsUploads ==
    ASSUME UploadInv, NEW t \in Threads, WriteFails(t)
    PROVE  UploadInv'
<1>1. Busy(t) /\ pub[t].pc \in {"raw", "capture", "manifest", "sync"}
    BY DEF WriteFails, UploadStep, Busy
<1>2. PICK pc \in Stages, i \in Ids, q \in UploadRequests :
              /\ pub[t] = [pc |-> pc, id |-> i, q |-> q] /\ Own(pc, i, q)
              /\ i \in used /\ i \notin returned
    BY <1>1, BusyOwns
<1> DEFINE p == [pc |-> "drop_manifest", id |-> i, q |-> q]
<1>3. pub' = [pub EXCEPT ![t] = p]
    <2>1. [pub[t] EXCEPT !.pc = "drop_manifest"] = p  BY <1>2
    <2>2. pub' = [pub EXCEPT ![t] = [pub[t] EXCEPT !.pc = "drop_manifest"]]  BY DEF WriteFails
    <2> QED  BY <2>1, <2>2
<1>4. uploadFaults < UploadMaxFaults /\ uploadFaults' = uploadFaults + 1
      /\ UNCHANGED <<uploadUp, raw, captures, versions, used, load, uploadShown, issued, returned,
                     accepted>>
    BY DEF WriteFails
<1>5. OnlyTouches(i)
    BY <1>4 DEF OnlyTouches, UploadInv, UploadTypes
<1>8. versions'[i].there => VersionStands(i)'
    BY <1>4, StandsOn DEF UploadInv, Versions
<1>9. OneVersionPerIdentity'
    <2>1. \A j \in Ids : Loads(j)' <=> Loads(j)  BY <1>4, StandsOn
    <2> QED  BY <1>4, <2>1 DEF UploadInv, OneVersionPerIdentity, Versions
<1>10. /\ uploadUp' = uploadUp /\ returned' \subseteq used
       /\ \A j \in returned' : versions'[j].there
    BY <1>2, <1>4 DEF UploadInv, UploadTypes
<1>11. uploadFaults' \in 0..UploadMaxFaults
    BY <1>4, UploadAssumption DEF UploadInv, UploadTypes
<1>12. Own("drop_manifest", i, q)'
    BY <1>2, <1>4 DEF Own, Writing, UploadPresented
<1>13. "drop_manifest" \in Stages /\ p = [pc |-> p.pc, id |-> p.id, q |-> p.q]
    BY DEF Stages, Dropping
<1> QED
    BY <1>1, <1>2, <1>3, <1>5, <1>8, <1>9, <1>10, <1>11, <1>12, <1>13, StepKeepsUploads

\* The cleanup of a failed publication (publish), one file at a time.
LEMMA DropManifestKeepsUploads ==
    ASSUME UploadInv, NEW t \in Threads, DropManifest(t)
    PROVE  UploadInv'
<1>1. Busy(t) /\ pub[t].pc = "drop_manifest"
    BY DEF DropManifest, UploadStep, Busy
<1>2. PICK pc \in Stages, i \in Ids, q \in UploadRequests :
              /\ pub[t] = [pc |-> pc, id |-> i, q |-> q] /\ Own(pc, i, q)
              /\ i \in used /\ i \notin returned
    BY <1>1, BusyOwns
<1> DEFINE p == [pc |-> "drop_capture", id |-> i, q |-> q]
<1>3. pc = "drop_manifest" /\ pub' = [pub EXCEPT ![t] = p]
    BY <1>1, <1>2, UploadStepMoves DEF DropManifest
<1>4. versions' = [versions EXCEPT ![i] = NoManifest]
      /\ UNCHANGED <<uploadUp, raw, captures, used, load, uploadShown, issued, returned,
                     accepted, uploadFaults>>
    BY <1>2 DEF DropManifest
<1>5. OnlyTouches(i)
    BY <1>4 DEF OnlyTouches, UploadInv, UploadTypes
<1>6. ~versions'[i].there  BY <1>4 DEF UploadInv, UploadTypes, NoManifest
<1>7. OneVersionPerIdentity'
    <2>1. NothingGained  BY <1>5, <1>6, TouchGainsNothing
    <2> QED  BY <2>1, GainsKeepIdentity DEF UploadInv
<1>8. Own("drop_capture", i, q)'
    BY <1>2, <1>4, <1>6 DEF Own, Writing, UploadPresented
<1>9. /\ uploadUp' = uploadUp /\ returned' \subseteq used /\ uploadFaults' \in 0..UploadMaxFaults
      /\ \A j \in returned' : versions'[j].there
    BY <1>2, <1>4, <1>5 DEF UploadInv, UploadTypes, OnlyTouches
<1>10. "drop_capture" \in Stages  BY DEF Stages, Dropping
<1> QED
    BY <1>1, <1>2, <1>3, <1>5, <1>6, <1>7, <1>8, <1>9, <1>10, StepKeepsUploads

LEMMA DropCaptureKeepsUploads ==
    ASSUME UploadInv, NEW t \in Threads, DropCapture(t)
    PROVE  UploadInv'
<1>1. Busy(t) /\ pub[t].pc = "drop_capture"
    BY DEF DropCapture, UploadStep, Busy
<1>2. PICK pc \in Stages, i \in Ids, q \in UploadRequests :
              /\ pub[t] = [pc |-> pc, id |-> i, q |-> q] /\ Own(pc, i, q)
              /\ i \in used /\ i \notin returned
    BY <1>1, BusyOwns
<1> DEFINE p == [pc |-> "drop_raw", id |-> i, q |-> q]
<1>3. pc = "drop_capture" /\ pub' = [pub EXCEPT ![t] = p]
    BY <1>1, <1>2, UploadStepMoves DEF DropCapture
<1>4. captures' = [captures EXCEPT ![i] = NoFile]
      /\ UNCHANGED <<uploadUp, raw, versions, used, load, uploadShown, issued, returned,
                     accepted, uploadFaults>>
    BY <1>2 DEF DropCapture
<1>5. OnlyTouches(i)
    BY <1>2, <1>4 DEF OnlyTouches, UploadInv, UploadTypes, NoFile
<1>6. ~versions'[i].there  BY <1>2, <1>3, <1>4 DEF Own
<1>7. OneVersionPerIdentity'
    <2>1. NothingGained  BY <1>5, <1>6, TouchGainsNothing
    <2> QED  BY <2>1, GainsKeepIdentity DEF UploadInv
<1>8. Own("drop_raw", i, q)'
    BY <1>2, <1>4, <1>6 DEF Own, Writing, UploadPresented
<1>9. /\ uploadUp' = uploadUp /\ returned' \subseteq used /\ uploadFaults' \in 0..UploadMaxFaults
      /\ \A j \in returned' : versions'[j].there
    BY <1>4 DEF UploadInv, UploadTypes
<1>10. "drop_raw" \in Stages  BY DEF Stages, Dropping
<1> QED
    BY <1>1, <1>2, <1>3, <1>5, <1>6, <1>7, <1>8, <1>9, <1>10, StepKeepsUploads

LEMMA DropRawKeepsUploads ==
    ASSUME UploadInv, NEW t \in Threads, DropRaw(t)
    PROVE  UploadInv'
<1>1. Busy(t) /\ pub[t].pc = "drop_raw"
    BY DEF DropRaw, UploadStep, Busy
<1>2. PICK pc \in Stages, i \in Ids, q \in UploadRequests :
              /\ pub[t] = [pc |-> pc, id |-> i, q |-> q] /\ Own(pc, i, q)
              /\ i \in used /\ i \notin returned
    BY <1>1, BusyOwns
<1>3. pc = "drop_raw" /\ pub' = [pub EXCEPT ![t] = UploadRest]
    BY <1>1, <1>2 DEF DropRaw
<1>4. raw' = [raw EXCEPT ![i] = NoFile]
      /\ UNCHANGED <<uploadUp, captures, versions, used, load, uploadShown, issued, returned,
                     accepted, uploadFaults>>
    BY <1>2 DEF DropRaw
<1>5. OnlyTouches(i)
    BY <1>4 DEF OnlyTouches, UploadInv, UploadTypes
<1>6. ~versions'[i].there  BY <1>2, <1>3, <1>4 DEF Own
<1>7. OneVersionPerIdentity'
    <2>1. NothingGained  BY <1>5, <1>6, TouchGainsNothing
    <2> QED  BY <2>1, GainsKeepIdentity DEF UploadInv
<1>9. /\ uploadUp' = uploadUp /\ returned' \subseteq used /\ uploadFaults' \in 0..UploadMaxFaults
      /\ \A j \in returned' : versions'[j].there
    BY <1>4 DEF UploadInv, UploadTypes
<1>10. UploadRest.pc = "idle"
       /\ UploadRest = [pc |-> UploadRest.pc, id |-> UploadRest.id, q |-> UploadRest.q]
    BY DEF UploadRest
<1> QED
    BY <1>1, <1>2, <1>3, <1>5, <1>6, <1>7, <1>9, <1>10, StepKeepsUploads
\* A step that leaves every file alone keeps what is about versions.
LEMMA QuietKeepsVersions ==
    ASSUME UploadInv, UNCHANGED <<raw, captures, versions>>, uploadShown \subseteq uploadShown',
           \A i \in Versions : issued'[i] = issued[i]
    PROVE  /\ \A i \in Ids : Loads(i)' <=> Loads(i)
           /\ \A i \in Versions' : VersionStands(i)'
           /\ OneVersionPerIdentity' /\ \A q : Replay(q)' <=> Replay(q)
<1>1. \A i \in Ids : Loads(i)' <=> Loads(i)  BY StandsOn
<1>2. ASSUME NEW i \in Versions' PROVE VersionStands(i)'
    <2>1. i \in Versions  BY <1>2 DEF Versions
    <2>2. VersionStands(i) /\ i \in Ids  BY <2>1 DEF UploadInv, Versions
    <2> QED  BY <2>1, <2>2, StandsOn
<1>3. OneVersionPerIdentity'
    BY <1>1 DEF UploadInv, OneVersionPerIdentity, Versions
<1>4. \A q : Replay(q)' <=> Replay(q)
    BY <1>1 DEF Replay, Replays, Versions, Identity
<1> QED  BY <1>1, <1>2, <1>3, <1>4

\* How a publication begins: previewed, replayed, named, begun.
LEMMA PreviewKeepsUploads ==
    ASSUME UploadInv, NEW q \in UploadRequests, UploadPreview(q)
    PROVE  UploadInv'
<1>1. uploadShown \subseteq uploadShown'
      /\ UNCHANGED <<uploadUp, raw, captures, versions, used, pub, load, issued, returned,
                     accepted, uploadFaults>>
    BY DEF UploadPreview
<1>2. /\ \A i \in Versions' : VersionStands(i)'
      /\ OneVersionPerIdentity' /\ \A p : Replay(p)' <=> Replay(p)
    BY <1>1, QuietKeepsVersions
<1>3. UploadTypes'  BY <1>1 DEF UploadInv, UploadTypes
<1>4. ASSUME NEW t \in Threads, Busy(t)'
      PROVE  \E pc \in Stages, i \in Ids, p \in UploadRequests : OwnsVersion(t, pc, i, p)'
    <2>1. Busy(t)  BY <1>1, <1>4 DEF Busy
    <2>2. PICK pc \in Stages, i \in Ids, p \in UploadRequests : OwnsVersion(t, pc, i, p)
        BY <2>1 DEF UploadInv, OwnerIsAlone
    <2>3. OwnsVersion(t, pc, i, p)'
        BY <1>1, <1>2, <2>2 DEF OwnsVersion, Own, UploadPresented
    <2> QED  BY <2>3
<1>5. OwnerIsAlone'
    BY <1>1, <1>4 DEF UploadInv, OwnerIsAlone, Busy
<1>6. \A r \in UploadReaders : LoadIsOfVersion(r)'
    BY <1>1 DEF UploadInv, LoadIsOfVersion
<1>7. LoadedIsPublished' /\ (\A a \in accepted' : a.id \in used')
      /\ \A i \in returned' : versions'[i].there
    BY <1>1 DEF UploadInv, LoadedIsPublished
<1> QED  BY <1>2, <1>3, <1>5, <1>6, <1>7 DEF UploadInv

LEMMA ReplayKeepsUploads ==
    ASSUME UploadInv, NEW q \in UploadRequests, NEW i \in Replays(q),
           returned' = returned \cup {i},
           UNCHANGED <<uploadUp, raw, captures, versions, used, pub, load, uploadShown, issued,
                       accepted, uploadFaults>>, ~Locked
    PROVE  UploadInv'
<1>1. i \in Ids /\ versions[i].there /\ i \in used
    BY DEF Replays, Versions, UploadInv, UploadTypes
<1>2. /\ \A j \in Versions' : VersionStands(j)'
      /\ OneVersionPerIdentity' /\ \A p : Replay(p)' <=> Replay(p)
    BY QuietKeepsVersions
<1>3. UploadTypes'  BY <1>1 DEF UploadInv, UploadTypes
<1>5. OwnerIsAlone'
    BY DEF OwnerIsAlone, Busy, Locked
<1>6. \A r \in UploadReaders : LoadIsOfVersion(r)'
    BY DEF UploadInv, LoadIsOfVersion
<1>7. LoadedIsPublished' /\ (\A a \in accepted' : a.id \in used')
      /\ \A j \in returned' : versions'[j].there
    BY <1>1 DEF UploadInv, LoadedIsPublished
<1> QED  BY <1>2, <1>3, <1>5, <1>6, <1>7 DEF UploadInv

LEMMA NameKeepsUploads ==
    ASSUME UploadInv, NEW t \in Threads, NEW q \in UploadRequests, NEW i \in Ids \ used,
           used' = used \cup {i}, issued' = [issued EXCEPT ![i] = q],
           pub' = [pub EXCEPT ![t] = [pc |-> "raw", id |-> i, q |-> q]],
           uploadUp, ~Locked, UploadPresented(q), Reproduces(q), ~Replay(q),
           UNCHANGED <<uploadUp, raw, captures, versions, load, uploadShown, returned,
                       accepted, uploadFaults>>
    PROVE  UploadInv'
<1>1. /\ i \notin Versions /\ i \notin returned /\ issued'[i] = q
      /\ \A j \in Ids \ {i} : issued'[j] = issued[j]
      /\ \A j \in used : j \in Ids /\ j # i /\ issued'[j] = issued[j]
    BY DEF UploadInv, UploadTypes, Versions
<1>2. /\ \A j \in Versions' : VersionStands(j)'
      /\ OneVersionPerIdentity' /\ \A p : Replay(p)' <=> Replay(p)
    BY <1>1, QuietKeepsVersions DEF Versions
<1>3. UploadTypes'
    <2>1. \A u \in Threads : pub'[u] = [pc |-> pub'[u].pc, id |-> pub'[u].id, q |-> pub'[u].q]
        BY DEF UploadInv, UploadTypes
    <2> QED  BY <2>1 DEF UploadInv, UploadTypes
<1>4. \A u \in Threads : Busy(u)' => u = t
    BY DEF Locked, Busy, UploadInv, UploadTypes
<1>5. OwnerIsAlone'
    <2>1. Own("raw", i, q)'
        BY <1>1, <1>2 DEF Own, Writing, Versions, UploadPresented
    <2>2. pub'[t] = [pc |-> "raw", id |-> i, q |-> q]  BY DEF UploadInv, UploadTypes
    <2>3. OwnsVersion(t, "raw", i, q)' /\ "raw" \in Stages  BY <2>1, <2>2 DEF OwnsVersion, Stages, Writing
    <2> QED  BY <1>4, <2>3 DEF OwnerIsAlone
<1>6. \A r \in UploadReaders : LoadIsOfVersion(r)'
    BY <1>1 DEF UploadInv, LoadIsOfVersion
<1>7. LoadedIsPublished' /\ (\A a \in accepted' : a.id \in used')
      /\ \A j \in returned' : versions'[j].there
    BY <1>1 DEF UploadInv, LoadedIsPublished
<1> QED  BY <1>2, <1>3, <1>5, <1>6, <1>7 DEF UploadInv

LEMMA BeginKeepsUploads ==
    ASSUME UploadInv, NEW t \in Threads, NEW q \in UploadRequests, BeginPublish(t, q)
    PROVE  UploadInv'
<1>1. CASE Replay(q)
    <2>1. PICK i \in Replays(q) : returned' = returned \cup {i}
        BY <1>1 DEF BeginPublish
    <2> QED  BY <1>1, <2>1, ReplayKeepsUploads DEF BeginPublish
<1>2. CASE ~Replay(q)
    <2>1. PICK i \in Ids \ used :
             /\ used' = used \cup {i} /\ issued' = [issued EXCEPT ![i] = q]
             /\ pub' = [pub EXCEPT ![t] = [pc |-> "raw", id |-> i, q |-> q]]
        BY <1>2 DEF BeginPublish
    <2> QED  BY <1>2, <2>1, NameKeepsUploads DEF BeginPublish
<1> QED  BY <1>1, <1>2

\* The owner dies.
LEMMA CrashKeepsUploads ==
    ASSUME UploadInv, UploadCrash
    PROVE  UploadInv'
<1>1. uploadUp' = FALSE /\ uploadFaults < UploadMaxFaults /\ uploadFaults' = uploadFaults + 1
      /\ UNCHANGED <<raw, captures, versions, used, load, uploadShown, issued, returned, accepted>>
    BY DEF UploadCrash
<1>2. /\ \A j \in Versions' : VersionStands(j)'
      /\ OneVersionPerIdentity' /\ \A p : Replay(p)' <=> Replay(p)
    BY <1>1, QuietKeepsVersions
<1>3. uploadFaults' \in 0..UploadMaxFaults
    BY <1>1, UploadAssumption DEF UploadInv, UploadTypes
<1>4. UploadTypes'
    BY <1>1, <1>3 DEF UploadInv, UploadTypes, UploadCrash, UploadRest
<1>5. OwnerIsAlone'
    BY DEF OwnerIsAlone, Busy, UploadCrash, UploadRest
<1>6. \A r \in UploadReaders : LoadIsOfVersion(r)'
    BY <1>1 DEF UploadInv, LoadIsOfVersion
<1>7. LoadedIsPublished' /\ (\A a \in accepted' : a.id \in used')
      /\ \A j \in returned' : versions'[j].there
    BY <1>1 DEF UploadInv, LoadedIsPublished
<1> QED  BY <1>2, <1>4, <1>5, <1>6, <1>7 DEF UploadInv

\* The sweep leaves a published version its files.
LEMMA RestartKeepsUploads ==
    ASSUME UploadInv, Restart
    PROVE  UploadInv'
<1>1. /\ uploadUp' = TRUE /\ \A t \in Threads : ~Busy(t)
      /\ UNCHANGED <<versions, used, pub, load, uploadShown, issued, returned, accepted,
                     uploadFaults>>
    BY DEF Restart, UploadInv, OwnerIsAlone, OwnsVersion, Own
<1>2. /\ raw' = [i \in Ids |-> raw'[i]] /\ captures' = [i \in Ids |-> captures'[i]]
      /\ \A i \in Versions : raw'[i] = raw[i] /\ captures'[i] = captures[i] /\ i \in Ids
      /\ \A i \in Ids : raw'[i].there \/ captures'[i].there => raw[i].there \/ captures[i].there
    BY DEF Restart, Swept, NoFile, Versions
<1>3. ASSUME NEW i \in Versions' PROVE VersionStands(i)'
    <2>1. i \in Versions  BY <1>1, <1>3 DEF Versions
    <2>2. VersionStands(i)  BY <2>1 DEF UploadInv
    <2> QED  BY <1>1, <1>2, <2>1, <2>2, StandsOn
<1>4. NothingGained
    BY <1>1, <1>2, StandsOn DEF NothingGained, Versions
<1>5. OneVersionPerIdentity'
    BY <1>4, GainsKeepIdentity DEF UploadInv
<1>6. UploadTypes'
    BY <1>1, <1>2 DEF UploadInv, UploadTypes
<1>7. OwnerIsAlone'
    BY <1>1 DEF OwnerIsAlone, Busy
<1>8. \A r \in UploadReaders : LoadIsOfVersion(r)'
    BY <1>1 DEF UploadInv, LoadIsOfVersion
<1>9. LoadedIsPublished' /\ (\A a \in accepted' : a.id \in used')
      /\ \A j \in returned' : versions'[j].there
    BY <1>1 DEF UploadInv, LoadedIsPublished
<1> QED  BY <1>3, <1>5, <1>6, <1>7, <1>8, <1>9 DEF UploadInv
\* What somebody else changes may stop a version from loading, and no more.
LEMMA GoesBadKeepsUploads ==
    ASSUME UploadInv, NEW i \in Ids, GoesBad(i)
    PROVE  UploadInv'
<1>1. PICK q \in UploadRequests : Stands(i, q) /\ versions[i].there
    BY DEF GoesBad, UploadInv, VersionStands, Versions
<1>2. \A f : Bad(Bad(f)) = Bad(f)  BY DEF Bad
<1>3. /\ raw' = [j \in Ids |-> raw'[j]] /\ captures' = [j \in Ids |-> captures'[j]]
      /\ versions' = [j \in Ids |-> versions'[j]]
      /\ \A j \in Ids \ {i} :
            raw'[j] = raw[j] /\ captures'[j] = captures[j] /\ versions'[j] = versions[j]
    BY DEF GoesBad, UploadInv, UploadTypes
<1>4. /\ uploadFaults < UploadMaxFaults /\ uploadFaults' = uploadFaults + 1
      /\ UNCHANGED <<uploadUp, used, pub, load, uploadShown, issued, returned, accepted>>
    BY DEF GoesBad
<1>5. OnlyTouches(i)  BY <1>3, <1>4 DEF OnlyTouches
<1>6. raw'[i] \in {raw[i], Bad(raw[i])} /\ captures'[i] \in {captures[i], Bad(captures[i])}
    BY DEF GoesBad, UploadInv, UploadTypes
<1>7. versions'[i] = versions[i] \/ versions'[i] = [versions[i] EXCEPT !.intact = FALSE]
    BY DEF GoesBad, UploadInv, UploadTypes
<1>8. /\ versions'[i] = Manifest(q, versions'[i].intact) /\ versions'[i].intact \in BOOLEAN
      /\ versions'[i].intact => versions[i].intact
    <2>1. versions[i] = Manifest(q, versions[i].intact) /\ versions[i].intact \in BOOLEAN
        BY <1>1 DEF Stands
    <2>2. CASE versions'[i] = versions[i]  BY <2>1, <2>2
    <2>3. CASE versions'[i] = [versions[i] EXCEPT !.intact = FALSE]
        <3>1. versions'[i] = Manifest(q, FALSE)
            <4>1. ASSUME NEW v PROVE [versions[i] EXCEPT !.intact = v] = Manifest(q, v)
                <5>1. PICK m, a, b : m = versions[i] /\ a = TRUE /\ b = versions[i].intact
                    OBVIOUS
                <5>2. m = [there |-> a, kind |-> q.kind, decl |-> q.decl, raw |-> RawOf(q),
                           capture |-> CaptureOf(q), intact |-> b]
                    BY <2>1, <5>1, Zenon DEF Manifest
                <5>3. [m EXCEPT !.intact = v]
                        = [there |-> a, kind |-> q.kind, decl |-> q.decl, raw |-> RawOf(q),
                           capture |-> CaptureOf(q), intact |-> v]
                    BY ONLY <5>2
                <5> QED  BY <5>1, <5>3, Zenon DEF Manifest
            <4> QED  BY <2>3, <4>1, Zenon
        <3>2. versions'[i].intact = FALSE  BY <3>1 DEF Manifest
        <3> QED  BY <3>1, <3>2
    <2> QED  BY <1>7, <2>2, <2>3
<1>9. Stands(i, q)'
    BY <1>1, <1>2, <1>4, <1>6, <1>8 DEF Stands, UploadPresented
<1>10. VersionStands(i)'  BY <1>9 DEF VersionStands
<1>11. /\ versions'[i].there /\ versions[i].kind = q.kind /\ versions'[i].kind = q.kind
       /\ versions[i].raw = RawOf(q) /\ versions'[i].raw = RawOf(q)
       /\ versions[i].decl = q.decl /\ versions'[i].decl = q.decl
       /\ versions'[i].capture = CaptureOf(q)
    BY <1>1, <1>8 DEF Stands, Manifest
<1>12. Loads(i)' => Loads(i)
    <2> SUFFICES ASSUME Loads(i)' PROVE Loads(i)
        OBVIOUS
    <2>1. versions'[i].intact /\ raw'[i] = RawOf(q) /\ captures'[i] = CaptureOf(q)
        BY <1>11 DEF Loads, RawMatches, CaptureMatches
    <2>2. raw[i] = RawOf(q) /\ captures[i] = CaptureOf(q)
        BY <1>1, <1>2, <1>6, <2>1 DEF Stands
    <2> QED  BY <1>1, <1>8, <2>1, <2>2, WholeLoads
<1>13. NothingGained
    BY <1>1, <1>3, <1>11, <1>12, StandsOn DEF NothingGained
<1>14. OneVersionPerIdentity' /\ \A p : Replay(p)' => Replay(p)
    BY <1>13, GainsKeepIdentity DEF UploadInv
<1>15. i \in used  BY <1>1 DEF UploadInv, UploadTypes
<1>16. /\ \A j \in Versions' : VersionStands(j)'
       /\ \A r \in UploadReaders : LoadIsOfVersion(r)'
       /\ \A a \in accepted' : a.id \in used'
       /\ LoadedIsPublished'
       /\ issued' = [j \in Ids |-> issued'[j]]
       /\ \A j \in Ids : raw'[j].there \/ captures'[j].there \/ versions'[j].there => j \in used'
    BY <1>5, <1>10, <1>15, TouchKeeps
<1>17. uploadFaults' \in 0..UploadMaxFaults
    BY <1>4, UploadAssumption DEF UploadInv, UploadTypes
<1>18. UploadTypes'
    BY <1>3, <1>4, <1>16, <1>17 DEF UploadInv, UploadTypes
<1>19. ASSUME NEW t \in Threads, Busy(t)'
       PROVE  \E pc \in Stages, j \in Ids, p \in UploadRequests : OwnsVersion(t, pc, j, p)'
    <2>1. Busy(t)  BY <1>4, <1>19 DEF Busy
    <2>2. PICK pc \in Stages, j \in Ids, p \in UploadRequests : OwnsVersion(t, pc, j, p)
        BY <2>1 DEF UploadInv, OwnerIsAlone
    <2>3. pc \in Writing => j # i
        BY <1>1, <2>2 DEF OwnsVersion, Own
    <2>4. versions'[j].there <=> versions[j].there
        BY <1>1, <1>3, <1>11
    <2>5. Own(pc, j, p)'
        BY <1>3, <1>4, <1>14, <2>2, <2>3, <2>4 DEF OwnsVersion, Own, Writing, UploadPresented
    <2>6. OwnsVersion(t, pc, j, p)'
        BY <1>4, <2>2, <2>5 DEF OwnsVersion
    <2> QED  BY <2>6
<1>20. OwnerIsAlone'
    BY <1>4, <1>19 DEF UploadInv, OwnerIsAlone, Busy
<1>21. \A j \in returned' : versions'[j].there
    BY <1>3, <1>4, <1>11 DEF UploadInv, UploadTypes
<1> QED  BY <1>14, <1>16, <1>18, <1>20, <1>21 DEF UploadInv

\* The reads of a load, between which the files may change.
LEMMA LoadsKeepUploads ==
    ASSUME UploadInv, NEW r \in UploadReaders,
           (\E i \in Ids : BeginLoad(r, i)) \/ LoadCapture(r) \/ LoadRaw(r)
    PROVE  UploadInv'
<1>1. UNCHANGED <<uploadUp, raw, captures, versions, used, pub, uploadShown, issued, returned,
                  uploadFaults>>
    BY DEF BeginLoad, LoadCapture, LoadRaw
<1>2. /\ \A j \in Versions' : VersionStands(j)'
      /\ OneVersionPerIdentity' /\ \A p : Replay(p)' <=> Replay(p)
    BY <1>1, QuietKeepsVersions
<1>3. load' = [s \in UploadReaders |-> load'[s]] /\ \A s \in UploadReaders \ {r} : load'[s] = load[s]
    BY DEF BeginLoad, LoadCapture, LoadRaw, UploadInv, UploadTypes
<1>4. UploadTypes'
    BY <1>1, <1>3 DEF UploadInv, UploadTypes
<1>5. ASSUME NEW t \in Threads, Busy(t)'
      PROVE  \E pc \in Stages, i \in Ids, p \in UploadRequests : OwnsVersion(t, pc, i, p)'
    <2>1. Busy(t)  BY <1>1, <1>5 DEF Busy
    <2>2. PICK pc \in Stages, i \in Ids, p \in UploadRequests : OwnsVersion(t, pc, i, p)
        BY <2>1 DEF UploadInv, OwnerIsAlone
    <2>3. OwnsVersion(t, pc, i, p)'
        BY <1>1, <1>2, <2>2 DEF OwnsVersion, Own, UploadPresented
    <2> QED  BY <2>3
<1>6. OwnerIsAlone'
    BY <1>1, <1>5 DEF UploadInv, OwnerIsAlone, Busy
<1>7. LoadIsOfVersion(r)' /\ accepted' \subseteq accepted \cup
         (IF load[r].pc = "raw" THEN {[id |-> load[r].id, capture |-> load[r].capture]} ELSE {})
    <2>1. NoLoad.pc = "idle"  BY DEF NoLoad
    <2>2. CASE \E i \in Ids : BeginLoad(r, i)
        <3>1. PICK i \in Ids : BeginLoad(r, i)  BY <2>2
        <3> DEFINE m == [pc |-> "capture", id |-> i, manifest |-> versions[i], capture |-> NoFile]
        <3>2. load'[r] = m /\ accepted' = accepted /\ versions[i].there
            BY <3>1 DEF BeginLoad, UploadInv, UploadTypes
        <3>3. i \in used /\ i \in Versions  BY <3>2 DEF UploadInv, UploadTypes, Versions
        <3>4. versions[i].capture = CaptureOf(issued[i])
            <4>1. PICK q \in UploadRequests : Stands(i, q)
                BY <3>3 DEF UploadInv, VersionStands
            <4>2. versions[i].capture = CaptureOf(q) /\ issued[i] = q
                BY <4>1 DEF Stands, Manifest
            <4> QED  BY <4>2
        <3>5. m.pc = "capture" /\ m.id = i /\ m.manifest = versions[i]  OBVIOUS
        <3> HIDE DEF m
        <3> QED  BY <1>1, <3>2, <3>3, <3>4, <3>5 DEF LoadIsOfVersion
    <2>3. CASE LoadCapture(r)
        <3>1. accepted' = accepted /\ load[r].pc = "capture"  BY <2>3 DEF LoadCapture
        <3>2. CASE CaptureMatches(load[r].manifest, captures[load[r].id])
            <4> DEFINE m == [load[r] EXCEPT !.pc = "raw", !.capture = captures[load[r].id]]
            <4>1. load'[r] = m  BY <2>3, <3>2 DEF LoadCapture, UploadInv, UploadTypes
            <4>2. m.pc = "raw" /\ m.id = load[r].id /\ m.manifest = load[r].manifest
                  /\ m.capture = captures[load[r].id]
                BY DEF UploadInv, UploadTypes
            <4> HIDE DEF m
            <4> QED
                BY <1>1, <3>1, <3>2, <4>1, <4>2 DEF LoadIsOfVersion, UploadInv, CaptureMatches
        <3>3. CASE ~CaptureMatches(load[r].manifest, captures[load[r].id])
            <4>1. load'[r] = NoLoad  BY <2>3, <3>3 DEF LoadCapture, UploadInv, UploadTypes
            <4> QED  BY <2>1, <3>1, <4>1 DEF LoadIsOfVersion
        <3> QED  BY <3>2, <3>3
    <2>4. CASE LoadRaw(r)
        <3>1. load'[r] = NoLoad  BY <2>4 DEF LoadRaw, UploadInv, UploadTypes
        <3> QED  BY <2>1, <2>4, <3>1 DEF LoadIsOfVersion, LoadRaw
    <2> QED  BY <2>2, <2>3, <2>4
<1>8. \A s \in UploadReaders : LoadIsOfVersion(s)'
    BY <1>1, <1>3, <1>7 DEF UploadInv, LoadIsOfVersion
<1>9. LoadedIsPublished' /\ (\A a \in accepted' : a.id \in used')
    <2>1. load[r].pc = "raw" => load[r].id \in used /\ load[r].capture = CaptureOf(issued[load[r].id])
        BY DEF UploadInv, LoadIsOfVersion
    <2>2. \A a \in accepted' : a.id \in used /\ a.capture = CaptureOf(issued[a.id])
        BY <1>7, <2>1 DEF UploadInv, LoadedIsPublished
    <2> QED  BY <1>1, <2>2 DEF LoadedIsPublished
<1>10. \A j \in returned' : versions'[j].there
    BY <1>1 DEF UploadInv
<1> QED  BY <1>2, <1>4, <1>6, <1>8, <1>9, <1>10 DEF UploadInv

\* The store begins, and every step keeps the invariant.
LEMMA InitIsUploadInv == ASSUME UploadInit PROVE UploadInv
<1>1. ~NoFile.there /\ ~NoManifest.there /\ UploadRest.pc = "idle" /\ NoLoad.pc = "idle"
      /\ UploadRest = [pc |-> UploadRest.pc, id |-> UploadRest.id, q |-> UploadRest.q]
    BY DEF NoFile, NoManifest, UploadRest, NoLoad
<1>2. Versions = {}  BY <1>1 DEF UploadInit, Versions
<1>3. UploadTypes  BY <1>1, UploadAssumption DEF UploadInit, UploadTypes
<1>4. OwnerIsAlone  BY <1>1 DEF UploadInit, OwnerIsAlone, Busy
<1>5. \A r \in UploadReaders : LoadIsOfVersion(r)
    BY <1>1 DEF UploadInit, LoadIsOfVersion
<1>6. LoadedIsPublished /\ OneVersionPerIdentity
    BY <1>2 DEF UploadInit, LoadedIsPublished, OneVersionPerIdentity
<1> QED  BY <1>2, <1>3, <1>4, <1>5, <1>6 DEF UploadInit, UploadInv

LEMMA NextKeepsUploads ==
    ASSUME UploadInv, [UploadNext]_uploadVars
    PROVE  UploadInv'
<1>1. CASE UNCHANGED uploadVars
    <2>1. UNCHANGED <<uploadUp, raw, captures, versions, used, pub, load, uploadShown, issued,
                      returned, accepted, uploadFaults>>
        BY <1>1 DEF uploadVars
    <2>2. /\ \A j \in Versions' : VersionStands(j)'
          /\ OneVersionPerIdentity' /\ \A p : Replay(p)' <=> Replay(p)
        BY <2>1, QuietKeepsVersions
    <2>3. UploadTypes'  BY <2>1 DEF UploadInv, UploadTypes
    <2>4. ASSUME NEW t \in Threads, Busy(t)'
          PROVE  \E pc \in Stages, i \in Ids, p \in UploadRequests : OwnsVersion(t, pc, i, p)'
        <3>1. Busy(t)  BY <2>1, <2>4 DEF Busy
        <3>2. PICK pc \in Stages, i \in Ids, p \in UploadRequests : OwnsVersion(t, pc, i, p)
            BY <3>1 DEF UploadInv, OwnerIsAlone
        <3>3. OwnsVersion(t, pc, i, p)'
            BY <2>1, <2>2, <3>2 DEF OwnsVersion, Own, UploadPresented
        <3> QED  BY <3>3
    <2>5. OwnerIsAlone'
        BY <2>1, <2>4 DEF UploadInv, OwnerIsAlone, Busy
    <2>6. \A r \in UploadReaders : LoadIsOfVersion(r)'
        BY <2>1 DEF UploadInv, LoadIsOfVersion
    <2>7. LoadedIsPublished' /\ (\A a \in accepted' : a.id \in used')
          /\ \A i \in returned' : versions'[i].there
        BY <2>1 DEF UploadInv, LoadedIsPublished
    <2> QED  BY <2>2, <2>3, <2>5, <2>6, <2>7 DEF UploadInv
<1>2. CASE UploadNext
    BY <1>2, PreviewKeepsUploads, BeginKeepsUploads, WriteRawKeepsUploads,
       WriteCaptureKeepsUploads, ManifestKeepsUploads, ReturnKeepsUploads, WriteFailsKeepsUploads,
       DropManifestKeepsUploads, DropCaptureKeepsUploads, DropRawKeepsUploads,
       CrashKeepsUploads, RestartKeepsUploads, GoesBadKeepsUploads, LoadsKeepUploads
       DEF UploadNext
<1> QED  BY <1>1, <1>2

\* What the invariant says of the store: all that does not count bytes.
LEMMA UploadInvIsSafe ==
    ASSUME UploadInv
    PROVE  UploadTypeOK /\ PublishedIsWhole /\ ReturnedIsRetained /\ OneVersionPerIdentity
           /\ LoadedIsPublished /\ PublishedWasPreviewed
<1>1. ASSUME NEW i \in Versions PROVE Touched(i) \/ Loads(i)
    <2>1. PICK q \in UploadRequests : Stands(i, q)  BY <1>1 DEF UploadInv, VersionStands
    <2>2. i \in Ids /\ versions[i].there  BY <1>1 DEF Versions
    <2>3. \A f : Bad(f) = f \/ Bad(f).bytes = "bad" \/ f = [f EXCEPT !.bytes = "bad"]
        BY DEF Bad
    <2>4. Bad(RawOf(q)).bytes = "bad" /\ Bad(CaptureOf(q)).bytes = "bad"
        BY DEF Bad, RawOf, CaptureOf, File
    <2> QED  BY <2>1, <2>2, <2>4, WholeLoads DEF Touched, Stands
<1>2. \A i \in returned : i \in Versions
    BY DEF UploadInv, UploadTypes, Versions, Ids
<1>3. ASSUME NEW i \in Versions, versions[i].kind = "offline"
      PROVE  Identity(issued[i]) \in uploadShown
    <2>1. PICK q \in UploadRequests : Stands(i, q)  BY <1>3 DEF UploadInv, VersionStands
    <2>2. q.kind = "offline" /\ issued[i] = q  BY <1>3, <2>1 DEF Stands, Manifest
    <2> QED  BY <2>1, <2>2 DEF Stands, UploadPresented
<1>4. Cardinality({t \in Threads : pub[t].pc # "idle"}) <= 1
    <2> DEFINE B == {t \in Threads : pub[t].pc # "idle"}
    <2>1. \A t, u \in B : t = u  BY DEF UploadInv, OwnerIsAlone, Busy
    <2>2. CASE B = {}  BY <2>2, FS_EmptySet
    <2>3. CASE B # {}
        <3>1. PICK t \in B : TRUE  BY <2>3
        <3>2. B = {t}  BY <2>1, <3>1
        <3> QED  BY <3>2, FS_Singleton
    <2> QED  BY <2>2, <2>3
<1> QED
    BY <1>1, <1>2, <1>3, <1>4
       DEF UploadInv, UploadTypes, UploadTypeOK, PublishedIsWhole, ReturnedIsRetained,
           PublishedWasPreviewed, Versions

-----------------------------------------------------------------------------
(* What the files of a store take: a sum over a finite set, by induction on *)
(* its size.                                                               *)

\* Every set of numbers has a least one, and one that holds 0 and the successor of
\* each of its own is all of them.
LEMMA LeastNat ==
    ASSUME NEW T \in SUBSET Nat, T # {}
    PROVE  \E x \in T : \A y \in T : x <= y
<1>1. PICK x \in T : \A y \in T : ~(<<y, x>> \in OpToRel(<, Nat))
    BY NatLessThanWellFounded, WFMin
<1>2. \A y \in T : ~(y < x)
    BY <1>1 DEF OpToRel
<1> QED BY <1>2

\* Induction on the naturals, for a set of them.
LEMMA SetInduction ==
    ASSUME NEW T \in SUBSET Nat, 0 \in T, \A n \in T : n + 1 \in T
    PROVE  T = Nat
<1> SUFFICES ASSUME Nat \ T # {} PROVE FALSE OBVIOUS
<1>1. PICK x \in Nat \ T : \A y \in Nat \ T : x <= y BY LeastNat
<1>2. x - 1 \in T BY <1>1
<1> QED BY <1>1, <1>2

\* The sum that MapThenSumSet computes, as a function of the set.
Pick(s) == CHOOSE x \in s : TRUE
Sizes(F, g, s) == IF s = {} THEN 0 ELSE F[Pick(s)].size + g[s \ {Pick(s)}]

\* The function exists: it is built up over the sets of at most n members.
LEMMA SumExists ==
    ASSUME NEW F, NEW S, IsFiniteSet(S)
    PROVE  \E g : g = [s \in SUBSET S |-> Sizes(F, g, s)]
<1> DEFINE N == {n \in Nat : \E g : \A s \in SUBSET S :
                    Cardinality(s) <= n => g[s] = Sizes(F, g, s)}
<1>0. ASSUME NEW s \in SUBSET S, s # {}
      PROVE  /\ s \ {Pick(s)} \in SUBSET S /\ Cardinality(s) \in Nat
             /\ Cardinality(s \ {Pick(s)}) = Cardinality(s) - 1
    <2>1. IsFiniteSet(s)  BY FS_Subset
    <2>2. Pick(s) \in s  BY <1>0 DEF Pick
    <2> QED  BY <2>1, <2>2, FS_RemoveElement, FS_CardinalityType
<1>1. 0 \in N
    <2> DEFINE g == [s \in SUBSET S |-> 0]
    <2>1. ASSUME NEW s \in SUBSET S, Cardinality(s) <= 0 PROVE g[s] = Sizes(F, g, s)
        <3>1. s = {}  BY <2>1, FS_Subset, FS_EmptySet, FS_CardinalityType
        <3> QED  BY <3>1 DEF Sizes
    <2> QED  BY <2>1
<1>2. ASSUME NEW n \in N PROVE n + 1 \in N
    <2>1. PICK g : \A s \in SUBSET S : Cardinality(s) <= n => g[s] = Sizes(F, g, s)
        OBVIOUS
    <2> DEFINE h == [s \in SUBSET S |-> Sizes(F, g, s)]
    <2>2. ASSUME NEW s \in SUBSET S, Cardinality(s) <= n + 1 PROVE h[s] = Sizes(F, h, s)
        <3>1. CASE s = {}  BY <3>1 DEF Sizes
        <3>2. CASE s # {}
            <4> DEFINE t == s \ {Pick(s)}
            <4>1. t \in SUBSET S /\ Cardinality(t) <= n  BY <1>0, <2>2, <3>2
            <4>2. h[t] = Sizes(F, g, t)  BY <4>1
            <4>3. h[t] = g[t]  BY <2>1, <4>1, <4>2
            <4>4. h[s] = Sizes(F, g, s)  BY <2>2
            <4> HIDE DEF h
            <4> QED  BY <3>2, <4>3, <4>4 DEF Sizes
        <3> QED  BY <3>1, <3>2
    <2> HIDE DEF h
    <2>3. n + 1 \in Nat  OBVIOUS
    <2> QED  BY <2>2, <2>3
<1> HIDE DEF N
<1>3. N = Nat
    <2>1. N \in SUBSET Nat  BY DEF N
    <2> QED  BY <1>1, <1>2, <2>1, SetInduction
<1>4. Cardinality(S) \in Nat /\ \A s \in SUBSET S : Cardinality(s) \in Nat /\ Cardinality(s) <= Cardinality(S)
    BY FS_Subset, FS_CardinalityType
<1>5. PICK g : \A s \in SUBSET S : Cardinality(s) <= Cardinality(S) => g[s] = Sizes(F, g, s)
    BY <1>3, <1>4 DEF N
<1> DEFINE h == [s \in SUBSET S |-> g[s]]
<1>6. ASSUME NEW s \in SUBSET S PROVE h[s] = Sizes(F, h, s)
    <2>1. h[s] = Sizes(F, g, s)  BY <1>4, <1>5
    <2>2. CASE s = {}  BY <2>1, <2>2 DEF Sizes
    <2>3. CASE s # {}
        <3>1. s \ {Pick(s)} \in SUBSET S  BY <1>0, <2>3
        <3>2. h[s \ {Pick(s)}] = g[s \ {Pick(s)}]  BY <3>1
        <3> HIDE DEF h
        <3> QED  BY <2>1, <2>3, <3>2 DEF Sizes
    <2> QED  BY <2>2, <2>3
<1>7. h = [s \in SUBSET S |-> Sizes(F, h, s)]
    <2>1. h = [s \in SUBSET S |-> h[s]]  OBVIOUS
    <2> HIDE DEF h
    <2> QED  BY <1>6, <2>1
<1> HIDE DEF h
<1> QED  BY <1>7

TotalSize(F) == MapThenSumSet(LAMBDA i : F[i].size, Ids)

\* A sum is that of one member and that of the others.
LEMMA TotalUnfolds ==
    ASSUME NEW F, IsFiniteSet(Ids)
    PROVE  \E g : TotalSize(F) = g[Ids] /\ g = [s \in SUBSET Ids |-> Sizes(F, g, s)]
<1>1. PICK h : h = [s \in SUBSET Ids |-> Sizes(F, h, s)]
    BY SumExists
<1> DEFINE g == CHOOSE g : g = [s \in SUBSET Ids |-> Sizes(F, g, s)]
<1>2. g = [s \in SUBSET Ids |-> Sizes(F, g, s)]  BY <1>1
<1>3. TotalSize(F) = g[Ids]
    BY DEF TotalSize, MapThenSumSet, MapThenFoldSet, Sizes, Pick
<1> HIDE DEF g
<1> QED  BY <1>2, <1>3

\* What the files take grows by no more than what one of them grows by.
LEMMA TotalMoves ==
    ASSUME NEW F, NEW G, IsFiniteSet(Ids), NEW i, NEW d \in Nat,
           \A j \in Ids : F[j].size \in Nat /\ G[j].size \in Nat,
           \A j \in Ids : G[j].size <= F[j].size + (IF j = i THEN d ELSE 0)
    PROVE  TotalSize(F) \in Nat /\ TotalSize(G) \in Nat /\ TotalSize(G) <= TotalSize(F) + d
<1>1. PICK f : TotalSize(F) = f[Ids] /\ f = [s \in SUBSET Ids |-> Sizes(F, f, s)]
    BY TotalUnfolds
<1>2. PICK g : TotalSize(G) = g[Ids] /\ g = [s \in SUBSET Ids |-> Sizes(G, g, s)]
    BY TotalUnfolds
<1> DEFINE Good(s) == f[s] \in Nat /\ g[s] \in Nat /\ g[s] <= f[s] + (IF i \in s THEN d ELSE 0)
           N == {n \in Nat : \A s \in SUBSET Ids : Cardinality(s) = n => Good(s)}
<1>3. 0 \in N
    <2> SUFFICES ASSUME NEW s \in SUBSET Ids, Cardinality(s) = 0 PROVE Good(s)
        OBVIOUS
    <2>1. s = {}  BY FS_Subset, FS_EmptySet
    <2>2. f[s] = 0 /\ g[s] = 0  BY <1>1, <1>2, <2>1 DEF Sizes
    <2> QED  BY <2>1, <2>2
<1>4. ASSUME NEW n \in N PROVE n + 1 \in N
    <2> SUFFICES ASSUME NEW s \in SUBSET Ids, Cardinality(s) = n + 1 PROVE Good(s)
        OBVIOUS
    <2> DEFINE p == Pick(s)
               t == s \ {p}
    <2>1. n \in Nat /\ IsFiniteSet(s)  BY FS_Subset
    <2>2. s # {}  BY <2>1, FS_EmptySet
    <2>3. p \in s  BY <2>2 DEF Pick
    <2>4. Cardinality(t) = n /\ t \in SUBSET Ids
        <3> HIDE DEF p, N
        <3>1. Cardinality(t) = Cardinality(s) - 1  BY <2>1, <2>3, FS_RemoveElement
        <3> QED  BY <2>1, <3>1
    <2>5. f[t] \in Nat /\ g[t] \in Nat /\ g[t] <= f[t] + (IF i \in t THEN d ELSE 0)
        BY <2>4
    <2>6. f[s] = F[p].size + f[t] /\ g[s] = G[p].size + g[t]
        BY <1>1, <1>2, <2>2 DEF Sizes
    <2>7. F[p].size \in Nat /\ G[p].size \in Nat /\ p \in Ids  BY <2>3
    <2>8. p = i => G[p].size <= F[p].size + d /\ i \notin t /\ i \in s  BY <2>3
    <2>9. p # i => G[p].size <= F[p].size /\ (i \in t <=> i \in s)  BY <2>3
    <2> HIDE DEF p, t
    <2> QED  BY <2>5, <2>6, <2>7, <2>8, <2>9
<1> HIDE DEF N
<1>5. N = Nat
    <2>1. N \in SUBSET Nat  BY DEF N
    <2> QED  BY <1>3, <1>4, <2>1, SetInduction
<1>6. Cardinality(Ids) \in N  BY <1>5, FS_CardinalityType
<1>7. Good(Ids)  BY <1>6 DEF N
<1> QED  BY <1>1, <1>2, <1>7

\* Files that take nothing take nothing together.
LEMMA EmptyTakesNothing ==
    ASSUME NEW F, IsFiniteSet(Ids), \A j \in Ids : F[j].size = 0
    PROVE  TotalSize(F) = 0
<1>1. PICK f : TotalSize(F) = f[Ids] /\ f = [s \in SUBSET Ids |-> Sizes(F, f, s)]
    BY TotalUnfolds
<1> DEFINE N == {n \in Nat : \A s \in SUBSET Ids : Cardinality(s) = n => f[s] = 0}
<1>2. 0 \in N
    <2> SUFFICES ASSUME NEW s \in SUBSET Ids, Cardinality(s) = 0 PROVE f[s] = 0
        OBVIOUS
    <2>1. s = {}  BY FS_Subset, FS_EmptySet
    <2> QED  BY <1>1, <2>1 DEF Sizes
<1>3. ASSUME NEW n \in N PROVE n + 1 \in N
    <2> SUFFICES ASSUME NEW s \in SUBSET Ids, Cardinality(s) = n + 1 PROVE f[s] = 0
        OBVIOUS
    <2> DEFINE p == Pick(s)
               t == s \ {p}
    <2>1. n \in Nat /\ IsFiniteSet(s)  BY FS_Subset
    <2>2. s # {}  BY <2>1, FS_EmptySet
    <2>3. p \in s  BY <2>2 DEF Pick
    <2>4. Cardinality(t) = n /\ t \in SUBSET Ids
        <3> HIDE DEF p, N
        <3>1. Cardinality(t) = Cardinality(s) - 1  BY <2>1, <2>3, FS_RemoveElement
        <3> QED  BY <2>1, <3>1
    <2>5. f[t] = 0  BY <2>4
    <2>6. f[s] = F[p].size + f[t]  BY <1>1, <2>2 DEF Sizes
    <2>7. F[p].size = 0  BY <2>3
    <2> HIDE DEF p, t
    <2> QED  BY <2>5, <2>6, <2>7
<1> HIDE DEF N
<1>4. N = Nat
    <2>1. N \in SUBSET Nat  BY DEF N
    <2> QED  BY <1>2, <1>3, <2>1, SetInduction
<1>5. Cardinality(Ids) \in N  BY <1>4, FS_CardinalityType
<1> QED  BY <1>1, <1>5 DEF N

\* What the store counts is the two sums (_stored_bytes), before and after a step.
LEMMA StoredIsTotal ==
    StoredBytes = TotalSize(raw) + TotalSize(captures)
BY DEF StoredBytes, TotalSize

LEMMA StoredStaysTotal ==
    StoredBytes' = TotalSize(raw') + TotalSize(captures')
<1>1. (StoredBytes = TotalSize(raw) + TotalSize(captures))'
    BY StoredIsTotal, PTL
<1> QED  BY <1>1

-----------------------------------------------------------------------------
(* The upload store stays within its limits: what a publication may still    *)
(* write was counted when it began, and no other one begins meanwhile.       *)

UploadQuota ==
    /\ \A i \in Ids : raw[i].size \in Nat /\ captures[i].size \in Nat
    /\ QuotaHolds
    /\ \A t \in Threads :
          /\ pub[t].pc \in Writing => Cardinality(Versions) + 1 <= MaxVersions
          /\ pub[t].pc = "raw" => StoredBytes + pub[t].q.rawSize + pub[t].q.capSize <= MaxBytes
          /\ pub[t].pc = "capture" => StoredBytes + pub[t].q.capSize <= MaxBytes

\* The directory is finite.
LEMMA IdsAreFinite == IsFiniteSet(Ids)
BY UploadAssumption, FS_Interval DEF Ids

LEMMA VersionsAreFinite ==
    ASSUME NEW S, S \subseteq Ids
    PROVE  IsFiniteSet(S) /\ Cardinality(S) \in Nat
BY IdsAreFinite, FS_Subset, FS_CardinalityType

\* What the store takes after a step that adds at most d to the files of one name.
LEMMA StoredMoves ==
    ASSUME \A j \in Ids : /\ raw[j].size \in Nat /\ captures[j].size \in Nat
                          /\ raw'[j].size \in Nat /\ captures'[j].size \in Nat,
           NEW i, NEW c \in Nat, NEW d \in Nat,
           \A j \in Ids : /\ raw'[j].size <= raw[j].size + (IF j = i THEN c ELSE 0)
                          /\ captures'[j].size <= captures[j].size + (IF j = i THEN d ELSE 0)
    PROVE  StoredBytes \in Nat /\ StoredBytes' \in Nat /\ StoredBytes' <= StoredBytes + c + d
<1>1. /\ TotalSize(raw) \in Nat /\ TotalSize(raw') \in Nat
      /\ TotalSize(raw') <= TotalSize(raw) + c
    BY IdsAreFinite, TotalMoves
<1>2. /\ TotalSize(captures) \in Nat /\ TotalSize(captures') \in Nat
      /\ TotalSize(captures') <= TotalSize(captures) + d
    BY IdsAreFinite, TotalMoves
<1> QED  BY <1>1, <1>2, StoredIsTotal, StoredStaysTotal

\* A step that adds no file, no version and no publication.
LEMMA QuotaStays ==
    ASSUME UploadQuota, UploadInv,
           \A j \in Ids : /\ raw'[j].size = raw[j].size \/ raw'[j].size = 0
                          /\ captures'[j].size = captures[j].size \/ captures'[j].size = 0,
           \A j \in Ids : versions'[j].there => versions[j].there,
           \A t \in Threads : pub'[t].pc \in Writing => pub'[t] = pub[t]
    PROVE  UploadQuota'
<1>1. \A j \in Ids : /\ raw[j].size \in Nat /\ captures[j].size \in Nat
                     /\ raw'[j].size \in Nat /\ captures'[j].size \in Nat
    BY DEF UploadQuota
<1>2. StoredBytes \in Nat /\ StoredBytes' \in Nat /\ StoredBytes' <= StoredBytes + 0 + 0
    <2>1. \A j \in Ids : /\ raw'[j].size <= raw[j].size + (IF j = 0 THEN 0 ELSE 0)
                         /\ captures'[j].size <= captures[j].size + (IF j = 0 THEN 0 ELSE 0)
        BY <1>1
    <2> QED  BY <1>1, <2>1, StoredMoves
<1>3. Cardinality(Versions) \in Nat /\ Cardinality(Versions)' \in Nat
      /\ Cardinality(Versions)' <= Cardinality(Versions)
    <2>1. Versions' \subseteq Versions /\ Versions \subseteq Ids
        BY DEF Versions
    <2> QED  BY <2>1, VersionsAreFinite, FS_Subset
<1>4. QuotaHolds'
    BY <1>2, <1>3, UploadAssumption DEF UploadQuota, QuotaHolds
<1>5. ASSUME NEW t \in Threads, pub'[t].pc \in Writing
      PROVE  /\ (Cardinality(Versions) + 1 <= MaxVersions)'
             /\ (pub[t].pc = "raw" => StoredBytes + pub[t].q.rawSize + pub[t].q.capSize <= MaxBytes)'
             /\ (pub[t].pc = "capture" => StoredBytes + pub[t].q.capSize <= MaxBytes)'
    <2>1. pub'[t] = pub[t]  BY <1>5
    <2>2. pub[t].q.rawSize \in Nat /\ pub[t].q.capSize \in Nat
        <3>1. Busy(t)  BY <1>5, <2>1 DEF Busy, Writing
        <3>2. PICK pc \in Stages, i \in Ids, q \in UploadRequests :
                  pub[t] = [pc |-> pc, id |-> i, q |-> q]
            BY <3>1, BusyOwns
        <3> QED  BY <3>2, UploadAssumption
    <2> QED  BY <1>2, <1>3, <1>5, <2>1, <2>2, UploadAssumption DEF UploadQuota
<1> QED  BY <1>1, <1>4, <1>5 DEF UploadQuota, Writing

\* Each write stays within what its publication was granted under the lock.
LEMMA RawKeepsQuota ==
    ASSUME UploadQuota, UploadInv, NEW t \in Threads, WriteRaw(t)
    PROVE  UploadQuota'
<1>1. Busy(t) /\ pub[t].pc = "raw"  BY DEF WriteRaw, UploadStep, Busy
<1>2. PICK pc \in Stages, i \in Ids, q \in UploadRequests :
              /\ pub[t] = [pc |-> pc, id |-> i, q |-> q] /\ Own(pc, i, q)
              /\ i \in used /\ i \notin returned
    BY <1>1, BusyOwns
<1>3. pub' = [pub EXCEPT ![t] = [pc |-> "capture", id |-> i, q |-> q]]
    BY <1>1, <1>2, UploadStepMoves DEF WriteRaw
<1>4. raw' = [raw EXCEPT ![i] = RawOf(q)] /\ captures' = captures /\ versions' = versions
    BY <1>2 DEF WriteRaw
<1>5. RawOf(q).size = q.rawSize /\ q.rawSize \in Nat /\ q.capSize \in Nat
    BY UploadAssumption DEF RawOf, File
<1>6. \A j \in Ids : /\ raw[j].size \in Nat /\ captures[j].size \in Nat
                     /\ raw'[j].size \in Nat /\ captures'[j].size \in Nat
    BY <1>4, <1>5 DEF UploadQuota, UploadInv, UploadTypes
<1>7. StoredBytes \in Nat /\ StoredBytes' \in Nat /\ StoredBytes' <= StoredBytes + q.rawSize + 0
    <2>1. \A j \in Ids :
              /\ raw'[j].size <= raw[j].size + (IF j = i THEN q.rawSize ELSE 0)
              /\ captures'[j].size <= captures[j].size + (IF j = i THEN 0 ELSE 0)
        BY <1>4, <1>5, <1>6 DEF UploadInv, UploadTypes
    <2> QED  BY <1>5, <1>6, <2>1, StoredMoves
<1>8. StoredBytes + q.rawSize + q.capSize <= MaxBytes /\ Cardinality(Versions) + 1 <= MaxVersions
    BY <1>1, <1>2 DEF UploadQuota, Writing
<1>9. Versions' = Versions /\ Cardinality(Versions) \in Nat
    BY <1>4, VersionsAreFinite DEF Versions
<1>10. \A u \in Threads \ {t} : pub'[u].pc \notin Writing
    BY <1>1, <1>3 DEF UploadInv, OwnerIsAlone, Busy, Writing
<1>11. pub'[t] = [pc |-> "capture", id |-> i, q |-> q]
    BY <1>3 DEF UploadInv, UploadTypes
<1>12. QuotaHolds'
    BY <1>5, <1>7, <1>8, <1>9, UploadAssumption DEF QuotaHolds
<1>13. ASSUME NEW u \in Threads, pub'[u].pc \in Writing
       PROVE  /\ (Cardinality(Versions) + 1 <= MaxVersions)'
              /\ (pub[u].pc = "raw" => StoredBytes + pub[u].q.rawSize + pub[u].q.capSize <= MaxBytes)'
              /\ (pub[u].pc = "capture" => StoredBytes + pub[u].q.capSize <= MaxBytes)'
    <2>1. u = t  BY <1>10, <1>13
    <2> QED  BY <1>5, <1>7, <1>8, <1>9, <1>11, <2>1, UploadAssumption
<1> QED  BY <1>6, <1>12, <1>13 DEF UploadQuota, Writing
LEMMA CaptureKeepsQuota ==
    ASSUME UploadQuota, UploadInv, NEW t \in Threads, WriteCapture(t)
    PROVE  UploadQuota'
<1>1. Busy(t) /\ pub[t].pc = "capture"  BY DEF WriteCapture, UploadStep, Busy
<1>2. PICK pc \in Stages, i \in Ids, q \in UploadRequests :
              /\ pub[t] = [pc |-> pc, id |-> i, q |-> q] /\ Own(pc, i, q)
              /\ i \in used /\ i \notin returned
    BY <1>1, BusyOwns
<1>3. pub' = [pub EXCEPT ![t] = [pc |-> "manifest", id |-> i, q |-> q]]
    BY <1>1, <1>2, UploadStepMoves DEF WriteCapture
<1>4. captures' = [captures EXCEPT ![i] = CaptureOf(q)] /\ raw' = raw /\ versions' = versions
    BY <1>2 DEF WriteCapture
<1>5. CaptureOf(q).size = q.capSize /\ q.rawSize \in Nat /\ q.capSize \in Nat
    BY UploadAssumption DEF CaptureOf, File
<1>6. \A j \in Ids : /\ raw[j].size \in Nat /\ captures[j].size \in Nat
                     /\ raw'[j].size \in Nat /\ captures'[j].size \in Nat
    BY <1>4, <1>5 DEF UploadQuota, UploadInv, UploadTypes
<1>7. StoredBytes \in Nat /\ StoredBytes' \in Nat /\ StoredBytes' <= StoredBytes + 0 + q.capSize
    <2>1. \A j \in Ids :
              /\ raw'[j].size <= raw[j].size + (IF j = i THEN 0 ELSE 0)
              /\ captures'[j].size <= captures[j].size + (IF j = i THEN q.capSize ELSE 0)
        <3>1. captures'[i] = CaptureOf(q) /\ \A j \in Ids \ {i} : captures'[j] = captures[j]
            BY <1>4 DEF UploadInv, UploadTypes
        <3> QED  BY <1>4, <1>5, <1>6, <3>1
    <2> QED  BY <1>5, <1>6, <2>1, StoredMoves
<1>8. StoredBytes + q.capSize <= MaxBytes /\ Cardinality(Versions) + 1 <= MaxVersions
    BY <1>1, <1>2 DEF UploadQuota, Writing
<1>9. Versions' = Versions /\ Cardinality(Versions) \in Nat
    BY <1>4, VersionsAreFinite DEF Versions
<1>10. \A u \in Threads \ {t} : pub'[u].pc \notin Writing
    BY <1>1, <1>3 DEF UploadInv, OwnerIsAlone, Busy, Writing
<1>11. pub'[t] = [pc |-> "manifest", id |-> i, q |-> q]
    BY <1>3 DEF UploadInv, UploadTypes
<1>12. QuotaHolds'
    BY <1>5, <1>7, <1>8, <1>9, UploadAssumption DEF QuotaHolds
<1>13. ASSUME NEW u \in Threads, pub'[u].pc \in Writing
       PROVE  /\ (Cardinality(Versions) + 1 <= MaxVersions)'
              /\ pub'[u].pc = "manifest"
    <2>1. u = t  BY <1>10, <1>13
    <2> QED  BY <1>8, <1>9, <1>11, <2>1
<1> QED  BY <1>6, <1>12, <1>13 DEF UploadQuota, Writing

LEMMA ManifestKeepsQuota ==
    ASSUME UploadQuota, UploadInv, NEW t \in Threads, WriteManifest(t)
    PROVE  UploadQuota'
<1>1. Busy(t) /\ pub[t].pc = "manifest"  BY DEF WriteManifest, UploadStep, Busy
<1>2. PICK pc \in Stages, i \in Ids, q \in UploadRequests :
              /\ pub[t] = [pc |-> pc, id |-> i, q |-> q] /\ Own(pc, i, q)
              /\ i \in used /\ i \notin returned
    BY <1>1, BusyOwns
<1>3. pub' = [pub EXCEPT ![t] = [pc |-> "sync", id |-> i, q |-> q]]
    BY <1>1, <1>2, UploadStepMoves DEF WriteManifest
<1>4. versions' = [versions EXCEPT ![i] = ManifestOf(q)] /\ raw' = raw /\ captures' = captures
    BY <1>2 DEF WriteManifest
<1>5. \A j \in Ids : /\ raw[j].size \in Nat /\ captures[j].size \in Nat
                     /\ raw'[j].size \in Nat /\ captures'[j].size \in Nat
    BY <1>4 DEF UploadQuota
<1>6. StoredBytes \in Nat /\ StoredBytes' \in Nat /\ StoredBytes' <= StoredBytes + 0 + 0
    <2>1. \A j \in Ids :
              /\ raw'[j].size <= raw[j].size + (IF j = i THEN 0 ELSE 0)
              /\ captures'[j].size <= captures[j].size + (IF j = i THEN 0 ELSE 0)
        BY <1>4, <1>5
    <2> QED  BY <1>5, <2>1, StoredMoves
<1>7. Cardinality(Versions) + 1 <= MaxVersions
    BY <1>1 DEF UploadQuota, Writing
<1>8. /\ Cardinality(Versions) \in Nat /\ Cardinality(Versions)' \in Nat
      /\ Cardinality(Versions)' <= Cardinality(Versions) + 1
    <2>1. Versions \subseteq Ids /\ Versions' \subseteq Versions \cup {i}
        BY <1>4 DEF Versions, UploadInv, UploadTypes
    <2>2. IsFiniteSet(Versions) /\ Cardinality(Versions) \in Nat
        BY <2>1, VersionsAreFinite
    <2>3. /\ IsFiniteSet(Versions \cup {i}) /\ Cardinality(Versions \cup {i}) \in Nat
          /\ Cardinality(Versions \cup {i}) <= Cardinality(Versions) + 1
        BY <2>2, FS_AddElement
    <2>4. Cardinality(Versions') <= Cardinality(Versions \cup {i}) /\ Cardinality(Versions') \in Nat
        BY <2>1, <2>3, FS_Subset, FS_CardinalityType
    <2> QED  BY <2>2, <2>3, <2>4
<1>9. \A u \in Threads : pub'[u].pc \notin Writing
    <2>1. pub'[t].pc = "sync"  BY <1>3 DEF UploadInv, UploadTypes
    <2> QED  BY <1>1, <1>3, <2>1 DEF UploadInv, OwnerIsAlone, Busy, Writing
<1>10. StoredBytes <= MaxBytes  BY DEF UploadQuota, QuotaHolds
<1>11. QuotaHolds'
    BY <1>6, <1>7, <1>8, <1>10, UploadAssumption DEF QuotaHolds
<1> QED  BY <1>5, <1>9, <1>11 DEF UploadQuota, Writing

LEMMA BeginKeepsQuota ==
    ASSUME UploadQuota, UploadInv, NEW t \in Threads, NEW q \in UploadRequests, BeginPublish(t, q)
    PROVE  UploadQuota'
<1>1. UNCHANGED <<raw, captures, versions>>  BY DEF BeginPublish
<1>2. CASE Replay(q)
    <2>1. pub' = pub  BY <1>2 DEF BeginPublish
    <2> QED  BY <1>1, <2>1, QuotaStays
<1>3. CASE ~Replay(q)
    <2>1. WithinQuota(q) /\ ~Locked  BY <1>3 DEF BeginPublish
    <2>2. PICK i : pub' = [pub EXCEPT ![t] = [pc |-> "raw", id |-> i, q |-> q]]
        BY <1>3 DEF BeginPublish
    <2>3. pub'[t] = [pc |-> "raw", id |-> i, q |-> q]
        BY <2>2 DEF UploadInv, UploadTypes
    <2>4. \A u \in Threads \ {t} : pub'[u].pc \notin Writing
        BY <2>1, <2>2 DEF Locked, Writing, UploadInv, UploadTypes
    <2>5. Versions' = Versions  BY <1>1 DEF Versions
    <2>6. Cardinality(Versions) \in Nat /\ Versions \subseteq Ids
        BY VersionsAreFinite DEF Versions
    <2>7. StoredBytes \in Nat /\ StoredBytes' = StoredBytes
        <3>1. \A j \in Ids : /\ raw[j].size \in Nat /\ captures[j].size \in Nat
                             /\ raw'[j].size \in Nat /\ captures'[j].size \in Nat
            BY <1>1 DEF UploadQuota
        <3>2. \A j \in Ids :
              /\ raw'[j].size <= raw[j].size + (IF j = 0 THEN 0 ELSE 0)
              /\ captures'[j].size <= captures[j].size + (IF j = 0 THEN 0 ELSE 0)
            BY <1>1, <3>1
        <3>3. StoredBytes \in Nat  BY <3>1, <3>2, StoredMoves
        <3>4. StoredBytes' = StoredBytes
            BY <1>1, StoredIsTotal, StoredStaysTotal
        <3> QED  BY <3>3, <3>4
    <2>8. /\ Cardinality(Versions) + 1 <= MaxVersions
          /\ StoredBytes + q.rawSize + q.capSize <= MaxBytes
        BY <2>1, <2>6, UploadAssumption DEF WithinQuota
    <2>9. QuotaHolds'
        BY <2>5, <2>7 DEF UploadQuota, QuotaHolds
    <2>10. ASSUME NEW u \in Threads, pub'[u].pc \in Writing
           PROVE  /\ (Cardinality(Versions) + 1 <= MaxVersions)' /\ pub'[u].pc = "raw"
                  /\ (StoredBytes + pub[u].q.rawSize + pub[u].q.capSize <= MaxBytes)'
        <3>1. u = t  BY <2>4, <2>10
        <3> QED  BY <2>3, <2>5, <2>7, <2>8, <3>1
    <2> QED  BY <1>1, <2>9, <2>10 DEF UploadQuota, Writing
<1> QED  BY <1>2, <1>3

\* No other step adds a file.
LEMMA NextKeepsQuota ==
    ASSUME UploadQuota, UploadInv, [UploadNext]_uploadVars
    PROVE  UploadQuota'
<1> DEFINE Quiet == /\ \A j \in Ids :
                         /\ raw'[j].size = raw[j].size \/ raw'[j].size = 0
                         /\ captures'[j].size = captures[j].size \/ captures'[j].size = 0
                    /\ \A j \in Ids : versions'[j].there => versions[j].there
                    /\ \A t \in Threads : pub'[t].pc \in Writing => pub'[t] = pub[t]
<1>1. Quiet => UploadQuota'  BY QuotaStays
<1>2. /\ UploadRest.pc \notin Writing /\ NoFile.size = 0 /\ ~NoManifest.there
      /\ "drop_manifest" \notin Writing /\ "drop_capture" \notin Writing /\ "drop_raw" \notin Writing
    BY DEF UploadRest, NoFile, NoManifest, Writing
<1>3. /\ raw = [i \in Ids |-> raw[i]] /\ captures = [i \in Ids |-> captures[i]]
      /\ versions = [i \in Ids |-> versions[i]] /\ pub = [t \in Threads |-> pub[t]]
      /\ \A t \in Threads : pub[t] = [pc |-> pub[t].pc, id |-> pub[t].id, q |-> pub[t].q]
    BY DEF UploadInv, UploadTypes
<1>4. CASE UNCHANGED uploadVars
    <2>1. Quiet  BY <1>4 DEF uploadVars
    <2> QED  BY <1>1, <2>1
<1>5. CASE \E q \in UploadRequests : UploadPreview(q)
    <2>1. Quiet  BY <1>5 DEF UploadPreview
    <2> QED  BY <1>1, <2>1
<1>6. CASE \E t \in Threads : Return(t) \/ DropRaw(t)
    <2>1. Quiet  BY <1>2, <1>3, <1>6 DEF Return, DropRaw
    <2> QED  BY <1>1, <2>1
<1>7. ASSUME NEW t \in Threads, WriteFails(t) \/ DropManifest(t) \/ DropCapture(t)
      PROVE  UploadQuota'
    <2>1. PICK pc \in {"drop_manifest", "drop_capture", "drop_raw"} :
              pub' = [pub EXCEPT ![t].pc = pc]
        BY <1>7 DEF WriteFails, DropManifest, DropCapture, UploadStep
    <2>2. \A u \in Threads : pub'[u].pc \in Writing => pub'[u] = pub[u]
        BY <1>2, <1>3, <2>1
    <2>3. Quiet
        BY <1>2, <1>3, <1>7, <2>2 DEF WriteFails, DropManifest, DropCapture
    <2> QED  BY <1>1, <2>3
<1>8. CASE UploadCrash
    <2>1. Quiet  BY <1>2, <1>8 DEF UploadCrash
    <2> QED  BY <1>1, <2>1
<1>9. CASE Restart
    <2>1. Quiet  BY <1>2, <1>9 DEF Restart, Swept
    <2> QED  BY <1>1, <2>1
<1>10. ASSUME NEW i \in Ids, GoesBad(i) PROVE UploadQuota'
    <2>1. VersionStands(i)
        BY <1>10 DEF GoesBad, UploadInv, Versions
    <2>3. Bad(raw[i]).size = raw[i].size /\ Bad(captures[i]).size = captures[i].size
        <3>1. PICK q \in UploadRequests : Stands(i, q)  BY <2>1 DEF VersionStands
        <3>2. \A f : f = RawOf(q) \/ f = CaptureOf(q) => Bad(f).size = f.size
            BY DEF RawOf, CaptureOf, File, Bad
        <3>3. \A f : Bad(Bad(f)) = Bad(f)  BY DEF Bad
        <3> QED  BY <3>1, <3>2, <3>3 DEF Stands
    <2>4. pub' = pub  BY <1>10 DEF GoesBad
    <2>5. \A j \in Ids : /\ raw'[j].size = raw[j].size
                         /\ captures'[j].size = captures[j].size
        BY <1>3, <1>10, <2>3 DEF GoesBad
    <2>6. \A j \in Ids : versions'[j].there => versions[j].there
        BY <1>3, <1>10 DEF GoesBad
    <2> QED  BY <1>1, <2>4, <2>5, <2>6
<1>11. CASE \E r \in UploadReaders : (\E i \in Ids : BeginLoad(r, i)) \/ LoadCapture(r) \/ LoadRaw(r)
    <2>1. UNCHANGED <<raw, captures, versions, pub>>
        BY <1>11 DEF BeginLoad, LoadCapture, LoadRaw
    <2> QED  BY <1>1, <2>1
<1> QED
    BY <1>4, <1>5, <1>6, <1>7, <1>8, <1>9, <1>10, <1>11, RawKeepsQuota, CaptureKeepsQuota,
       ManifestKeepsQuota, BeginKeepsQuota DEF UploadNext

\* An empty store is within its quota.
LEMMA InitIsQuota == ASSUME UploadInit PROVE UploadQuota
<1>1. NoFile.size = 0 /\ ~NoManifest.there /\ UploadRest.pc = "idle"
    BY DEF NoFile, NoManifest, UploadRest
<1>2. Versions = {}  BY <1>1 DEF UploadInit, Versions
<1>3. \A j \in Ids : raw[j].size = 0 /\ captures[j].size = 0
    BY <1>1 DEF UploadInit
<1>4. StoredBytes = 0
    <2>1. TotalSize(raw) = 0 /\ TotalSize(captures) = 0
        BY <1>3, IdsAreFinite, EmptyTakesNothing
    <2> QED  BY <2>1, StoredIsTotal
<1>5. Cardinality(Versions) = 0  BY <1>2, FS_EmptySet
<1> QED
    BY <1>1, <1>3, <1>4, <1>5, UploadAssumption DEF UploadInit, UploadQuota, QuotaHolds, Writing

\* However publications, failures, crashes, disturbed files and readers interleave,
\* every returned version stands, one identity names one version, what loads is what
\* was published from an accepted preview, and the directory stays within its quota
\* (web/uploads.py publish, _write_new, _stored_bytes, load).
THEOREM UploadsAreSafe == UploadSpec => []UploadSafe
<1>1. UploadInit => UploadInv /\ UploadQuota
    BY InitIsUploadInv, InitIsQuota
<1>2. UploadInv /\ UploadQuota /\ [UploadNext]_uploadVars => (UploadInv /\ UploadQuota)'
    BY NextKeepsUploads, NextKeepsQuota
<1>3. UploadInv /\ UploadQuota => UploadSafe
    BY UploadInvIsSafe DEF UploadSafe, UploadQuota
<1> QED  BY <1>1, <1>2, <1>3, PTL DEF UploadSpec

-----------------------------------------------------------------------------
(* The local packages: files, calls and what they read.                    *)

SlotFiles == {"package", "manifest", "scenario", "grant", "meta"}
MaybePackage == Packages \cup {PackageAbsent}
MaybeBase == Bases \cup {PackageAbsent}
Grants == [pkg : MaybePackage, trusted : BOOLEAN]
Metas == [pkg : MaybePackage, base : MaybeBase, revoked : BOOLEAN]

ReadKinds == {"status", "binding", "catalog", "load", "register"}
CallKinds == ReadKinds \cup {"revoke"}

\* Which file a call reads first and last, and where its grants, manifests and packages are.
LEMMA ReadsAre ==
    /\ \A k \in {"status", "register"} :
          /\ Len(Reads[k]) = 7 /\ Reads[k][2] = "grant" /\ Reads[k][4] = "grant"
          /\ Reads[k][1] = "meta" /\ Reads[k][3] = "meta" /\ Reads[k][5] = "meta"
          /\ Reads[k][6] = "manifest" /\ Reads[k][7] = "package"
    /\ \A k \in {"binding", "catalog"} :
          /\ Reads[k][2] = "grant" /\ Reads[k][6] = "grant"
          /\ Reads[k][1] = "meta" /\ Reads[k][3] = "meta"
          /\ Reads[k][4] = "manifest" /\ Reads[k][5] = "package"
    /\ Len(Reads["binding"]) = 6
    /\ Len(Reads["catalog"]) = 9 /\ Reads["catalog"][7] = "meta"
    /\ Reads["catalog"][8] = "manifest" /\ Reads["catalog"][9] = "package"
    /\ Len(Reads["load"]) = 11 /\ Reads["load"][1] = "meta" /\ Reads["load"][2] = "meta"
    /\ Reads["load"][3] = "grant" /\ Reads["load"][4] = "meta" /\ Reads["load"][5] = "manifest"
    /\ Reads["load"][6] = "package" /\ Reads["load"][7] = "grant" /\ Reads["load"][8] = "meta"
    /\ Reads["load"][9] = "manifest" /\ Reads["load"][10] = "package"
    /\ Reads["load"][11] = "scenario"
    /\ Len(Reads["revoke"]) = 2 /\ Reads["revoke"][1] = "meta" /\ Reads["revoke"][2] = "grant"
<1> DEFINE cap == <<"meta", "grant", "meta", "manifest", "package">>
           bin == cap \o <<"grant">>
           cat == cap \o <<"grant">> \o <<"meta", "manifest", "package">>
           st == <<"meta", "grant">> \o cap
           lo == <<"meta">> \o cat \o <<"scenario">>
<1>1. /\ Len(bin) = 6 /\ bin[1] = "meta" /\ bin[2] = "grant" /\ bin[3] = "meta"
      /\ bin[4] = "manifest" /\ bin[5] = "package" /\ bin[6] = "grant"
    OBVIOUS
<1>2. /\ Len(cat) = 9 /\ cat[1] = "meta" /\ cat[2] = "grant" /\ cat[3] = "meta"
      /\ cat[4] = "manifest" /\ cat[5] = "package" /\ cat[6] = "grant"
      /\ cat[7] = "meta" /\ cat[8] = "manifest" /\ cat[9] = "package"
    OBVIOUS
<1>3. /\ Len(st) = 7 /\ st[1] = "meta" /\ st[2] = "grant" /\ st[3] = "meta" /\ st[4] = "grant"
      /\ st[5] = "meta" /\ st[6] = "manifest" /\ st[7] = "package"
    OBVIOUS
<1>4. /\ Len(lo) = 11 /\ lo[1] = "meta" /\ lo[2] = "meta"
      /\ lo[3] = "grant" /\ lo[4] = "meta" /\ lo[5] = "manifest"
      /\ lo[6] = "package" /\ lo[7] = "grant" /\ lo[8] = "meta"
      /\ lo[9] = "manifest" /\ lo[10] = "package"
      /\ lo[11] = "scenario"
    OBVIOUS
<1>5. Reads = [status |-> st, binding |-> bin, catalog |-> cat, load |-> lo,
               register |-> st, revoke |-> <<"meta", "grant">>]
    BY DEF Reads, Capability, Binding, Catalog
<1> HIDE DEF st, lo, bin, cat
<1> QED  BY <1>1, <1>2, <1>3, <1>4, <1>5
SlotValues == MaybePackage \cup (MaybePackage \X MaybeBase) \cup Grants \cup Metas
Slots == [package : MaybePackage, manifest : MaybePackage, scenario : MaybePackage \X MaybeBase,
          grant : Grants, meta : Metas]
CallShape == [kind : CallKinds \cup {"rest"}, stage : {"rest", "read", "write"}, at : Nat,
              got : Seq(SlotValues), pkg : MaybePackage, base : MaybeBase, frozen : BOOLEAN,
              ans : MaybePackage, was : CallKinds \cup {"rest"}, granted : SUBSET MaybePackage,
              alone : BOOLEAN, shut : BOOLEAN]

\* The kind, the stage and the fields of a call agree.
KindOk(m) ==
    /\ m.kind = "rest" <=> m.stage = "rest"
    /\ m.stage = "write" => m.kind \in Writers
    /\ m.kind # "rest" => m.ans = PackageAbsent /\ m.was = m.kind
    /\ m.was = "register" => m.pkg # PackageAbsent
    /\ m.was \in {"status", "load"} => m.pkg = PackageAbsent
    /\ m.frozen => m.kind = "catalog"
    /\ m.alone => m.was = "register"
    /\ m.shut => m.was \notin Writers

\* What a call read from a file is there; a grant it goes by was trusted while it ran.
GotOk(kind, file, v, granted) ==
    /\ file = "meta" => v \in Metas /\ v.pkg # PackageAbsent
    /\ file = "grant" => v \in Grants /\ v.pkg # PackageAbsent
    /\ file = "grant" /\ kind # "revoke" => v.pkg \in granted

ReadOk(m) ==
    m.stage = "read" =>
        /\ m.at \in 1..Len(Reads[m.kind]) /\ Len(m.got) = m.at - 1
        /\ \A i \in 1 .. m.at - 1 : GotOk(m.kind, Reads[m.kind][i], m.got[i], m.granted)

WriteOk(m) ==
    m.stage = "write" =>
        /\ m.kind = "register" => m.at \in 1..5 /\ m.got = <<>>
        /\ m.kind = "revoke" => /\ m.at \in 1..2
                                /\ GotOk("revoke", "meta", m.got[1], {})
                                /\ GotOk("revoke", "grant", m.got[2], {})

\* A call that reads knows every grant that was trusted since it began.
TrustingOk(m) ==
    m.stage = "read" /\ m.kind # "revoke" /\ packageDisk.grant.trusted => packageDisk.grant.pkg \in m.granted

RevokeOk(m) == m.kind = "revoke" /\ (m.stage = "write" \/ m.at > 1) => packageDisk.meta # NoMeta

\* What a registration wrote is there.
RegisterOk(m) ==
    m.kind = "register" =>
        /\ m.stage = "write" =>
              /\ m.at > 1 => packageDisk.package # PackageAbsent
              /\ m.at > 2 => packageDisk.manifest # PackageAbsent
              /\ m.at > 3 => packageDisk.scenario[1] # PackageAbsent
              /\ m.at > 4 => packageDisk.grant.pkg # PackageAbsent
              /\ m.at > 4 /\ packageDisk.grant.trusted => packageDisk.grant.pkg = m.pkg
        /\ m.stage = "read" => m.granted = {m.pkg}

\* What an undisturbed registration wrote is what is there.
AloneOk(m) ==
    m.kind = "register" /\ m.alone =>
        /\ m.stage = "write" =>
              /\ m.at > 1 => packageDisk.package = m.pkg
              /\ m.at > 2 => packageDisk.manifest = m.pkg
              /\ m.at > 4 => packageDisk.grant.pkg = m.pkg /\ packageDisk.grant.trusted
        /\ m.stage = "read" =>
              /\ packageDisk.package = m.pkg /\ packageDisk.manifest = m.pkg
              /\ packageDisk.grant.pkg = m.pkg /\ packageDisk.grant.trusted
              /\ packageDisk.meta.pkg = m.pkg /\ ~packageDisk.meta.revoked
              /\ \A i \in 1 .. m.at - 1 : m.got[i] = packageDisk[Reads["register"][i]]

\* A call that began after a revocation has read no grant.
ShutOk(m) ==
    m.shut => /\ barred /\ m.ans = PackageAbsent
              /\ m.stage = "read" => \A i \in 1 .. m.at - 1 : Reads[m.kind][i] # "grant"

AnswerOk(m) == m.ans # PackageAbsent => m.ans \in m.granted /\ m.pkg \in {PackageAbsent, m.ans}

AnsweredOk(m) ==
    m.was = "register" /\ m.alone /\ reachable /\ m.kind = "rest" => m.ans # PackageAbsent

CallOk(m) ==
    /\ m \in CallShape /\ KindOk(m) /\ ReadOk(m) /\ WriteOk(m)
    /\ TrustingOk(m) /\ RevokeOk(m) /\ RegisterOk(m) /\ AloneOk(m)
    /\ ShutOk(m) /\ AnswerOk(m) /\ AnsweredOk(m)

CallsOk == \A d \in Callers : \E m : packageCall[d] = m /\ CallOk(m)

\* The last file of a slot is written when the others are there.
SlotOk ==
    /\ packageDisk \in Slots
    /\ packageDisk.meta # NoMeta =>
          /\ packageDisk.package # PackageAbsent /\ packageDisk.manifest # PackageAbsent
          /\ packageDisk.scenario[1] # PackageAbsent /\ packageDisk.grant.pkg # PackageAbsent

BarredOk ==
    barred => ~packageDisk.grant.trusted /\ \A d \in Callers : packageCall[d].kind # "register"

\* One registration at a time, and one that is alone is the only decision.
SingleOk ==
    \A d, e \in Callers :
        packageCall[d].kind = "register" /\ Deciding(e)
        /\ (packageCall[e].kind = "register" \/ packageCall[d].alone) => d = e

PackageInv ==
    /\ packageCall \in [Callers -> CallShape] /\ SlotOk /\ BarredOk /\ SingleOk /\ CallsOk
-----------------------------------------------------------------------------
(* The calls an action leaves, begins and ends.                            *)

\* A call at rest.
LEMMA RestFields ==
    LET n == PackageRest(PackageAbsent)
    IN  /\ n \in CallShape /\ n.kind = "rest" /\ n.stage = "rest" /\ n.was = "rest" /\ n.at = 1
        /\ n.ans = PackageAbsent /\ n.pkg = PackageAbsent /\ ~n.alone /\ ~n.shut /\ ~n.frozen
<1>1. <<>> \in Seq(SlotValues)
    OBVIOUS
<1> QED  BY <1>1 DEF PackageRest, CallShape, CallKinds, ReadKinds, MaybePackage, MaybeBase

LEMMA RestIsOk == CallOk(PackageRest(PackageAbsent))
<1> DEFINE n == PackageRest(PackageAbsent)
<1>1. /\ n \in CallShape /\ n.kind = "rest" /\ n.stage = "rest" /\ n.was = "rest" /\ n.at = 1
      /\ n.ans = PackageAbsent /\ n.pkg = PackageAbsent /\ ~n.alone /\ ~n.shut /\ ~n.frozen
    BY RestFields
<1> HIDE DEF n
<1>2. KindOk(n) /\ ReadOk(n) /\ WriteOk(n)
    BY <1>1 DEF KindOk, ReadOk, WriteOk
<1>3. TrustingOk(n) /\ RevokeOk(n) /\ RegisterOk(n) /\ AloneOk(n)
    BY <1>1 DEF TrustingOk, RevokeOk, RegisterOk, AloneOk
<1>4. ShutOk(n) /\ AnswerOk(n) /\ AnsweredOk(n)
    BY <1>1 DEF ShutOk, AnswerOk, AnsweredOk
<1>5. CallOk(n)
    BY <1>1, <1>2, <1>3, <1>4 DEF CallOk
<1> QED  BY <1>5 DEF n

LEMMA RestStaysOk == CallOk(PackageRest(PackageAbsent))'
BY RestIsOk, PTL

\* A call that an action does not touch stays as it should be.
LEMMA SameStays ==
    ASSUME NEW m, CallOk(m), packageDisk' = packageDisk, reachable' => reachable, barred => barred'
    PROVE  CallOk(m)'
<1>1. TrustingOk(m)' /\ RevokeOk(m)'
    BY DEF CallOk, TrustingOk, RevokeOk
<1>2. RegisterOk(m)'
    BY DEF CallOk, RegisterOk
<1>3. AloneOk(m)'
    BY DEF CallOk, AloneOk
<1>4. ShutOk(m)'
    BY DEF CallOk, ShutOk
<1>5. AnsweredOk(m)'
    BY DEF CallOk, AnsweredOk
<1>6. (m \in CallShape /\ KindOk(m) /\ ReadOk(m) /\ WriteOk(m) /\ AnswerOk(m))'
    BY DEF CallOk, KindOk, ReadOk, WriteOk, AnswerOk
<1> QED  BY <1>1, <1>2, <1>3, <1>4, <1>5, <1>6 DEF CallOk

\* A call that a decision disturbs.
LEMMA DisturbedStays ==
    ASSUME NEW m, CallOk(m), packageDisk' = packageDisk, reachable' = reachable,
           NEW a \in BOOLEAN, ~a, NEW s \in BOOLEAN, s => m.shut /\ barred'
    PROVE  CallOk([m EXCEPT !.alone = a, !.shut = s])'
<1> DEFINE n == [m EXCEPT !.alone = a, !.shut = s]
<1>0. m \in CallShape
    BY DEF CallOk
<1>1. /\ n \in CallShape /\ n.kind = m.kind /\ n.stage = m.stage /\ n.at = m.at /\ n.got = m.got
      /\ n.pkg = m.pkg /\ n.base = m.base /\ n.frozen = m.frozen /\ n.ans = m.ans /\ n.was = m.was
      /\ n.granted = m.granted /\ n.alone = a /\ n.shut = s
    BY <1>0 DEF CallShape
<1> HIDE DEF n
<1>2. KindOk(n)' /\ WriteOk(n)' /\ AnswerOk(n)'
    BY <1>1 DEF CallOk, KindOk, WriteOk, AnswerOk
<1>3. ReadOk(n)'
    BY <1>1 DEF CallOk, ReadOk
<1>4. TrustingOk(n)' /\ RevokeOk(n)'
    BY <1>1 DEF CallOk, TrustingOk, RevokeOk
<1>5. RegisterOk(n)'
    BY <1>1 DEF CallOk, RegisterOk
<1>6. AloneOk(n)' /\ AnsweredOk(n)'
    BY <1>1 DEF AloneOk, AnsweredOk
<1>7. ShutOk(n)'
    BY <1>1 DEF CallOk, ShutOk
<1>8. CallOk(n)'
    BY <1>1, <1>2, <1>3, <1>4, <1>5, <1>6, <1>7 DEF CallOk
<1> QED  BY <1>8 DEF n

\* A call that begins.
LEMMA BeginFields ==
    ASSUME PackageInv, NEW kind \in CallKinds, NEW stage \in {"read", "write"}, NEW pkg \in MaybePackage,
           NEW base \in MaybeBase, NEW fixed \in BOOLEAN
    PROVE  LET n == Call(kind, stage, pkg, base, fixed)
           IN  /\ n \in CallShape /\ n.kind = kind /\ n.stage = stage /\ n.at = 1 /\ n.got = <<>>
               /\ n.pkg = pkg /\ n.frozen = fixed /\ n.ans = PackageAbsent /\ n.was = kind
               /\ kind \notin Writers => n.granted = Granted
               /\ n.alone <=> kind = "register" /\ ~\E d \in Callers : Deciding(d)
               /\ n.shut <=> barred /\ kind \notin Writers
<1> DEFINE g == IF kind \in Writers THEN {} ELSE Granted
           a == kind = "register" /\ ~\E d \in Callers : Deciding(d)
           s == barred /\ kind \notin Writers
           n == Call(kind, stage, pkg, base, fixed)
<1>1. packageDisk.grant.pkg \in MaybePackage
    BY DEF PackageInv, SlotOk, Slots, Grants
<1>2. g \in SUBSET MaybePackage /\ a \in BOOLEAN /\ s \in BOOLEAN /\ <<>> \in Seq(SlotValues)
    BY <1>1 DEF Granted
<1>3. kind \notin Writers => g = Granted
    OBVIOUS
<1>4. n = [kind |-> kind, stage |-> stage, at |-> 1, got |-> <<>>, pkg |-> pkg, base |-> base,
           frozen |-> fixed, ans |-> PackageAbsent, was |-> kind, granted |-> g, alone |-> a, shut |-> s]
    BY DEF Call
<1> HIDE DEF g
<1>5. PICK x \in BOOLEAN, y \in BOOLEAN : x = a /\ y = s
    BY <1>2
<1> HIDE DEF a, s
<1>6. n = [kind |-> kind, stage |-> stage, at |-> 1, got |-> <<>>, pkg |-> pkg, base |-> base,
           frozen |-> fixed, ans |-> PackageAbsent, was |-> kind, granted |-> g, alone |-> x, shut |-> y]
    BY <1>4, <1>5
<1> HIDE DEF n
<1>7. /\ n \in CallShape /\ n.kind = kind /\ n.stage = stage /\ n.at = 1 /\ n.got = <<>>
      /\ n.pkg = pkg /\ n.frozen = fixed /\ n.ans = PackageAbsent /\ n.was = kind
      /\ n.granted = g /\ n.alone = x /\ n.shut = y
    BY <1>2, <1>6 DEF CallShape, MaybePackage
<1>8. (n.alone <=> a) /\ (n.shut <=> s)
    BY <1>5, <1>7
<1> QED  BY <1>3, <1>7, <1>8 DEF n, a, s
\* A call that begins is as its kind says.
LEMMA BeginIsOk ==
    ASSUME PackageInv, packageDisk' = packageDisk,
           NEW kind \in CallKinds, NEW stage \in {"read", "write"}, NEW pkg \in MaybePackage,
           NEW base \in MaybeBase, NEW fixed \in BOOLEAN,
           kind = "register" => pkg # PackageAbsent,
           stage = "write" <=> kind = "register",
           kind \in {"status", "load"} => pkg = PackageAbsent,
           fixed => kind = "catalog",
           kind \notin Writers => barred' = barred,
           NEW n, n = Call(kind, stage, pkg, base, fixed)
    PROVE  CallOk(n)'
<1>1. /\ n \in CallShape /\ n.kind = kind /\ n.stage = stage /\ n.at = 1 /\ n.got = <<>>
      /\ n.pkg = pkg /\ n.frozen = fixed /\ n.ans = PackageAbsent /\ n.was = kind
      /\ kind \notin Writers => n.granted = Granted
      /\ n.alone <=> kind = "register" /\ ~\E d \in Callers : Deciding(d)
      /\ n.shut <=> barred /\ kind \notin Writers
    BY BeginFields
<1>2. 1 \in 1..Len(Reads[kind])
    BY ReadsAre DEF CallKinds, ReadKinds
<1>3. KindOk(n)' /\ AnswerOk(n)'
    BY <1>1 DEF KindOk, AnswerOk, Writers, CallKinds, ReadKinds
<1>4. ReadOk(n)'
    BY <1>1, <1>2 DEF ReadOk
<1>5. WriteOk(n)'
    BY <1>1 DEF WriteOk
<1>6. TrustingOk(n)' /\ RevokeOk(n)' /\ RegisterOk(n)' /\ AloneOk(n)'
    BY <1>1 DEF TrustingOk, RevokeOk, RegisterOk, AloneOk, Granted, Writers
<1>7. ShutOk(n)' /\ AnsweredOk(n)'
    BY <1>1 DEF ShutOk, AnsweredOk, CallKinds, ReadKinds
<1> QED  BY <1>1, <1>3, <1>4, <1>5, <1>6, <1>7 DEF CallOk

\* The decisions that are under way are among the calls.
LEMMA CallsAre ==
    ASSUME PackageInv, NEW d \in Callers
    PROVE  \E m \in CallShape : packageCall[d] = m /\ CallOk(m)
BY DEF PackageInv, CallsOk, CallOk

\* Each way a call begins, and each disturbance: a registration, a death, a
\* question, a swap, a revocation.
LEMMA RegisterKeepsPackages ==
    ASSUME PackageInv, NEW c \in Callers, NEW p \in Packages, NEW q \in Packages, NEW b \in Bases,
           Register(c, p, q, b)
    PROVE  PackageInv'
<1>0. CASE p # q
    <2>1. UNCHANGED <<packageDisk, packageCall, reachable, barred>>
        BY <1>0 DEF Register
    <2>2. CallsOk'
        <3> SUFFICES ASSUME NEW d \in Callers
                     PROVE  \E m : packageCall'[d] = m /\ CallOk(m)'
            BY DEF CallsOk
        <3>1. PICK m : packageCall[d] = m /\ CallOk(m)
            BY DEF PackageInv, CallsOk
        <3> QED  BY <2>1, <3>1, SameStays
    <2> QED  BY <2>1, <2>2 DEF PackageInv, SlotOk, BarredOk, SingleOk, Deciding
<1>1. CASE p = q
    <2>1. PICK n : n = Call("register", "write", p, b, FALSE)
        OBVIOUS
    <2>2. /\ packageCall' = Disturbed(c, n) /\ barred' = FALSE
          /\ packageDisk' = packageDisk /\ reachable' = reachable
          /\ packageCall[c].kind = "rest" /\ \A d \in Callers : packageCall[d].kind # "register"
        BY <1>1, <2>1 DEF Register
    <2>3. /\ n \in CallShape /\ n.kind = "register" /\ (n.alone => ~\E d \in Callers : Deciding(d))
        <3>1. p \in MaybePackage /\ b \in MaybeBase
            BY DEF MaybePackage, MaybeBase
        <3>2. PICK kind \in CallKinds, stage \in {"read", "write"}, fixed \in BOOLEAN :
                  kind = "register" /\ stage = "write" /\ ~fixed
            BY DEF CallKinds, ReadKinds
        <3>3. n = Call(kind, stage, p, b, fixed)
            BY <2>1, <3>2
        <3>4. n \in CallShape /\ n.kind = kind /\ (n.alone <=> kind = "register" /\ ~\E d \in Callers : Deciding(d))
            BY <3>1, <3>3, BeginFields
        <3> QED  BY <3>2, <3>4
    <2>4. CallOk(n)'
        <3>1. p # PackageAbsent /\ p \in MaybePackage /\ b \in MaybeBase
            BY LocalPackagesAssumption DEF MaybePackage, MaybeBase
        <3>2. "register" \in CallKinds /\ "register" \in Writers
            BY DEF CallKinds, ReadKinds, Writers
        <3> QED  BY <2>1, <2>2, <3>1, <3>2, BeginIsOk
    <2>5. ASSUME NEW d \in Callers, d # c, NEW m \in CallShape, packageCall[d] = m, CallOk(m)
          PROVE  \E k \in CallShape : packageCall'[d] = k /\ CallOk(k)' /\ k.kind = m.kind /\ ~k.alone
        <3>1. PICK a \in BOOLEAN, s \in BOOLEAN : ~a /\ ~s
            OBVIOUS
        <3>2. packageCall'[d] = [m EXCEPT !.alone = a, !.shut = s]
            <4>1. packageCall'[d] = [m EXCEPT !.alone = FALSE, !.shut = @ /\ n.kind # "register"]
                BY <2>2, <2>5 DEF Disturbed
            <4>2. a = FALSE /\ s = (m.shut /\ n.kind # "register")
                BY <2>3, <3>1
            <4> QED  BY <4>1, <4>2
        <3>3. CallOk([m EXCEPT !.alone = a, !.shut = s])'
            BY <2>2, <2>5, <3>1, DisturbedStays
        <3>4. PICK k : k = [m EXCEPT !.alone = a, !.shut = s]
            OBVIOUS
        <3>5. k \in CallShape /\ k.kind = m.kind /\ ~k.alone
            BY <3>1, <3>4 DEF CallShape
        <3> QED  BY <3>2, <3>3, <3>4, <3>5
    <2>6. packageCall'[c] = n
        BY <2>2 DEF Disturbed
    <2>7. CallsOk'
        BY <2>4, <2>5, <2>6, CallsAre DEF CallsOk
    <2>8. \A d \in Callers : packageCall'[d] \in CallShape
        BY <2>3, <2>5, <2>6, CallsAre
    <2>9. packageCall' \in [Callers -> CallShape]
        BY <2>2, <2>8 DEF Disturbed
    <2>10. \A d \in Callers \ {c} : packageCall'[d].kind = packageCall[d].kind /\ ~packageCall'[d].alone
        BY <2>5, CallsAre
    <2>11. SingleOk'
        <3> SUFFICES ASSUME NEW d \in Callers, NEW e \in Callers, packageCall'[d].kind = "register",
                            \/ packageCall'[e].kind = "register"
                            \/ packageCall'[d].alone /\ Deciding(e)'
                     PROVE  d = e
            BY DEF SingleOk
        <3>1. d = c
            BY <2>2, <2>10
        <3>2. CASE packageCall'[e].kind = "register"
            BY <2>2, <2>10, <3>1, <3>2
        <3>3. CASE packageCall'[d].alone /\ Deciding(e)'
            BY <2>3, <2>6, <2>10, <3>1, <3>3 DEF Deciding
        <3> QED  BY <3>2, <3>3
    <2> QED  BY <2>2, <2>7, <2>9, <2>11 DEF PackageInv, SlotOk, BarredOk
<1> QED  BY <1>0, <1>1
\* An action that replaces one call, which does not begin a decision.
LEMMA OneCallChanges ==
    ASSUME PackageInv, NEW c \in Callers, NEW n \in CallShape, packageCall' = [packageCall EXCEPT ![c] = n],
           CallOk(n)', packageDisk' = packageDisk, reachable' => reachable, barred' = barred,
           n.kind \in Writers => n.kind = packageCall[c].kind /\ (n.alone => packageCall[c].alone)
    PROVE  PackageInv'
<1>1. packageCall \in [Callers -> CallShape]
    BY DEF PackageInv
<1>2. packageCall' \in [Callers -> CallShape]
    BY <1>1
<1>3. \A d \in Callers : packageCall'[d] = IF d = c THEN n ELSE packageCall[d]
    BY <1>1
<1>4. CallsOk'
    <2> SUFFICES ASSUME NEW d \in Callers
                 PROVE  \E m : packageCall'[d] = m /\ CallOk(m)'
        BY DEF CallsOk
    <2>1. CASE d = c
        BY <1>3, <2>1
    <2>2. CASE d # c
        <3>1. PICK m : packageCall[d] = m /\ CallOk(m)
            BY DEF PackageInv, CallsOk
        <3>2. CallOk(m)'
            BY <3>1, SameStays
        <3> QED  BY <1>3, <2>2, <3>1, <3>2
    <2> QED  BY <2>1, <2>2
<1>5. BarredOk'
    <2> SUFFICES ASSUME barred'
                 PROVE  ~packageDisk.grant.trusted /\ \A d \in Callers : packageCall'[d].kind # "register"
        BY DEF BarredOk
    <2>1. ~packageDisk.grant.trusted /\ \A d \in Callers : packageCall[d].kind # "register"
        BY DEF PackageInv, BarredOk
    <2> QED  BY <1>3, <2>1 DEF Writers
<1>6. SingleOk'
    <2>1. \A d \in Callers : packageCall'[d].kind \in Writers =>
              packageCall'[d].kind = packageCall[d].kind /\ (packageCall'[d].alone => packageCall[d].alone)
        BY <1>3
    <2> QED  BY <2>1 DEF PackageInv, SingleOk, Deciding, Writers
<1> QED  BY <1>2, <1>4, <1>5, <1>6 DEF PackageInv, SlotOk

LEMMA DieKeepsPackages ==
    ASSUME PackageInv, NEW c \in Callers, Die(c) \/ Forget(c)
    PROVE  PackageInv'
<1>1. PICK n : n = PackageRest(PackageAbsent)
    OBVIOUS
<1>2. n \in CallShape /\ n.kind = "rest"
    BY <1>1, RestFields
<1>3. CallOk(n)'
    BY <1>1, RestStaysOk DEF PackageRest
<1>4. packageCall' = [packageCall EXCEPT ![c] = n] /\ packageDisk' = packageDisk
      /\ reachable' = reachable /\ barred' = barred
    BY <1>1 DEF Die, Forget
<1> QED  BY <1>2, <1>3, <1>4, OneCallChanges DEF Writers

LEMMA AskKeepsPackages ==
    ASSUME PackageInv, NEW c \in Callers, NEW kind \in Asks, NEW want \in MaybePackage, NEW fixed \in BOOLEAN,
           PackageAsk(c, kind, want, fixed)
    PROVE  PackageInv'
<1>0. PICK stage \in {"read", "write"}, base \in MaybeBase : stage = "read" /\ base = PackageAbsent
    BY DEF MaybeBase
<1> PICK n : n = Call(kind, stage, want, base, fixed)
    OBVIOUS
<1>1. n = Call(kind, stage, want, base, fixed) /\ stage = "read" /\ base = PackageAbsent
    BY <1>0
<1>2. kind \in CallKinds /\ kind \notin Writers /\ kind # "register"
    BY LocalPackagesAssumption DEF CallKinds, ReadKinds, Writers
<1>3. n \in CallShape /\ n.kind = kind
    BY <1>1, <1>2, BeginFields
<1>4. /\ packageCall' = [packageCall EXCEPT ![c] = n] /\ packageDisk' = packageDisk
      /\ reachable' = reachable /\ barred' = barred
      /\ kind \in {"status", "load"} => want = PackageAbsent
      /\ fixed => kind = "catalog"
    BY <1>1 DEF PackageAsk
<1>5. CallOk(n)'
    BY <1>1, <1>2, <1>4, BeginIsOk
<1> QED  BY <1>2, <1>3, <1>4, <1>5, OneCallChanges

LEMMA SwapKeepsPackages ==
    ASSUME PackageInv, Swap \/ UNCHANGED packageVars
    PROVE  PackageInv'
<1>1. packageCall' = packageCall /\ packageDisk' = packageDisk /\ (reachable' => reachable) /\ barred' = barred
    BY DEF Swap, packageVars
<1>2. CallsOk'
    <2> SUFFICES ASSUME NEW d \in Callers
                 PROVE  \E m : packageCall'[d] = m /\ CallOk(m)'
        BY DEF CallsOk
    <2>1. PICK m : packageCall[d] = m /\ CallOk(m)
        BY DEF PackageInv, CallsOk
    <2> QED  BY <1>1, <2>1, SameStays
<1> QED  BY <1>1, <1>2 DEF PackageInv, SlotOk, BarredOk, SingleOk, Deciding

LEMMA RevokeKeepsPackages ==
    ASSUME PackageInv, NEW c \in Callers, Revoke(c)
    PROVE  PackageInv'
<1>0. PICK kind \in CallKinds, stage \in {"read", "write"}, pkg \in MaybePackage, base \in MaybeBase,
            fixed \in BOOLEAN :
          kind = "revoke" /\ stage = "read" /\ pkg = PackageAbsent /\ base = PackageAbsent /\ ~fixed
    BY DEF CallKinds, ReadKinds, MaybePackage, MaybeBase
<1> PICK n : n = Call(kind, stage, pkg, base, fixed)
    OBVIOUS
<1>1. /\ kind = "revoke" /\ stage = "read" /\ pkg = PackageAbsent /\ base = PackageAbsent /\ ~fixed
      /\ n = Call(kind, stage, pkg, base, fixed)
    BY <1>0
<1>2. /\ packageCall' = Disturbed(c, n) /\ barred' = barred
      /\ packageDisk' = packageDisk /\ reachable' = reachable /\ packageCall[c].kind = "rest"
    <2>1. fixed = FALSE
        BY <1>1
    <2> QED  BY <1>1, <2>1 DEF Revoke
<1>3. n \in CallShape /\ n.kind = "revoke"
    BY <1>1, BeginFields
<1>4. CallOk(n)'
    BY <1>1, <1>2, BeginIsOk DEF Writers
<1>5. ASSUME NEW d \in Callers, d # c, NEW m \in CallShape, packageCall[d] = m, CallOk(m)
      PROVE  \E k \in CallShape : packageCall'[d] = k /\ CallOk(k)' /\ k.kind = m.kind /\ ~k.alone
    <2>1. PICK a \in BOOLEAN, s \in BOOLEAN : ~a /\ (s <=> m.shut)
        OBVIOUS
    <2>2. packageCall'[d] = [m EXCEPT !.alone = a, !.shut = s]
        <3>1. packageCall'[d] = [m EXCEPT !.alone = FALSE, !.shut = @ /\ n.kind # "register"]
            BY <1>2, <1>5 DEF Disturbed
        <3>2. a = FALSE /\ s = (m.shut /\ n.kind # "register")
            BY <1>3, <2>1
        <3> QED  BY <3>1, <3>2
    <2>3. s => m.shut /\ barred'
        BY <1>2, <1>5, <2>1 DEF CallOk, ShutOk
    <2>4. CallOk([m EXCEPT !.alone = a, !.shut = s])'
        BY <1>2, <1>5, <2>1, <2>3, DisturbedStays
    <2>5. PICK k : k = [m EXCEPT !.alone = a, !.shut = s]
        OBVIOUS
    <2>6. k \in CallShape /\ k.kind = m.kind /\ ~k.alone
        BY <2>1, <2>5 DEF CallShape
    <2> QED  BY <2>2, <2>4, <2>5, <2>6
<1>6. packageCall'[c] = n
    BY <1>2 DEF Disturbed
<1>7. CallsOk'
    BY <1>4, <1>5, <1>6, CallsAre DEF CallsOk
<1>8. \A d \in Callers : packageCall'[d] \in CallShape
    BY <1>3, <1>5, <1>6, CallsAre
<1>9. packageCall' \in [Callers -> CallShape]
    BY <1>2, <1>8 DEF Disturbed
<1>10. \A d \in Callers \ {c} : packageCall'[d].kind = packageCall[d].kind /\ ~packageCall'[d].alone
    BY <1>5, CallsAre
<1>11. SingleOk'
    <2>1. \A d \in Callers : packageCall'[d].kind = "register" =>
              packageCall[d].kind = "register" /\ d # c /\ ~packageCall'[d].alone
        BY <1>3, <1>6, <1>10
    <2> QED  BY <2>1 DEF PackageInv, SingleOk, Deciding, Writers
<1>12. BarredOk'
    BY <1>2, <1>3, <1>6, <1>10 DEF PackageInv, BarredOk
<1> QED  BY <1>2, <1>7, <1>9, <1>11, <1>12 DEF PackageInv, SlotOk
-----------------------------------------------------------------------------
(* Reading: a call ends, goes on, or hands out what it found.              *)

\* A call that ends rests with an answer its reads bear.
LEMMA EndIsOk ==
    ASSUME NEW m, CallOk(m), m.stage # "rest", m.kind # "revoke", barred' = barred,
           NEW ans \in MaybePackage,
           ans # PackageAbsent => ans \in m.granted /\ m.pkg \in {PackageAbsent, ans} /\ ~m.shut,
           m.kind = "register" /\ m.alone /\ reachable' => ans # PackageAbsent,
           NEW n, n = [PackageRest(ans) EXCEPT !.was = m.kind, !.pkg = m.pkg, !.granted = m.granted,
                                               !.alone = m.alone, !.shut = m.shut]
    PROVE  n \in CallShape /\ n.kind = "rest" /\ CallOk(n)'
<1>0. m \in CallShape /\ KindOk(m) /\ ShutOk(m)
    BY DEF CallOk
<1>1. /\ n \in CallShape /\ n.kind = "rest" /\ n.stage = "rest" /\ n.was = m.kind /\ n.at = 1
      /\ n.ans = ans /\ n.pkg = m.pkg /\ n.granted = m.granted /\ n.alone = m.alone /\ n.shut = m.shut
      /\ ~n.frozen
    <2>1. <<>> \in Seq(SlotValues)
        OBVIOUS
    <2> QED  BY <1>0, <2>1 DEF PackageRest, CallShape, CallKinds, ReadKinds, MaybePackage, MaybeBase
<1>2. KindOk(n)'
    BY <1>0, <1>1 DEF KindOk
<1>3. ReadOk(n)' /\ WriteOk(n)' /\ TrustingOk(n)' /\ RevokeOk(n)' /\ RegisterOk(n)' /\ AloneOk(n)'
    BY <1>1 DEF ReadOk, WriteOk, TrustingOk, RevokeOk, RegisterOk, AloneOk
<1>4. ShutOk(n)' /\ AnswerOk(n)' /\ AnsweredOk(n)'
    BY <1>0, <1>1 DEF ShutOk, AnswerOk, AnsweredOk
<1> QED  BY <1>1, <1>2, <1>3, <1>4 DEF CallOk

\* How a call ends.
LEMMA EndKeepsPackages ==
    ASSUME PackageInv, NEW c \in Callers, NEW m, packageCall[c] = m, CallOk(m), m.stage # "rest",
           UNCHANGED <<packageDisk, reachable, barred>>, NEW ans \in MaybePackage,
           packageCall' = PackageEnd(c, ans),
           m.kind # "revoke" /\ ans # PackageAbsent =>
               ans \in m.granted /\ m.pkg \in {PackageAbsent, ans} /\ ~m.shut,
           m.kind = "register" /\ m.alone /\ reachable => ans # PackageAbsent
    PROVE  PackageInv'
<1>1. CASE m.kind = "revoke"
    <2>1. PICK n : n = PackageRest(PackageAbsent)
        OBVIOUS
    <2>2. n \in CallShape /\ n.kind = "rest"
        BY <2>1, RestFields
    <2>3. CallOk(n)'
        BY <2>1, RestStaysOk DEF PackageRest
    <2>4. packageCall' = [packageCall EXCEPT ![c] = n]
        BY <1>1, <2>1 DEF PackageEnd
    <2> QED  BY <2>2, <2>3, <2>4, OneCallChanges DEF Writers
<1>2. CASE m.kind # "revoke"
    <2>1. PICK n : n = [PackageRest(ans) EXCEPT !.was = m.kind, !.pkg = m.pkg, !.granted = m.granted,
                                                !.alone = m.alone, !.shut = m.shut]
        OBVIOUS
    <2>2. n \in CallShape /\ n.kind = "rest" /\ CallOk(n)'
        BY <1>2, <2>1, EndIsOk
    <2>3. packageCall' = [packageCall EXCEPT ![c] = n]
        BY <1>2, <2>1 DEF PackageEnd
    <2> QED  BY <2>2, <2>3, OneCallChanges DEF Writers
<1> QED  BY <1>1, <1>2

\* A call reads one of the files of the slot.
LEMMA FilesAre ==
    ASSUME NEW kind \in CallKinds, NEW i \in 1..Len(Reads[kind])
    PROVE  /\ Reads[kind][i] \in SlotFiles
           /\ kind = "register" => Reads[kind][i] # "scenario"
           /\ kind = "revoke" /\ i = 1 => Reads[kind][i] = "meta"
<1>1. CASE kind \in {"status", "register"}
    <2>1. /\ Reads[kind][1] = "meta" /\ Reads[kind][2] = "grant" /\ Reads[kind][3] = "meta"
          /\ Reads[kind][4] = "grant" /\ Reads[kind][5] = "meta" /\ Reads[kind][6] = "manifest"
          /\ Reads[kind][7] = "package" /\ Len(Reads[kind]) = 7
        BY <1>1, ReadsAre
    <2>2. i \in {1, 2, 3, 4, 5, 6, 7}
        BY <2>1
    <2> QED  BY <1>1, <2>1, <2>2 DEF SlotFiles
<1>2. CASE kind = "binding"
    <2>1. i \in 1..6
        BY <1>2, ReadsAre
    <2> QED  BY <1>2, <2>1, ReadsAre DEF SlotFiles
<1>3. CASE kind = "catalog"
    <2>1. i \in 1..9
        BY <1>3, ReadsAre
    <2> QED  BY <1>3, <2>1, ReadsAre DEF SlotFiles
<1>4. CASE kind = "load"
    <2>1. i \in 1..11
        BY <1>4, ReadsAre
    <2>2. i \in {1, 2, 3, 4, 5, 6} \/ i \in {7, 8, 9, 10, 11}
        BY <2>1
    <2>3. CASE i \in {1, 2, 3, 4, 5, 6}
        BY <1>4, <2>3, ReadsAre DEF SlotFiles
    <2>4. CASE i \in {7, 8, 9, 10, 11}
        BY <1>4, <2>4, ReadsAre DEF SlotFiles
    <2> QED  BY <2>2, <2>3, <2>4
<1>5. CASE kind = "revoke"
    <2>1. i \in 1..2
        BY <1>5, ReadsAre
    <2> QED  BY <1>5, <2>1, ReadsAre DEF SlotFiles
<1> QED  BY <1>1, <1>2, <1>3, <1>4, <1>5 DEF CallKinds, ReadKinds

\* What each file of the slot may hold.
LEMMA SlotFilesAre ==
    ASSUME SlotOk, NEW file \in SlotFiles
    PROVE  /\ packageDisk[file] \in SlotValues
           /\ file = "meta" => packageDisk[file] = packageDisk.meta /\ packageDisk[file] \in Metas
           /\ file = "grant" => packageDisk[file] = packageDisk.grant /\ packageDisk[file] \in Grants
           /\ file = "package" => packageDisk[file] = packageDisk.package
           /\ file = "manifest" => packageDisk[file] = packageDisk.manifest
<1>1. /\ packageDisk.package \in MaybePackage /\ packageDisk.manifest \in MaybePackage
      /\ packageDisk.scenario \in MaybePackage \X MaybeBase /\ packageDisk.grant \in Grants
      /\ packageDisk.meta \in Metas
    BY DEF SlotOk, Slots
<1> QED  BY <1>1 DEF SlotValues, SlotFiles

\* What a read that goes on found.
LEMMA ReadGets ==
    ASSUME PackageInv, NEW m, CallOk(m), m.stage = "read",
           NEW file, file = Reads[m.kind][m.at], NEW v, v = packageDisk[file],
           ~IsAbsent(file, v), Trusts(m, file, v)
    PROVE  /\ GotOk(m.kind, file, v, m.granted) /\ v \in SlotValues
           /\ m.shut => file # "grant"
           /\ m.kind = "revoke" => packageDisk.meta # NoMeta
<1>1. /\ m \in CallShape /\ KindOk(m) /\ ReadOk(m) /\ TrustingOk(m) /\ RevokeOk(m) /\ ShutOk(m)
      /\ SlotOk /\ BarredOk
    BY DEF CallOk, PackageInv
<1>2. m.kind \in CallKinds /\ m.at \in 1..Len(Reads[m.kind])
    BY <1>1 DEF CallShape, KindOk, ReadOk
<1>3. file \in SlotFiles /\ (m.kind = "revoke" /\ m.at = 1 => file = "meta")
    BY <1>2, FilesAre
<1>4. /\ v \in SlotValues
      /\ file = "meta" => v = packageDisk.meta /\ v \in Metas
      /\ file = "grant" => v = packageDisk.grant /\ v \in Grants
    BY <1>1, <1>3, SlotFilesAre
<1>5. file \in {"meta", "grant"} => v.pkg # PackageAbsent
    BY DEF IsAbsent
<1>6. m.kind # "revoke" /\ file = "grant" => v.trusted
    BY DEF Trusts
<1>7. GotOk(m.kind, file, v, m.granted)
    BY <1>1, <1>4, <1>5, <1>6 DEF GotOk, TrustingOk
<1>8. m.shut => file # "grant"
    BY <1>1, <1>4, <1>6 DEF ShutOk, BarredOk, KindOk, Writers
<1>9. m.kind = "revoke" => packageDisk.meta # NoMeta
    <2>1. m.at \in Nat
        BY <1>1 DEF CallShape
    <2>2. CASE m.at > 1
        BY <1>1, <2>2 DEF RevokeOk
    <2>3. CASE m.at = 1
        BY <1>3, <1>4, <1>5, <2>3 DEF NoMeta
    <2>4. m.at >= 1
        <3>1. m.at \in 1..Len(Reads[m.kind])
            BY <1>2
        <3> QED  BY <2>1, <3>1
    <2> QED  BY <2>1, <2>2, <2>3, <2>4
<1> QED  BY <1>4, <1>7, <1>8, <1>9
\* What a call has read when a read goes on.
LEMMA ReadMore ==
    ASSUME PackageInv, NEW m, CallOk(m), m.stage = "read",
           NEW file, file = Reads[m.kind][m.at], NEW v, v = packageDisk[file],
           ~IsAbsent(file, v), Trusts(m, file, v), NEW w, w = Append(m.got, v)
    PROVE  /\ w \in Seq(SlotValues) /\ Len(w) = m.at
           /\ \A i \in 1..m.at : GotOk(m.kind, Reads[m.kind][i], w[i], m.granted)
           /\ m.shut => \A i \in 1..m.at : Reads[m.kind][i] # "grant"
           /\ m.kind = "register" /\ m.alone =>
                  \A i \in 1..m.at : w[i] = packageDisk[Reads["register"][i]]
           /\ m.kind = "revoke" => packageDisk.meta # NoMeta
<1>1. /\ GotOk(m.kind, file, v, m.granted) /\ v \in SlotValues
      /\ m.shut => file # "grant"
      /\ m.kind = "revoke" => packageDisk.meta # NoMeta
    BY ReadGets
<1>2. /\ m.at \in Nat /\ m.at \in 1..Len(Reads[m.kind]) /\ Len(m.got) = m.at - 1
      /\ m.got \in Seq(SlotValues)
      /\ \A i \in 1 .. m.at - 1 : GotOk(m.kind, Reads[m.kind][i], m.got[i], m.granted)
    BY DEF CallOk, CallShape, ReadOk
<1>3. m.at >= 1
    <2>1. m.at \in 1..Len(Reads[m.kind])
        BY <1>2
    <2> QED  BY <1>2, <2>1
<1>4. /\ w \in Seq(SlotValues) /\ Len(w) = Len(m.got) + 1 /\ w[Len(m.got) + 1] = v
      /\ \A i \in 1..Len(m.got) : w[i] = m.got[i]
    BY <1>1, <1>2, AppendProperties
<1>5. /\ Len(w) = m.at /\ w[m.at] = v
      /\ \A i \in 1 .. m.at - 1 : w[i] = m.got[i]
    BY <1>2, <1>3, <1>4
<1>6. \A i \in 1..m.at : i = m.at \/ i \in 1 .. m.at - 1
    BY <1>2, <1>3
<1>7. \A i \in 1..m.at : GotOk(m.kind, Reads[m.kind][i], w[i], m.granted)
    BY <1>1, <1>2, <1>5, <1>6
<1>8. m.shut => \A i \in 1..m.at : Reads[m.kind][i] # "grant"
    BY <1>1, <1>6 DEF CallOk, ShutOk
<1>9. m.kind = "register" /\ m.alone => \A i \in 1..m.at : w[i] = packageDisk[Reads["register"][i]]
    BY <1>5, <1>6 DEF CallOk, AloneOk
<1> QED  BY <1>1, <1>4, <1>5, <1>7, <1>8, <1>9

\* A registration that is alone finds what it wrote.
LEMMA AloneFinds ==
    ASSUME PackageInv, NEW m, CallOk(m), m.stage = "read", m.kind = "register", m.alone,
           NEW file, file = Reads[m.kind][m.at], NEW v, v = packageDisk[file]
    PROVE  ~IsAbsent(file, v) /\ Trusts(m, file, v)
<1>1. m \in CallShape /\ m.at \in 1..Len(Reads[m.kind]) /\ m.kind \in CallKinds
    BY DEF CallOk, CallShape, ReadOk, CallKinds, ReadKinds
<1>2. file \in SlotFiles /\ file # "scenario"
    BY <1>1, FilesAre
<1>3. /\ packageDisk.package = m.pkg /\ packageDisk.manifest = m.pkg
      /\ packageDisk.grant.pkg = m.pkg /\ packageDisk.grant.trusted
      /\ packageDisk.meta.pkg = m.pkg /\ ~packageDisk.meta.revoked /\ m.pkg # PackageAbsent
    BY DEF CallOk, AloneOk, KindOk
<1>4. /\ file = "meta" => v = packageDisk.meta
      /\ file = "grant" => v = packageDisk.grant
      /\ file = "package" => v = packageDisk.package
      /\ file = "manifest" => v = packageDisk.manifest
    BY <1>2, SlotFilesAre DEF PackageInv
<1>5. ~IsAbsent(file, v)
    BY <1>2, <1>3, <1>4 DEF IsAbsent, SlotFiles
<1>6. Trusts(m, file, v)
    BY <1>3, <1>4 DEF Trusts
<1> QED  BY <1>5, <1>6

\* A call that read all its files and hands out what it found.
LEMMA HandsGranted ==
    ASSUME NEW k, k.kind \in ReadKinds, NEW granted, Len(k.got) = Len(Reads[k.kind]),
           \A i \in 1..Len(k.got) : GotOk(k.kind, Reads[k.kind][i], k.got[i], granted),
           k.frozen => k.kind = "catalog", k.kind \in {"status", "load"} => k.pkg = PackageAbsent,
           k.kind = "register" => granted = {k.pkg}, Verdict(k)
    PROVE  Handed(k) \in granted /\ k.pkg \in {PackageAbsent, Handed(k)}
<1>1. CASE k.kind \in {"status", "register"}
    <2>1. First(k) = 2 /\ Len(k.got) = 7 /\ Reads[k.kind][4] = "grant"
        BY <1>1, ReadsAre DEF First
    <2>2. k.got[4].pkg \in granted
        BY <1>1, <2>1 DEF GotOk
    <2>3. k.got[4].pkg = k.got[6] /\ k.got[6] = k.got[7]
        BY <2>1 DEF Verdict, CapabilityOk
    <2>4. Handed(k) = k.got[7]
        BY <1>1, <2>1 DEF Handed
    <2> QED  BY <1>1, <2>2, <2>3, <2>4
<1>2. CASE k.kind = "binding"
    <2>1. First(k) = 0 /\ Len(k.got) = 6 /\ Reads[k.kind][2] = "grant"
        BY <1>2, ReadsAre DEF First
    <2>2. k.got[2].pkg \in granted
        BY <1>2, <2>1 DEF GotOk
    <2>3. k.got[2].pkg = k.got[4] /\ k.got[4] = k.got[5]
        BY <2>1 DEF Verdict, CapabilityOk
    <2>4. Handed(k) = k.got[5]
        BY <1>2, <2>1 DEF Handed
    <2>5. k.pkg \in {PackageAbsent, k.got[4]}
        BY <1>2, <2>1 DEF Verdict, SelectOk
    <2> QED  BY <2>2, <2>3, <2>4, <2>5
<1>3. CASE k.kind = "catalog"
    <2>1. First(k) = 0 /\ Len(k.got) = 9 /\ Reads[k.kind][6] = "grant"
        BY <1>3, ReadsAre DEF First
    <2>2. k.got[6].pkg \in granted
        BY <1>3, <2>1 DEF GotOk
    <2>3. k.got[6].pkg = k.got[4] /\ k.pkg \in {PackageAbsent, k.got[4]}
        BY <1>3, <2>1 DEF Verdict, SelectOk
    <2>4. (IF k.frozen THEN k.pkg ELSE k.got[9]) = k.got[6].pkg
        BY <1>3, <2>1 DEF Verdict, ActivateOk
    <2>5. Handed(k) = IF k.frozen THEN k.pkg ELSE k.got[9]
        BY <1>3 DEF Handed
    <2> QED  BY <2>2, <2>3, <2>4, <2>5
<1>4. CASE k.kind = "load"
    <2>1. First(k) = 1 /\ Len(k.got) = 11 /\ Reads[k.kind][7] = "grant"
        BY <1>4, ReadsAre DEF First
    <2>2. k.got[7].pkg \in granted
        BY <1>4, <2>1 DEF GotOk
    <2>3. k.got[10] = k.got[7].pkg
        BY <1>4, <2>1 DEF Verdict, ActivateOk
    <2>4. Handed(k) = k.got[10]
        BY <1>4 DEF Handed
    <2> QED  BY <1>4, <2>2, <2>3, <2>4
<1> QED  BY <1>1, <1>2, <1>3, <1>4 DEF ReadKinds

\* A registration that is alone finds its slot whole.
LEMMA AloneIsTrusted ==
    ASSUME SlotOk, NEW k, k.kind = "register", NEW pkg, pkg # PackageAbsent,
           packageDisk.package = pkg, packageDisk.manifest = pkg, packageDisk.grant.pkg = pkg,
           packageDisk.meta.pkg = pkg,
           \A i \in 1..7 : k.got[i] = packageDisk[Reads["register"][i]]
    PROVE  Verdict(k) /\ Handed(k) # PackageAbsent
<1>1. First(k) = 2
    BY DEF First
<1>2. /\ Reads["register"][3] = "meta" /\ Reads["register"][4] = "grant"
      /\ Reads["register"][6] = "manifest" /\ Reads["register"][7] = "package"
    BY ReadsAre
<1>3. /\ k.got[3] = packageDisk["meta"] /\ k.got[4] = packageDisk["grant"]
      /\ k.got[6] = packageDisk["manifest"] /\ k.got[7] = packageDisk["package"]
    BY <1>2
<1>4. k.got[3].pkg = pkg /\ k.got[4].pkg = pkg /\ k.got[6] = pkg /\ k.got[7] = pkg
    BY <1>3, SlotFilesAre DEF SlotFiles
<1>5. CapabilityOk(k) /\ Handed(k) = pkg
    BY <1>1, <1>4 DEF CapabilityOk, Handed
<1> QED  BY <1>5 DEF Verdict
\* A read goes on or ends its call.
LEMMA ReadKeepsPackages ==
    ASSUME PackageInv, NEW c \in Callers, Read(c)
    PROVE  PackageInv'
<1>1. PICK m \in CallShape : packageCall[c] = m /\ CallOk(m)
    BY CallsAre
<1> PICK file : file = Reads[m.kind][m.at]
    OBVIOUS
<1> PICK v : v = packageDisk[file]
    OBVIOUS
<1> PICK w : w = Append(m.got, v)
    OBVIOUS
<1> PICK all : all = [m EXCEPT !.got = w]
    OBVIOUS
<1>2. /\ m.stage = "read" /\ packageCall \in [Callers -> CallShape] /\ KindOk(m)
      /\ m.at \in Nat /\ m.at \in 1..Len(Reads[m.kind]) /\ m.kind \in CallKinds
      /\ UNCHANGED <<packageDisk, reachable, barred>>
    BY <1>1 DEF Read, Reading, PackageInv, CallOk, CallShape, ReadOk, KindOk
<1>3. IF ~reachable \/ IsAbsent(file, v) \/ ~Trusts(m, file, v)
      THEN packageCall' = PackageEnd(c, PackageAbsent)
      ELSE IF m.at < Len(Reads[m.kind])
      THEN packageCall' = [packageCall EXCEPT ![c].got = w, ![c].at = @ + 1]
      ELSE IF m.kind = "revoke"
      THEN packageCall' = [packageCall EXCEPT ![c] = [all EXCEPT !.stage = "write", !.at = 1]]
      ELSE packageCall' = PackageEnd(c, IF Verdict(all) THEN Handed(all) ELSE PackageAbsent)
    BY <1>1 DEF Read
<1>4. PackageAbsent \in MaybePackage
    BY DEF MaybePackage
<1>5. CASE ~reachable \/ IsAbsent(file, v) \/ ~Trusts(m, file, v)
    <2>1. ~(m.kind = "register" /\ m.alone /\ reachable)
        BY <1>1, <1>2, <1>5, AloneFinds
    <2>2. packageCall' = PackageEnd(c, PackageAbsent)
        BY <1>3, <1>5
    <2>3. m.stage # "rest"
        BY <1>2
    <2> QED  BY <1>1, <1>2, <1>4, <2>1, <2>2, <2>3, EndKeepsPackages
<1>6. CASE ~(~reachable \/ IsAbsent(file, v) \/ ~Trusts(m, file, v))
    <2>0. reachable /\ ~IsAbsent(file, v) /\ Trusts(m, file, v)
        BY <1>6
    <2>1. /\ w \in Seq(SlotValues) /\ Len(w) = m.at
          /\ \A i \in 1..m.at : GotOk(m.kind, Reads[m.kind][i], w[i], m.granted)
          /\ m.shut => \A i \in 1..m.at : Reads[m.kind][i] # "grant"
          /\ m.kind = "register" /\ m.alone =>
                 \A i \in 1..m.at : w[i] = packageDisk[Reads["register"][i]]
          /\ m.kind = "revoke" => packageDisk.meta # NoMeta
        <3>1. /\ PackageInv /\ CallOk(m) /\ m.stage = "read" /\ file = Reads[m.kind][m.at]
              /\ v = packageDisk[file] /\ ~IsAbsent(file, v) /\ Trusts(m, file, v) /\ w = Append(m.got, v)
            BY <1>1, <1>2, <2>0
        <3> QED  BY <3>1, ReadMore, Zenon
    <2>2. CASE m.at < Len(Reads[m.kind])
        <3> PICK a \in Nat : a = m.at + 1
            BY <1>2
        <3> PICK n : n = [m EXCEPT !.got = w, !.at = a]
            OBVIOUS
        <3>1. /\ n \in CallShape /\ n.kind = m.kind /\ n.stage = m.stage /\ n.at = m.at + 1 /\ n.got = w
              /\ n.pkg = m.pkg /\ n.base = m.base /\ n.frozen = m.frozen /\ n.ans = m.ans /\ n.was = m.was
              /\ n.granted = m.granted /\ n.alone = m.alone /\ n.shut = m.shut
            BY <1>2, <2>1 DEF CallShape
        <3>2. packageCall' = [packageCall EXCEPT ![c] = n]
            <4>1. packageCall' = [packageCall EXCEPT ![c].got = w, ![c].at = @ + 1]
                BY <1>3, <1>6, <2>2
            <4>2. [packageCall EXCEPT ![c].got = w, ![c].at = @ + 1]
                    = [packageCall EXCEPT ![c] = [packageCall[c] EXCEPT !.got = w, !.at = @ + 1]]
                BY <1>2 DEF CallShape
            <4>3. [m EXCEPT !.got = w, !.at = @ + 1] = n
                BY DEF CallShape
            <4> QED  BY <1>1, <4>1, <4>2, <4>3
        <3>3. n.at \in 1..Len(Reads[n.kind]) /\ \A i : i \in 1 .. n.at - 1 <=> i \in 1..m.at
            <4>1. Len(Reads[m.kind]) \in Nat
                BY <1>2, ReadsAre DEF CallKinds, ReadKinds
            <4> QED  BY <1>2, <2>2, <3>1, <4>1
        <3>4. ReadOk(n)'
            BY <1>2, <2>1, <3>1, <3>3 DEF ReadOk
        <3>5. KindOk(n)' /\ WriteOk(n)' /\ AnswerOk(n)'
            BY <1>1, <1>2, <3>1 DEF CallOk, KindOk, WriteOk, AnswerOk
        <3>6. TrustingOk(n)' /\ RevokeOk(n)' /\ RegisterOk(n)'
            BY <1>1, <1>2, <2>1, <3>1 DEF CallOk, TrustingOk, RevokeOk, RegisterOk
        <3>7. AloneOk(n)'
            BY <1>1, <1>2, <2>1, <3>1, <3>3 DEF CallOk, AloneOk
        <3>8. ShutOk(n)' /\ AnsweredOk(n)'
            BY <1>1, <1>2, <2>1, <3>1, <3>3 DEF CallOk, ShutOk, AnsweredOk
        <3>9. CallOk(n)'
            BY <3>1, <3>4, <3>5, <3>6, <3>7, <3>8 DEF CallOk
        <3> QED  BY <1>1, <1>2, <3>1, <3>2, <3>9, OneCallChanges
    <2>3. CASE ~(m.at < Len(Reads[m.kind])) /\ m.kind = "revoke"
        <3> PICK n : n = [all EXCEPT !.stage = "write", !.at = 1]
            OBVIOUS
        <3>1. /\ n \in CallShape /\ n.kind = m.kind /\ n.stage = "write" /\ n.at = 1 /\ n.got = w
              /\ n.pkg = m.pkg /\ n.base = m.base /\ n.frozen = m.frozen /\ n.ans = m.ans /\ n.was = m.was
              /\ n.granted = m.granted /\ n.alone = m.alone /\ n.shut = m.shut
            BY <2>1 DEF CallShape
        <3>2. packageCall' = [packageCall EXCEPT ![c] = n]
            BY <1>3, <1>6, <2>3
        <3>3. Len(Reads[m.kind]) = 2 /\ Reads[m.kind][1] = "meta" /\ Reads[m.kind][2] = "grant"
            BY <2>3, ReadsAre
        <3>4. m.at = 2
            BY <1>2, <2>3, <3>3
        <3>5. WriteOk(n)'
            BY <2>1, <2>3, <3>1, <3>3, <3>4 DEF WriteOk, GotOk
        <3>6. KindOk(n)' /\ ReadOk(n)' /\ AnswerOk(n)'
            BY <1>1, <1>2, <2>3, <3>1 DEF CallOk, KindOk, ReadOk, AnswerOk, Writers
        <3>7. TrustingOk(n)' /\ RevokeOk(n)' /\ RegisterOk(n)' /\ AloneOk(n)'
            BY <1>2, <2>1, <2>3, <3>1 DEF TrustingOk, RevokeOk, RegisterOk, AloneOk
        <3>8. ShutOk(n)' /\ AnsweredOk(n)'
            BY <1>1, <1>2, <2>3, <3>1 DEF CallOk, ShutOk, AnsweredOk
        <3>9. CallOk(n)'
            BY <3>1, <3>5, <3>6, <3>7, <3>8 DEF CallOk
        <3> QED  BY <1>1, <1>2, <3>1, <3>2, <3>9, OneCallChanges
    <2>4. CASE ~(m.at < Len(Reads[m.kind])) /\ m.kind # "revoke"
        <3>1. m.at = Len(Reads[m.kind]) /\ m.kind \in ReadKinds
            <4>1. Len(Reads[m.kind]) \in Nat
                BY <1>2, ReadsAre DEF CallKinds, ReadKinds
            <4> QED  BY <1>2, <2>4, <4>1 DEF CallKinds
        <3>2. /\ all.kind = m.kind /\ all.got = w /\ all.frozen = m.frozen /\ all.pkg = m.pkg
            BY DEF CallShape
        <3> PICK ans : ans = IF Verdict(all) THEN Handed(all) ELSE PackageAbsent
            OBVIOUS
        <3>3. m.kind = "register" => m.granted = {m.pkg}
            BY <1>1, <1>2 DEF CallOk, RegisterOk
        <3>4. (m.frozen => m.kind = "catalog") /\ (m.kind \in {"status", "load"} => m.pkg = PackageAbsent)
            BY <1>2 DEF KindOk
        <3>5. Verdict(all) => Handed(all) \in m.granted /\ m.pkg \in {PackageAbsent, Handed(all)}
            BY <2>1, <3>1, <3>2, <3>3, <3>4, HandsGranted
        <3>6. ans # PackageAbsent => ans \in m.granted /\ m.pkg \in {PackageAbsent, ans}
            BY <3>5
        <3>7. ~m.shut
            <4>1. CASE m.kind = "load"
                <5>1. m.at = 11 /\ Reads[m.kind][3] = "grant"
                    BY <3>1, <4>1, ReadsAre
                <5>2. 3 \in 1..m.at
                    BY <5>1
                <5> QED  BY <2>1, <5>1, <5>2
            <4>2. CASE m.kind # "load"
                <5>1. m.at \in {6, 7, 9} /\ Reads[m.kind][2] = "grant"
                    BY <3>1, <4>2, ReadsAre DEF ReadKinds
                <5> QED  BY <2>1, <5>1
            <4> QED  BY <4>1, <4>2
        <3>8. ans \in MaybePackage
            BY <1>4, <3>6 DEF CallShape
        <3>9. m.kind = "register" /\ m.alone => ans # PackageAbsent
            <4> SUFFICES ASSUME m.kind = "register", m.alone
                         PROVE  ans # PackageAbsent
                OBVIOUS
            <4>1. m.at = 7
                BY <3>1, ReadsAre
            <4>2. /\ packageDisk.package = m.pkg /\ packageDisk.manifest = m.pkg
                  /\ packageDisk.grant.pkg = m.pkg /\ packageDisk.meta.pkg = m.pkg
                  /\ m.pkg # PackageAbsent /\ SlotOk
                BY <1>1, <1>2 DEF CallOk, AloneOk, KindOk, PackageInv
            <4>3. \A i \in 1..7 : all.got[i] = packageDisk[Reads["register"][i]]
                BY <2>1, <3>2, <4>1
            <4>4. Verdict(all) /\ Handed(all) # PackageAbsent
                BY <3>2, <4>2, <4>3, AloneIsTrusted
            <4> QED  BY <4>4
        <3>10. packageCall' = PackageEnd(c, ans)
            BY <1>3, <1>6, <2>4
        <3>11. m.stage # "rest"
            BY <1>2
        <3> QED  BY <1>1, <1>2, <3>6, <3>7, <3>8, <3>9, <3>10, <3>11, EndKeepsPackages
    <2> QED  BY <2>2, <2>3, <2>4
<1> QED  BY <1>5, <1>6
-----------------------------------------------------------------------------
(* Writing: one file at a time, of which each call takes note.             *)

\* A value that a decision may write into a file: never an absent one.
Written(f, x) ==
    /\ f \in {"package", "manifest"} => x \in Packages
    /\ f = "scenario" => x \in MaybePackage \X MaybeBase /\ x[1] # PackageAbsent
    /\ f = "grant" => x \in Grants /\ x.pkg # PackageAbsent
    /\ f = "meta" => x \in Metas /\ x.pkg # PackageAbsent

Change(new, f, x) == f \in SlotFiles /\ Written(f, x) /\ new = [Empty EXCEPT ![f] = x]

\* One file is replaced at a time.
LEMMA LaidIs ==
    ASSUME SlotOk, NEW f, NEW x, NEW new, Change(new, f, x)
    PROVE  /\ Laid(new) = [packageDisk EXCEPT ![f] = x]
           /\ new.grant = IF f = "grant" THEN x ELSE NoGrant
<1> USE DEF Change
<1>1. /\ DOMAIN packageDisk = SlotFiles
      /\ packageDisk = [g \in SlotFiles |-> packageDisk[g]]
    BY DEF SlotOk, Slots, SlotFiles
<1>2. x # Empty[f]
    BY LocalPackagesAssumption DEF Written, Empty, NoGrant, NoMeta, SlotFiles
<1>3. \A g \in SlotFiles : new[g] = IF g = f THEN x ELSE Empty[g]
    BY DEF Empty, SlotFiles
<1>4. Laid(new) = [g \in SlotFiles |-> IF g = f THEN x ELSE packageDisk[g]]
    BY <1>1, <1>2, <1>3 DEF Laid
<1>5. [packageDisk EXCEPT ![f] = x] = [g \in SlotFiles |-> IF g = f THEN x ELSE packageDisk[g]]
    BY <1>1
<1>6. new.grant = IF f = "grant" THEN x ELSE NoGrant
    BY <1>3 DEF Empty, SlotFiles
<1> QED  BY <1>4, <1>5, <1>6

\* What a replaced file does to the slot and to what others have read.
LEMMA SlotChanges ==
    ASSUME SlotOk, NEW f \in SlotFiles, NEW x, Written(f, x), packageDisk' = [packageDisk EXCEPT ![f] = x]
    PROVE  /\ packageDisk' \in Slots
           /\ packageDisk'.package = IF f = "package" THEN x ELSE packageDisk.package
           /\ packageDisk'.manifest = IF f = "manifest" THEN x ELSE packageDisk.manifest
           /\ packageDisk'.scenario = IF f = "scenario" THEN x ELSE packageDisk.scenario
           /\ packageDisk'.grant = IF f = "grant" THEN x ELSE packageDisk.grant
           /\ packageDisk'.meta = IF f = "meta" THEN x ELSE packageDisk.meta
<1>1. packageDisk \in Slots
    BY DEF SlotOk
<1>2. /\ packageDisk'.package = IF f = "package" THEN x ELSE packageDisk.package
      /\ packageDisk'.manifest = IF f = "manifest" THEN x ELSE packageDisk.manifest
      /\ packageDisk'.scenario = IF f = "scenario" THEN x ELSE packageDisk.scenario
      /\ packageDisk'.grant = IF f = "grant" THEN x ELSE packageDisk.grant
      /\ packageDisk'.meta = IF f = "meta" THEN x ELSE packageDisk.meta
    BY <1>1 DEF Slots, SlotFiles
<1>3. packageDisk' \in Slots
    BY <1>1 DEF Slots, SlotFiles, Written, MaybePackage
<1> QED  BY <1>2, <1>3

\* A call that another one's write does not end.
LEMMA WriteStays ==
    ASSUME SlotOk, NEW m, CallOk(m),
           NEW f \in SlotFiles, NEW x, Written(f, x), packageDisk' = [packageDisk EXCEPT ![f] = x],
           reachable' = reachable, barred => barred',
           m.kind = "register" => ~m.alone /\ ~(f = "grant" /\ x.trusted),
           NEW k, k = IF f = "grant" /\ x.trusted /\ m.stage = "read"
                      THEN [m EXCEPT !.granted = @ \cup {x.pkg}] ELSE m
    PROVE  k \in CallShape /\ k.kind = m.kind /\ k.alone = m.alone /\ CallOk(k)'
<1>0. /\ packageDisk'.package = IF f = "package" THEN x ELSE packageDisk.package
      /\ packageDisk'.manifest = IF f = "manifest" THEN x ELSE packageDisk.manifest
      /\ packageDisk'.scenario = IF f = "scenario" THEN x ELSE packageDisk.scenario
      /\ packageDisk'.grant = IF f = "grant" THEN x ELSE packageDisk.grant
      /\ packageDisk'.meta = IF f = "meta" THEN x ELSE packageDisk.meta
    BY SlotChanges
<1> PICK granted : granted = IF f = "grant" /\ x.trusted /\ m.stage = "read" THEN m.granted \cup {x.pkg} ELSE m.granted
    OBVIOUS
<1>1. m \in CallShape
    BY DEF CallOk
<1>2. f = "grant" => x.pkg \in MaybePackage
    BY DEF Written, Grants
<1>3. granted \in SUBSET MaybePackage
    BY <1>1, <1>2 DEF CallShape
<1>4. k = [m EXCEPT !.granted = granted]
    BY <1>1 DEF CallShape
<1>5. /\ k \in CallShape /\ k.kind = m.kind /\ k.stage = m.stage /\ k.at = m.at /\ k.got = m.got
      /\ k.pkg = m.pkg /\ k.base = m.base /\ k.frozen = m.frozen /\ k.ans = m.ans /\ k.was = m.was
      /\ k.granted = granted /\ k.alone = m.alone /\ k.shut = m.shut
    BY <1>1, <1>3, <1>4 DEF CallShape
<1>6. m.granted \subseteq granted
    OBVIOUS
<1>7. KindOk(k)' /\ WriteOk(k)'
    BY <1>5 DEF CallOk, KindOk, WriteOk
<1>8. AnswerOk(k)'
    BY <1>5, <1>6 DEF CallOk, AnswerOk
<1>9. ReadOk(k)'
    BY <1>5, <1>6 DEF CallOk, ReadOk, GotOk
<1>10. TrustingOk(k)'
    BY <1>0, <1>5, <1>6 DEF CallOk, TrustingOk
<1>11. RevokeOk(k)'
    BY <1>0, <1>5 DEF CallOk, RevokeOk, Written, NoMeta
<1>12. RegisterOk(k)'
    <2> SUFFICES ASSUME m.kind = "register"  PROVE RegisterOk(k)'
        BY <1>5 DEF RegisterOk
    <2>1. ~(f = "grant" /\ x.trusted) /\ granted = m.granted
        OBVIOUS
    <2>2. /\ packageDisk.package # PackageAbsent => packageDisk'.package # PackageAbsent
          /\ packageDisk.manifest # PackageAbsent => packageDisk'.manifest # PackageAbsent
          /\ packageDisk.scenario[1] # PackageAbsent => packageDisk'.scenario[1] # PackageAbsent
          /\ packageDisk.grant.pkg # PackageAbsent => packageDisk'.grant.pkg # PackageAbsent
          /\ packageDisk'.grant.trusted => packageDisk'.grant = packageDisk.grant
        BY <1>0, <2>1, LocalPackagesAssumption DEF Written
    <2> QED  BY <1>5, <2>1, <2>2 DEF CallOk, RegisterOk
<1>13. AloneOk(k)'
    BY <1>5 DEF AloneOk
<1>14. ShutOk(k)'
    BY <1>5 DEF CallOk, ShutOk
<1>15. AnsweredOk(k)'
    BY <1>5 DEF CallOk, AnsweredOk
<1>16. CallOk(k)'
    BY <1>5, <1>7, <1>8, <1>9, <1>10, <1>11, <1>12, <1>13, <1>14, <1>15 DEF CallOk
<1> QED  BY <1>5, <1>16
\* The call c is m, writes x into the file f by the change new, and goes on as n.
FileWrite(c, m, f, x, new, n) ==
    /\ packageCall[c] = m /\ CallOk(m) /\ m.stage = "write"
    /\ f \in SlotFiles /\ Written(f, x) /\ (f = "grant" /\ x.trusted => m.kind = "register")
    /\ f = "meta" => /\ packageDisk.package # PackageAbsent /\ packageDisk.manifest # PackageAbsent
                     /\ packageDisk.scenario[1] # PackageAbsent /\ packageDisk.grant.pkg # PackageAbsent
    /\ packageDisk' = [packageDisk EXCEPT ![f] = x] /\ reachable' = reachable
    /\ new.grant = IF f = "grant" THEN x ELSE NoGrant
    /\ n \in CallShape /\ CallOk(n)' /\ n.kind \in {m.kind, "rest"} /\ (n.alone => m.alone)
    /\ packageCall' = [d \in Callers |-> IF d # c THEN Noted(d, new) ELSE n]
    /\ barred => barred'
    /\ barred' => barred \/ (f = "grant" /\ ~x.trusted /\ ~\E d \in Callers : packageCall[d].kind = "register")

\* A write keeps the invariant when the call that writes stays as it should be.
LEMMA FileIsWritten ==
    ASSUME PackageInv, NEW c \in Callers, NEW m, NEW f, NEW x, NEW new, NEW n,
           FileWrite(c, m, f, x, new, n)
    PROVE  PackageInv'
<1> USE DEF FileWrite
<1>0. /\ packageDisk' \in Slots
      /\ packageDisk'.package = IF f = "package" THEN x ELSE packageDisk.package
      /\ packageDisk'.manifest = IF f = "manifest" THEN x ELSE packageDisk.manifest
      /\ packageDisk'.scenario = IF f = "scenario" THEN x ELSE packageDisk.scenario
      /\ packageDisk'.grant = IF f = "grant" THEN x ELSE packageDisk.grant
      /\ packageDisk'.meta = IF f = "meta" THEN x ELSE packageDisk.meta
    BY SlotChanges DEF PackageInv
<1>1. m.kind \in Writers
    BY DEF CallOk, KindOk
<1>2. ASSUME NEW d \in Callers, d # c
      PROVE  \E k \in CallShape : packageCall'[d] = k /\ CallOk(k)' /\ k.kind = packageCall[d].kind
                                  /\ k.alone = packageCall[d].alone
    <2>1. PICK p \in CallShape : packageCall[d] = p /\ CallOk(p)
        BY CallsAre
    <2> PICK k : k = IF f = "grant" /\ x.trusted /\ p.stage = "read"
                     THEN [p EXCEPT !.granted = @ \cup {x.pkg}] ELSE p
        OBVIOUS
    <2>2. packageCall'[d] = k
        <3>1. packageCall'[d] = IF new.grant.trusted /\ p.stage = "read"
                                THEN [p EXCEPT !.granted = @ \cup {new.grant.pkg}] ELSE p
            BY <1>2, <2>1 DEF Noted
        <3>2. CASE f = "grant"
            BY <3>1, <3>2
        <3>3. CASE f # "grant"
            <4>1. ~new.grant.trusted
                BY <3>3 DEF NoGrant
            <4> QED  BY <3>1, <3>3, <4>1
        <3> QED  BY <3>2, <3>3
    <2>3. p.kind = "register" => m.kind = "revoke" /\ ~p.alone
        BY <1>1, <1>2, <2>1 DEF PackageInv, SingleOk, Deciding, Writers
    <2>4. p.kind = "register" => ~p.alone /\ ~(f = "grant" /\ x.trusted)
        BY <2>3
    <2>5. k \in CallShape /\ k.kind = p.kind /\ k.alone = p.alone /\ CallOk(k)'
        <3>1. /\ SlotOk /\ CallOk(p) /\ Written(f, x) /\ packageDisk' = [packageDisk EXCEPT ![f] = x]
              /\ reachable' = reachable /\ (barred => barred')
              /\ p.kind = "register" => ~p.alone /\ ~(f = "grant" /\ x.trusted)
              /\ k = IF f = "grant" /\ x.trusted /\ p.stage = "read"
                     THEN [p EXCEPT !.granted = @ \cup {x.pkg}] ELSE p
            BY <2>1, <2>4 DEF PackageInv
        <3> QED  BY <3>1, WriteStays, Zenon
    <2> QED  BY <2>1, <2>2, <2>5
<1>3. packageCall'[c] = n
    OBVIOUS
<1>4. CallsOk'
    BY <1>2, <1>3 DEF CallsOk
<1>5. packageCall' \in [Callers -> CallShape]
    <2>1. \A d \in Callers : packageCall'[d] \in CallShape
        BY <1>2, <1>3
    <2> QED  BY <2>1
<1>6. \A d \in Callers : /\ packageCall'[d].kind \in {packageCall[d].kind, "rest"}
                         /\ packageCall'[d].alone => packageCall[d].alone
    BY <1>2, <1>3
<1>7. SingleOk'
    <2> SUFFICES ASSUME NEW d \in Callers, NEW e \in Callers, packageCall'[d].kind = "register", Deciding(e)',
                        packageCall'[e].kind = "register" \/ packageCall'[d].alone
                 PROVE  d = e
        BY DEF SingleOk
    <2>1. packageCall[d].kind = "register" /\ Deciding(e)
          /\ (packageCall[e].kind = "register" \/ packageCall[d].alone)
        BY <1>6 DEF Deciding, Writers
    <2> QED  BY <2>1 DEF PackageInv, SingleOk
<1>8. BarredOk'
    <2> SUFFICES ASSUME barred'
                 PROVE  ~packageDisk'.grant.trusted /\ \A d \in Callers : packageCall'[d].kind # "register"
        BY DEF BarredOk
    <2>1. \A d \in Callers : packageCall[d].kind # "register"
        BY DEF PackageInv, BarredOk
    <2>2. barred => ~packageDisk.grant.trusted
        BY DEF PackageInv, BarredOk
    <2>3. ~packageDisk'.grant.trusted
        BY <1>0, <2>1, <2>2
    <2> QED  BY <1>6, <2>1, <2>3
<1>9. SlotOk'
    <2>1. packageDisk.meta # NoMeta =>
              /\ packageDisk.package # PackageAbsent /\ packageDisk.manifest # PackageAbsent
              /\ packageDisk.scenario[1] # PackageAbsent /\ packageDisk.grant.pkg # PackageAbsent
        BY DEF PackageInv, SlotOk
    <2> QED  BY <1>0, <2>1, LocalPackagesAssumption DEF SlotOk, Written, SlotFiles
<1> QED  BY <1>4, <1>5, <1>7, <1>8, <1>9 DEF PackageInv

\* What a registration writes.
LEMMA RegisterWritesAre ==
    ASSUME NEW m, m.kind = "register"
    PROVE  /\ Len(Writes(m)) = 5
           /\ Writes(m)[1] = [Empty EXCEPT !.package = m.pkg]
           /\ Writes(m)[2] = [Empty EXCEPT !.manifest = m.pkg]
           /\ Writes(m)[3] = [Empty EXCEPT !.scenario = <<m.pkg, m.base>>]
           /\ Writes(m)[4] = [Empty EXCEPT !.grant = [pkg |-> m.pkg, trusted |-> TRUE]]
           /\ Writes(m)[5] = [Empty EXCEPT !.meta = [pkg |-> m.pkg, base |-> m.base, revoked |-> FALSE]]
BY DEF Writes, RegisterWrites

\* What a registration and a revocation write, file by file.
LEMMA RevokeWritesAre ==
    ASSUME NEW m, m.kind = "revoke"
    PROVE  /\ Len(Writes(m)) = 2
           /\ Writes(m)[1] = [Empty EXCEPT !.meta = [m.got[1] EXCEPT !.revoked = TRUE]]
           /\ Writes(m)[2] = [Empty EXCEPT !.grant = [m.got[2] EXCEPT !.trusted = FALSE]]
BY DEF Writes, RevokeWrites

\* The file a registration writes, and what it writes there.
RegisterFile(i) == CASE i = 1 -> "package" [] i = 2 -> "manifest" [] i = 3 -> "scenario"
                     [] i = 4 -> "grant" [] OTHER -> "meta"

WritesFile(m, f, x) ==
    /\ f = RegisterFile(m.at) /\ Written(f, x) /\ Writes(m)[m.at] = [Empty EXCEPT ![f] = x]
    /\ f \in {"package", "manifest"} => x = m.pkg
    /\ f \in {"grant", "meta"} => x.pkg = m.pkg
    /\ f = "grant" => x.trusted
    /\ f = "meta" => ~x.revoked

LEMMA RegisterWritesOne ==
    ASSUME NEW m, CallOk(m), m.kind = "register", m.stage = "write"
    PROVE  \E f \in SlotFiles : \E x : WritesFile(m, f, x)
<1>1. /\ m.at \in 1..5 /\ m.pkg \in Packages /\ m.base \in MaybeBase /\ m.pkg # PackageAbsent
      /\ m.pkg \in MaybePackage
    BY DEF CallOk, CallShape, KindOk, WriteOk, MaybePackage
<1> PICK f : f = RegisterFile(m.at)
    OBVIOUS
<1>2. CASE m.at = 1
    <2>1. f = "package"
        BY <1>2 DEF RegisterFile
    <2>2. Writes(m)[m.at] = [Empty EXCEPT ![f] = m.pkg]
        BY <1>2, <2>1, RegisterWritesAre
    <2>3. f \in SlotFiles /\ Written(f, m.pkg)
        BY <1>1, <2>1 DEF Written, SlotFiles
    <2>4. WritesFile(m, f, m.pkg)
        BY <2>1, <2>2, <2>3 DEF WritesFile
    <2> QED  BY <2>3, <2>4
<1>3. CASE m.at = 2
    <2>1. f = "manifest"
        BY <1>3 DEF RegisterFile
    <2>2. Writes(m)[m.at] = [Empty EXCEPT ![f] = m.pkg]
        BY <1>3, <2>1, RegisterWritesAre
    <2>3. f \in SlotFiles /\ Written(f, m.pkg)
        BY <1>1, <2>1 DEF Written, SlotFiles
    <2>4. WritesFile(m, f, m.pkg)
        BY <2>1, <2>2, <2>3 DEF WritesFile
    <2> QED  BY <2>3, <2>4
<1>4. CASE m.at = 3
    <2> PICK x : x = <<m.pkg, m.base>>
        OBVIOUS
    <2>1. x \in MaybePackage \X MaybeBase /\ x[1] # PackageAbsent
        BY <1>1
    <2>2. f = "scenario"
        BY <1>4 DEF RegisterFile
    <2>3. Writes(m)[m.at] = [Empty EXCEPT ![f] = x]
        BY <1>4, <2>2, RegisterWritesAre
    <2>4. f \in SlotFiles /\ Written(f, x)
        BY <2>1, <2>2 DEF Written, SlotFiles
    <2>5. WritesFile(m, f, x)
        BY <2>2, <2>3, <2>4 DEF WritesFile
    <2> QED  BY <2>4, <2>5
<1>5. CASE m.at = 4
    <2> PICK t \in BOOLEAN : t = TRUE
        OBVIOUS
    <2> PICK x : x = [pkg |-> m.pkg, trusted |-> t]
        OBVIOUS
    <2>1. x \in Grants /\ x.pkg = m.pkg /\ x.trusted = t
        BY <1>1 DEF Grants
    <2>2. f = "grant"
        BY <1>5 DEF RegisterFile
    <2>3. Writes(m)[m.at] = [Empty EXCEPT ![f] = x]
        BY <1>5, <2>2, RegisterWritesAre
    <2>4. f \in SlotFiles /\ Written(f, x)
        BY <1>1, <2>1, <2>2 DEF Written, SlotFiles
    <2>5. WritesFile(m, f, x)
        BY <2>1, <2>2, <2>3, <2>4 DEF WritesFile
    <2> QED  BY <2>4, <2>5
<1>6. CASE m.at = 5
    <2> PICK t \in BOOLEAN : t = FALSE
        OBVIOUS
    <2> PICK x : x = [pkg |-> m.pkg, base |-> m.base, revoked |-> t]
        OBVIOUS
    <2>1. x \in Metas /\ x.pkg = m.pkg /\ x.revoked = t
        BY <1>1 DEF Metas
    <2>2. f = "meta"
        BY <1>6 DEF RegisterFile
    <2>3. Writes(m)[m.at] = [Empty EXCEPT ![f] = x]
        BY <1>6, <2>2, RegisterWritesAre
    <2>4. f \in SlotFiles /\ Written(f, x)
        BY <1>1, <2>1, <2>2 DEF Written, SlotFiles
    <2>5. WritesFile(m, f, x)
        BY <2>1, <2>2, <2>3, <2>4 DEF WritesFile
    <2> QED  BY <2>4, <2>5
<1> QED  BY <1>1, <1>2, <1>3, <1>4, <1>5, <1>6
LEMMA RevokeWritesOne ==
    ASSUME NEW m, CallOk(m), m.kind = "revoke", m.stage = "write"
    PROVE  \E f \in SlotFiles : \E x :
               /\ f = (IF m.at = 1 THEN "meta" ELSE "grant") /\ Written(f, x)
               /\ Writes(m)[m.at] = [Empty EXCEPT ![f] = x]
               /\ f = "grant" => ~x.trusted
<1>1. /\ m.at \in 1..2
      /\ m.got[1] \in Metas /\ m.got[1].pkg # PackageAbsent
      /\ m.got[2] \in Grants /\ m.got[2].pkg # PackageAbsent
    BY DEF CallOk, WriteOk, GotOk
<1>2. CASE m.at = 1
    <2> PICK y : y = m.got[1]
        OBVIOUS
    <2> PICK t \in BOOLEAN : t = TRUE
        OBVIOUS
    <2> PICK x : x = [y EXCEPT !.revoked = t]
        OBVIOUS
    <2>1. x \in Metas /\ x.pkg # PackageAbsent
        BY <1>1 DEF Metas
    <2> PICK f : f = "meta"
        OBVIOUS
    <2>2. Writes(m)[m.at] = [Empty EXCEPT ![f] = x]
        BY <1>2, RevokeWritesAre
    <2>3. f \in SlotFiles /\ Written(f, x)
        BY <2>1 DEF Written, SlotFiles
    <2>4. f = (IF m.at = 1 THEN "meta" ELSE "grant") /\ (f = "grant" => ~x.trusted)
        BY <1>2
    <2> QED  BY <2>2, <2>3, <2>4
<1>3. CASE m.at = 2
    <2> PICK y : y = m.got[2]
        OBVIOUS
    <2> PICK t \in BOOLEAN : t = FALSE
        OBVIOUS
    <2> PICK x : x = [y EXCEPT !.trusted = t]
        OBVIOUS
    <2>1. x \in Grants /\ x.pkg # PackageAbsent /\ x.trusted = t
        BY <1>1 DEF Grants
    <2> PICK f : f = "grant"
        OBVIOUS
    <2>2. Writes(m)[m.at] = [Empty EXCEPT ![f] = x]
        BY <1>3, RevokeWritesAre
    <2>3. f \in SlotFiles /\ Written(f, x)
        BY <2>1 DEF Written, SlotFiles
    <2>4. f = (IF m.at = 1 THEN "meta" ELSE "grant") /\ (f = "grant" => ~x.trusted)
        BY <1>3, <2>1
    <2> QED  BY <2>2, <2>3, <2>4
<1>4. m.at = 1 \/ m.at = 2
    BY <1>1
<1> QED  BY <1>2, <1>3, <1>4, Zenon

\* The registration that wrote a file, or its last one and reads the slot back.
LEMMA RegistrationGoesOn ==
    ASSUME PackageInv, NEW m, CallOk(m), m.kind = "register", m.stage = "write",
           NEW f \in SlotFiles, NEW x, WritesFile(m, f, x),
           packageDisk' = [packageDisk EXCEPT ![f] = x],
           m.at # 5, NEW a \in Nat, a = m.at + 1, NEW n, n = [m EXCEPT !.at = a]
    PROVE  n \in CallShape /\ n.kind = m.kind /\ n.alone = m.alone /\ CallOk(n)'
<1>0. /\ packageDisk'.package = IF f = "package" THEN x ELSE packageDisk.package
      /\ packageDisk'.manifest = IF f = "manifest" THEN x ELSE packageDisk.manifest
      /\ packageDisk'.scenario = IF f = "scenario" THEN x ELSE packageDisk.scenario
      /\ packageDisk'.grant = IF f = "grant" THEN x ELSE packageDisk.grant
      /\ packageDisk'.meta = IF f = "meta" THEN x ELSE packageDisk.meta
    <2>1. SlotOk /\ Written(f, x) /\ packageDisk' = [packageDisk EXCEPT ![f] = x]
        BY DEF PackageInv, WritesFile
    <2> QED  BY <2>1, SlotChanges, Zenon
<1>1. /\ m \in CallShape /\ KindOk(m) /\ ~m.shut /\ m.ans = PackageAbsent /\ m.pkg # PackageAbsent
      /\ m.at \in 1..5 /\ m.got = <<>> /\ RegisterOk(m) /\ AloneOk(m)
    BY DEF CallOk, KindOk, WriteOk, Writers
<1>2. /\ n \in CallShape /\ n.kind = m.kind /\ n.stage = "write" /\ n.at = a /\ n.got = m.got
      /\ n.pkg = m.pkg /\ n.base = m.base /\ n.frozen = m.frozen /\ n.ans = m.ans /\ n.was = m.was
      /\ n.granted = m.granted /\ n.alone = m.alone /\ n.shut = m.shut
    BY <1>1 DEF CallShape
<1>3. KindOk(n)' /\ ReadOk(n)' /\ WriteOk(n)'
    BY <1>1, <1>2 DEF KindOk, ReadOk, WriteOk, Writers
<1>4. TrustingOk(n)' /\ RevokeOk(n)' /\ ShutOk(n)' /\ AnswerOk(n)' /\ AnsweredOk(n)'
    BY <1>1, <1>2 DEF TrustingOk, RevokeOk, ShutOk, AnswerOk, AnsweredOk
<1>5. RegisterOk(n)' /\ AloneOk(n)'
    <2>1. m.at \in {1, 2, 3, 4}
        BY <1>1
    <2>2. CASE m.at = 1
        <3>1. f = "package" /\ x = m.pkg /\ a = 2
            BY <2>2 DEF WritesFile, RegisterFile
        <3> QED  BY <1>0, <1>1, <1>2, <3>1 DEF RegisterOk, AloneOk
    <2>3. CASE m.at = 2
        <3>1. f = "manifest" /\ x = m.pkg /\ a = 3
            BY <2>3 DEF WritesFile, RegisterFile
        <3> QED  BY <1>0, <1>1, <1>2, <2>3, <3>1 DEF RegisterOk, AloneOk
    <2>4. CASE m.at = 3
        <3>1. f = "scenario" /\ x[1] # PackageAbsent /\ a = 4
            BY <2>4 DEF WritesFile, RegisterFile, Written
        <3> QED  BY <1>0, <1>1, <1>2, <2>4, <3>1 DEF RegisterOk, AloneOk
    <2>5. CASE m.at = 4
        <3>1. f = "grant" /\ x.pkg = m.pkg /\ x.trusted /\ a = 5
            BY <2>5 DEF WritesFile, RegisterFile
        <3> QED  BY <1>0, <1>1, <1>2, <2>5, <3>1 DEF RegisterOk, AloneOk
    <2> QED  BY <2>1, <2>2, <2>3, <2>4, <2>5
<1>6. CallOk(n)'
    BY <1>2, <1>3, <1>4, <1>5 DEF CallOk
<1> QED  BY <1>2, <1>6

\* The one that wrote its last file.
ReadsBack(m, n) == n = [m EXCEPT !.stage = "read", !.at = 1, !.granted = {m.pkg}]

\* A registration that wrote its last file reads it back.
LEMMA RegistrationReadsBack ==
    ASSUME PackageInv, NEW m, CallOk(m), m.kind = "register", m.stage = "write",
           NEW f \in SlotFiles, NEW x, WritesFile(m, f, x),
           packageDisk' = [packageDisk EXCEPT ![f] = x],
           m.at = 5, NEW n, ReadsBack(m, n)
    PROVE  n \in CallShape /\ n.kind = m.kind /\ n.alone = m.alone /\ CallOk(n)'
<1>0. /\ packageDisk'.package = IF f = "package" THEN x ELSE packageDisk.package
      /\ packageDisk'.manifest = IF f = "manifest" THEN x ELSE packageDisk.manifest
      /\ packageDisk'.scenario = IF f = "scenario" THEN x ELSE packageDisk.scenario
      /\ packageDisk'.grant = IF f = "grant" THEN x ELSE packageDisk.grant
      /\ packageDisk'.meta = IF f = "meta" THEN x ELSE packageDisk.meta
    <2>1. SlotOk /\ Written(f, x) /\ packageDisk' = [packageDisk EXCEPT ![f] = x]
        BY DEF PackageInv, WritesFile
    <2> QED  BY <2>1, SlotChanges, Zenon
<1>1. /\ m \in CallShape /\ KindOk(m) /\ ~m.shut /\ m.ans = PackageAbsent /\ m.pkg # PackageAbsent
      /\ m.at \in 1..5 /\ m.got = <<>> /\ RegisterOk(m) /\ AloneOk(m)
    BY DEF CallOk, KindOk, WriteOk, Writers
<1>2. f = "meta" /\ x.pkg = m.pkg /\ ~x.revoked
    BY DEF WritesFile, RegisterFile
<1>3. /\ n \in CallShape /\ n.kind = m.kind /\ n.stage = "read" /\ n.at = 1 /\ n.got = <<>>
      /\ n.pkg = m.pkg /\ n.base = m.base /\ n.frozen = m.frozen /\ n.ans = m.ans /\ n.was = m.was
      /\ n.granted = {m.pkg} /\ n.alone = m.alone /\ n.shut = m.shut
    <2> PICK one \in Nat, s \in {"read", "write"} : one = 1 /\ s = "read"
        OBVIOUS
    <2> PICK g : g = {m.pkg}
        OBVIOUS
    <2>0. n = [m EXCEPT !.stage = s, !.at = one, !.granted = g]
        BY DEF ReadsBack
    <2>1. g \in SUBSET MaybePackage /\ m \in CallShape
        BY <1>1 DEF CallShape
    <2>2. /\ n \in CallShape /\ n.kind = m.kind /\ n.stage = s /\ n.at = one /\ n.got = m.got
          /\ n.pkg = m.pkg /\ n.base = m.base /\ n.frozen = m.frozen /\ n.ans = m.ans /\ n.was = m.was
          /\ n.granted = g /\ n.alone = m.alone /\ n.shut = m.shut
        BY <2>0, <2>1 DEF CallShape
    <2> QED  BY <1>1, <2>2
<1>4. KindOk(n)' /\ WriteOk(n)'
    BY <1>1, <1>3 DEF KindOk, WriteOk
<1>5. ReadOk(n)'
    <2>1. Len(Reads[n.kind]) = 7
        BY <1>3, ReadsAre
    <2>2. n.at \in 1..Len(Reads[n.kind]) /\ Len(n.got) = n.at - 1
        <3>1. n.got = <<>> /\ n.at = 1
            BY <1>3
        <3>2. Len(n.got) = 0
            BY ONLY <3>1
        <3> QED  BY ONLY <2>1, <3>1, <3>2
    <2>3. \A i \in 1 .. n.at - 1 : FALSE
        BY <1>3
    <2> QED  BY <2>2, <2>3 DEF ReadOk
<1>6. TrustingOk(n)' /\ RevokeOk(n)' /\ ShutOk(n)' /\ AnswerOk(n)' /\ AnsweredOk(n)'
    BY <1>0, <1>1, <1>2, <1>3 DEF TrustingOk, RevokeOk, RegisterOk, ShutOk, AnswerOk, AnsweredOk
<1>7. RegisterOk(n)'
    BY <1>3 DEF RegisterOk
<1>8. AloneOk(n)'
    BY <1>0, <1>1, <1>2, <1>3 DEF AloneOk
<1>9. CallOk(n)'
    BY <1>3, <1>4, <1>5, <1>6, <1>7, <1>8 DEF CallOk
<1> QED  BY <1>3, <1>9

\* The revocation that wrote the metadata.
LEMMA RevocationGoesOn ==
    ASSUME PackageInv, NEW m, CallOk(m), m.kind = "revoke", m.stage = "write",
           NEW x, Written("meta", x), packageDisk' = [packageDisk EXCEPT !.meta = x],
           NEW a \in Nat, a = 2, NEW n, n = [m EXCEPT !.at = a]
    PROVE  n \in CallShape /\ n.kind = m.kind /\ n.alone = m.alone /\ CallOk(n)'
<1>0. packageDisk'.meta = x /\ x.pkg # PackageAbsent
    BY DEF PackageInv, SlotOk, Slots, Written
<1>1. m \in CallShape /\ KindOk(m) /\ WriteOk(m) /\ ShutOk(m)
    BY DEF CallOk
<1>2. /\ n \in CallShape /\ n.kind = m.kind /\ n.stage = "write" /\ n.at = a /\ n.got = m.got
      /\ n.pkg = m.pkg /\ n.base = m.base /\ n.frozen = m.frozen /\ n.ans = m.ans /\ n.was = m.was
      /\ n.granted = m.granted /\ n.alone = m.alone /\ n.shut = m.shut
    BY <1>1 DEF CallShape
<1>3. KindOk(n)' /\ ReadOk(n)' /\ WriteOk(n)' /\ AnswerOk(n)'
    BY <1>1, <1>2 DEF KindOk, ReadOk, WriteOk, AnswerOk
<1>4. TrustingOk(n)' /\ RegisterOk(n)' /\ AloneOk(n)' /\ ShutOk(n)' /\ AnsweredOk(n)'
    BY <1>1, <1>2 DEF KindOk, TrustingOk, RegisterOk, AloneOk, ShutOk, AnsweredOk, Writers
<1>5. RevokeOk(n)'
    BY <1>0, <1>2 DEF RevokeOk, NoMeta
<1>6. CallOk(n)'
    BY <1>2, <1>3, <1>4, <1>5 DEF CallOk
<1> QED  BY <1>2, <1>6
\* A write goes on, ends its call or reads back.
LEMMA WriteKeepsPackages ==
    ASSUME PackageInv, NEW c \in Callers, Write(c)
    PROVE  PackageInv'
<1>1. PICK m \in CallShape : packageCall[c] = m /\ CallOk(m)
    BY CallsAre
<1> PICK new : new = Writes(m)[m.at]
    OBVIOUS
<1>2. /\ m.stage = "write" /\ reachable' = reachable /\ m.kind \in Writers /\ m.at \in Nat
      /\ packageCall \in [Callers -> CallShape] /\ SlotOk /\ PackageAbsent \in MaybePackage
    BY <1>1 DEF Write, CallOk, KindOk, CallShape, PackageInv, MaybePackage
<1>3. IF ~reachable
      THEN packageCall' = PackageEnd(c, PackageAbsent) /\ UNCHANGED <<packageDisk, barred>>
      ELSE /\ packageDisk' = Laid(new)
           /\ packageCall' = [d \in Callers |->
                IF d # c THEN Noted(d, new)
                ELSE IF m.at # Len(Writes(m)) THEN [m EXCEPT !.at = @ + 1]
                ELSE IF m.kind = "revoke" THEN PackageEnd(c, PackageAbsent)[c]
                ELSE [m EXCEPT !.stage = "read", !.at = 1, !.granted = {m.pkg}]]
           /\ barred' = IF m.at = Len(Writes(m)) /\ m.kind = "revoke"
                        THEN ~\E d \in Callers : packageCall[d].kind = "register" ELSE barred
    BY <1>1 DEF Write
<1>4. CASE ~reachable
    <2>1. m.stage # "rest" /\ UNCHANGED <<packageDisk, reachable, barred>>
          /\ packageCall' = PackageEnd(c, PackageAbsent)
        BY <1>2, <1>3, <1>4
    <2> QED  BY <1>1, <1>2, <1>4, <2>1, EndKeepsPackages
<1>5. CASE reachable /\ m.kind = "register"
    <2>1. PICK f, x : f \in SlotFiles /\ WritesFile(m, f, x)
        BY <1>1, <1>2, <1>5, RegisterWritesOne
    <2>2. /\ f = RegisterFile(m.at) /\ Written(f, x) /\ f \in SlotFiles
          /\ new = [Empty EXCEPT ![f] = x] /\ (f = "grant" => x.trusted)
        BY <2>1 DEF WritesFile
    <2>3. Laid(new) = [packageDisk EXCEPT ![f] = x] /\ new.grant = IF f = "grant" THEN x ELSE NoGrant
        <3>1. SlotOk /\ Change(new, f, x)
            BY <1>2, <2>2 DEF Change
        <3> QED  BY <3>1, LaidIs
    <2>4. packageDisk' = [packageDisk EXCEPT ![f] = x] /\ barred' = barred /\ Len(Writes(m)) = 5
        BY <1>3, <1>5, <2>3, RegisterWritesAre
    <2>5. m.at \in 1..5
        BY <1>1, <1>2, <1>5 DEF CallOk, WriteOk
    <2>6. f = "meta" => /\ packageDisk.package # PackageAbsent /\ packageDisk.manifest # PackageAbsent
                        /\ packageDisk.scenario[1] # PackageAbsent /\ packageDisk.grant.pkg # PackageAbsent
        <3>1. f = "meta" => m.at = 5
            BY <2>2, <2>5 DEF RegisterFile
        <3> QED  BY <1>1, <1>2, <1>5, <3>1 DEF CallOk, RegisterOk
    <2>7. CASE m.at # 5
        <3> PICK a \in Nat : a = m.at + 1
            BY <1>2
        <3> PICK n : n = [m EXCEPT !.at = a]
            OBVIOUS
        <3>1. n \in CallShape /\ n.kind = m.kind /\ n.alone = m.alone /\ CallOk(n)'
            <4>1. /\ CallOk(m) /\ m.kind = "register" /\ m.stage = "write" /\ WritesFile(m, f, x)
                  /\ packageDisk' = [packageDisk EXCEPT ![f] = x] /\ m.at # 5 /\ f \in SlotFiles
                BY <1>1, <1>2, <1>5, <2>1, <2>4, <2>7
            <4> QED  BY <4>1, RegistrationGoesOn, Zenon
        <3>2. packageCall' = [d \in Callers |-> IF d # c THEN Noted(d, new) ELSE n]
            <4>1. [m EXCEPT !.at = @ + 1] = n
                BY DEF CallShape
            <4> QED  BY <1>3, <1>5, <2>4, <2>7, <4>1
        <3>9. FileWrite(c, m, f, x, new, n)
            BY <1>1, <1>2, <1>5, <2>2, <2>3, <2>4, <2>6, <3>1, <3>2 DEF FileWrite
        <3> QED  BY <3>9, FileIsWritten
    <2>8. CASE m.at = 5
        <3> PICK n : n = [m EXCEPT !.stage = "read", !.at = 1, !.granted = {m.pkg}]
            OBVIOUS
        <3>1. n \in CallShape /\ n.kind = m.kind /\ n.alone = m.alone /\ CallOk(n)'
            <4>1. /\ CallOk(m) /\ m.kind = "register" /\ m.stage = "write" /\ WritesFile(m, f, x)
                  /\ packageDisk' = [packageDisk EXCEPT ![f] = x] /\ m.at = 5
                  /\ f \in SlotFiles /\ ReadsBack(m, n)
                BY <1>1, <1>2, <1>5, <2>1, <2>4, <2>8 DEF ReadsBack
            <4> QED  BY <4>1, RegistrationReadsBack
        <3>2. packageCall' = [d \in Callers |-> IF d # c THEN Noted(d, new) ELSE n]
            BY <1>3, <1>5, <2>4, <2>8
        <3>9. FileWrite(c, m, f, x, new, n)
            BY <1>1, <1>2, <1>5, <2>2, <2>3, <2>4, <2>6, <3>1, <3>2 DEF FileWrite
        <3> QED  BY <3>9, FileIsWritten
    <2> QED  BY <2>7, <2>8
<1>6. CASE reachable /\ m.kind = "revoke"
    <2>1. PICK f, x : /\ f \in SlotFiles /\ f = (IF m.at = 1 THEN "meta" ELSE "grant") /\ Written(f, x)
                      /\ new = [Empty EXCEPT ![f] = x] /\ (f = "grant" => ~x.trusted)
        BY <1>1, <1>2, <1>6, RevokeWritesOne
    <2>2. Laid(new) = [packageDisk EXCEPT ![f] = x] /\ new.grant = IF f = "grant" THEN x ELSE NoGrant
        <3>1. SlotOk /\ Change(new, f, x)
            BY <1>2, <2>1 DEF Change
        <3> QED  BY <3>1, LaidIs
    <2>3. packageDisk' = [packageDisk EXCEPT ![f] = x] /\ Len(Writes(m)) = 2 /\ m.at \in 1..2
        BY <1>1, <1>2, <1>3, <1>6, <2>2, RevokeWritesAre DEF CallOk, WriteOk
    <2>4. f = "meta" => /\ packageDisk.package # PackageAbsent /\ packageDisk.manifest # PackageAbsent
                        /\ packageDisk.scenario[1] # PackageAbsent /\ packageDisk.grant.pkg # PackageAbsent
        BY <1>1, <1>2, <1>6 DEF CallOk, RevokeOk, SlotOk
    <2>5. CASE m.at = 1
        <3> PICK a \in Nat : a = 2
            OBVIOUS
        <3> PICK n : n = [m EXCEPT !.at = a]
            OBVIOUS
        <3>1. f = "meta" /\ barred' = barred
            BY <1>3, <1>6, <2>1, <2>3, <2>5
        <3>2. Written("meta", x) /\ packageDisk' = [packageDisk EXCEPT !.meta = x]
            BY <2>1, <2>3, <3>1
        <3>3. n \in CallShape /\ n.kind = m.kind /\ n.alone = m.alone /\ CallOk(n)'
            BY <1>1, <1>2, <1>6, <3>2, RevocationGoesOn
        <3>4. packageCall' = [d \in Callers |-> IF d # c THEN Noted(d, new) ELSE n]
            <4>1. [m EXCEPT !.at = @ + 1] = n
                BY <2>5 DEF CallShape
            <4> QED  BY <1>3, <1>6, <2>3, <2>5, <4>1
        <3>9. FileWrite(c, m, f, x, new, n)
            BY <1>1, <1>2, <2>1, <2>2, <2>3, <2>4, <3>1, <3>3, <3>4 DEF FileWrite
        <3> QED  BY <3>9, FileIsWritten
    <2>6. CASE m.at = 2
        <3> PICK n : n = PackageRest(PackageAbsent)
            OBVIOUS
        <3>1. n \in CallShape /\ n.kind = "rest" /\ ~n.alone
            BY RestFields
        <3>2. CallOk(n)'
            BY RestStaysOk DEF PackageRest
        <3>3. PackageEnd(c, PackageAbsent)[c] = n
            BY <1>1, <1>2, <1>6 DEF PackageEnd
        <3>4. packageCall' = [d \in Callers |-> IF d # c THEN Noted(d, new) ELSE n]
            BY <1>3, <1>6, <2>3, <2>6, <3>3
        <3>5. f = "grant" /\ ~x.trusted /\ barred' = ~\E d \in Callers : packageCall[d].kind = "register"
            BY <1>3, <1>6, <2>1, <2>3, <2>6
        <3>6. barred => barred'
            BY <3>5 DEF PackageInv, BarredOk
        <3>7. barred' => barred \/ (f = "grant" /\ ~x.trusted /\ ~\E d \in Callers : packageCall[d].kind = "register")
            BY <3>5
        <3>9. FileWrite(c, m, f, x, new, n)
            BY <1>1, <1>2, <2>1, <2>2, <2>3, <2>4, <3>1, <3>2, <3>4, <3>5, <3>6, <3>7 DEF FileWrite
        <3> QED  BY <3>9, FileIsWritten
    <2> QED  BY <2>3, <2>5, <2>6
<1> QED  BY <1>2, <1>4, <1>5, <1>6 DEF Writers

-----------------------------------------------------------------------------
\* An empty slot, every step, and what the invariant says of the answers.
LEMMA PackageInitOk ==
    ASSUME PackageInit
    PROVE  PackageInv
<1>1. PICK n : n = PackageRest(PackageAbsent)
    OBVIOUS
<1>2. n \in CallShape /\ n.kind = "rest" /\ CallOk(n)
    BY <1>1, RestFields, RestIsOk
<1>3. packageCall = [c \in Callers |-> n] /\ packageDisk = Empty /\ ~barred
    BY <1>1 DEF PackageInit
<1>4. \A c \in Callers : packageCall[c] = n
    BY <1>3
<1>5. CallsOk /\ packageCall \in [Callers -> CallShape]
    BY <1>2, <1>3, <1>4 DEF CallsOk
<1>6. SingleOk /\ BarredOk
    BY <1>2, <1>3, <1>4 DEF SingleOk, BarredOk
<1>7. SlotOk
    <2>1. NoMeta \in Metas /\ NoGrant \in Grants
        BY DEF NoMeta, NoGrant, Metas, Grants, MaybePackage, MaybeBase
    <2>2. <<PackageAbsent, PackageAbsent>> \in MaybePackage \X MaybeBase /\ PackageAbsent \in MaybePackage
        BY DEF MaybePackage, MaybeBase
    <2>3. Empty \in Slots /\ Empty.meta = NoMeta
        BY <2>1, <2>2 DEF Empty, Slots
    <2> QED  BY <1>3, <2>3 DEF SlotOk
<1> QED  BY <1>5, <1>6, <1>7 DEF PackageInv

LEMMA NextKeepsPackages ==
    ASSUME PackageInv, [PackageNext]_packageVars
    PROVE  PackageInv'
<1>1. ASSUME NEW c \in Deciders, NEW p \in Packages, NEW q \in Packages, NEW b \in Bases, Register(c, p, q, b)
      PROVE  PackageInv'
    BY <1>1, RegisterKeepsPackages DEF Callers
<1>2. ASSUME NEW c \in Deciders, Revoke(c)  PROVE PackageInv'
    BY <1>2, RevokeKeepsPackages DEF Callers
<1>3. ASSUME NEW c \in Deciders, Write(c)  PROVE PackageInv'
    BY <1>3, WriteKeepsPackages DEF Callers
<1>4. ASSUME NEW c \in Callers, Die(c) \/ Forget(c)  PROVE PackageInv'
    BY <1>4, DieKeepsPackages
<1>5. ASSUME NEW c \in PackageReaders, NEW kind \in Asks, NEW want \in MaybePackage, NEW fixed \in BOOLEAN,
             PackageAsk(c, kind, want, fixed)
      PROVE  PackageInv'
    BY <1>5, AskKeepsPackages DEF Callers
<1>6. ASSUME NEW c \in Callers, Read(c)  PROVE PackageInv'
    BY <1>6, ReadKeepsPackages
<1>7. ASSUME Swap \/ UNCHANGED packageVars  PROVE PackageInv'
    BY <1>7, SwapKeepsPackages
<1> QED  BY <1>1, <1>2, <1>3, <1>4, <1>5, <1>6, <1>7 DEF PackageNext, Callers, MaybePackage

LEMMA PackageInvIsSafe ==
    ASSUME PackageInv
    PROVE  PackageSafe
<1>1. ASSUME NEW c \in Callers
      PROVE  /\ packageCall[c].ans \in MaybePackage
             /\ packageCall[c].ans # PackageAbsent => packageCall[c].ans \in packageCall[c].granted
             /\ packageCall[c].shut => packageCall[c].ans = PackageAbsent
             /\ packageCall[c].ans # PackageAbsent => packageCall[c].pkg \in {PackageAbsent, packageCall[c].ans}
             /\ packageCall[c].was = "register" /\ packageCall[c].alone /\ reachable
                  /\ packageCall[c].kind = "rest" => packageCall[c].ans # PackageAbsent
    <2>1. PICK m \in CallShape : packageCall[c] = m /\ CallOk(m)
        BY CallsAre
    <2> QED  BY <2>1 DEF CallOk, CallShape, AnswerOk, ShutOk, AnsweredOk
<1>2. HandedIsGranted /\ RevocationBars /\ FrozenIsExact /\ RegisteredIsTrusted
    BY <1>1 DEF HandedIsGranted, RevocationBars, FrozenIsExact, RegisteredIsTrusted
<1>3. PackageTypeOK
    <2>1. /\ packageDisk.package \in MaybePackage /\ packageDisk.manifest \in MaybePackage
          /\ packageDisk.scenario[1] \in MaybePackage /\ packageDisk.scenario[2] \in MaybeBase
          /\ packageDisk.grant.pkg \in MaybePackage
          /\ packageDisk.meta.pkg \in MaybePackage /\ packageDisk.meta.base \in MaybeBase
        BY DEF PackageInv, SlotOk, Slots, Grants, Metas
    <2>2. packageDisk.meta # NoMeta => /\ packageDisk.grant # NoGrant /\ packageDisk.package # PackageAbsent
              /\ packageDisk.manifest # PackageAbsent /\ packageDisk.scenario[1] # PackageAbsent
        BY DEF PackageInv, SlotOk, NoGrant
    <2>3. \A c \in Callers : packageCall[c].ans \in MaybePackage
        BY <1>1
    <2> QED  BY <2>1, <2>2, <2>3 DEF PackageTypeOK, MaybePackage, MaybeBase
<1> QED  BY <1>2, <1>3 DEF PackageSafe

\* However registrations, revocations, readers and deaths interleave, what is
\* handed out was granted, a revocation bars, what a job froze is exact and an
\* undisturbed registration is trusted (register, revoke, capability, catalog).
THEOREM PackagesAreSafe == PackageSpec => []PackageSafe
<1>1. PackageInit => PackageInv
    BY PackageInitOk, LocalPackagesAssumption
<1>2. PackageInv /\ [PackageNext]_packageVars => PackageInv'
    BY NextKeepsPackages, LocalPackagesAssumption
<1>3. PackageInv => PackageSafe
    BY PackageInvIsSafe
<1> QED  BY <1>1, <1>2, <1>3, PTL DEF PackageSpec
-----------------------------------------------------------------------------
(* The two parts in the composed web service.                              *)

\* What a workspace keeps for its runs is safe beside the other parts of the
\* service, of which a behaviour moves one (web/uploads.py, web/local_packages.py).
THEOREM InputsAreSafe == WebSpec => []InputsSafe
<1>1. WebInit => UploadInit /\ PackageInit
    BY DEF WebInit
<1>2. ASSUME [WebNext]_webVars
      PROVE  [UploadNext]_uploadVars /\ [PackageNext]_packageVars
    BY <1>2 DEF WebNext, webVars, TurnMoves, ResearchMoves, JobMoves, LaunchMoves, DraftMoves,
                UploadMoves, PackageMoves
<1>3. WebSpec => UploadSpec /\ PackageSpec
    BY <1>1, <1>2, PTL DEF WebSpec, UploadSpec, PackageSpec
<1> QED  BY <1>3, UploadsAreSafe, PackagesAreSafe, PTL DEF InputsSafe
=============================================================================
