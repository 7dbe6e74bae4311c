------------------------- MODULE PublicationProofs ---------------------------
(***************************************************************************)
(* What becomes visible at a path, for any number of processes, crashes    *)
(* and power losses: an exclusive publication implements the write-once    *)
(* register (ExclusiveFile), racing creators of a cache root agree on its  *)
(* identity (CacheRoot), and a capture publishes a fixture that loads and  *)
(* holds what it acknowledged (ReplayCapture).                             *)
(***************************************************************************)
EXTENDS ExclusiveFile, CacheRoot, ReplayCapture, SequenceTheorems, TLAPS

------------------------------------------------------------------------------
(* Exclusive publication.                                                  *)

LEMMA ExclusiveInitInv == ExclusiveInit => ExclusiveInv
BY ExclusiveAssumption
   DEF ExclusiveInit, ExclusiveInv, ExclusiveTypeOK, EntryIsWhole, SuccessIsDurable,
       DurableIsVisible, Running

(* Every step keeps the invariant: an inode is whole before it is linked,  *)
(* the link happens only on a free path, and success is only reported once *)
(* the directory holds the link durably.                                   *)
LEMMA ExclusiveStepInv == ExclusiveInv /\ [ExclusiveNext]_exclusiveVars => ExclusiveInv'
<1> SUFFICES ASSUME ExclusiveInv, [ExclusiveNext]_exclusiveVars PROVE ExclusiveInv'
  OBVIOUS
<1> USE ExclusiveAssumption
    DEF ExclusiveInv, ExclusiveTypeOK, EntryIsWhole, SuccessIsDurable, DurableIsVisible,
        Running, Step
<1>1. CASE PowerCut
  BY <1>1 DEF PowerCut
<1>2. ASSUME NEW p \in Publisher, Create(p) PROVE ExclusiveInv'
  BY <1>2 DEF Create
<1>3. ASSUME NEW p \in Publisher, Fill(p) PROVE ExclusiveInv'
  BY <1>3 DEF Fill
<1>4. ASSUME NEW p \in Publisher, Link(p) PROVE ExclusiveInv'
  BY <1>4 DEF Link
<1>5. ASSUME NEW p \in Publisher, SyncDirectory(p) PROVE ExclusiveInv'
  BY <1>5 DEF SyncDirectory
<1>6. ASSUME NEW p \in Publisher, Return(p) PROVE ExclusiveInv'
  BY <1>6 DEF Return
<1>7. ASSUME NEW p \in Publisher, ProcessCrash(p) PROVE ExclusiveInv'
  BY <1>7 DEF ProcessCrash
<1>8. CASE UNCHANGED exclusiveVars
  BY <1>8 DEF exclusiveVars
<1> QED
  BY <1>1, <1>2, <1>3, <1>4, <1>5, <1>6, <1>7, <1>8 DEF ExclusiveNext

(* Always: whole documents only, and a reported success is durable.        *)
THEOREM ExclusiveInvariant == ExclusiveSpec => []ExclusiveInv
BY ExclusiveInitInv, ExclusiveStepInv, PTL DEF ExclusiveSpec

(* A reader never meets a partly written document, and a publisher told of *)
(* success has the path for ever.                                          *)
THEOREM ExclusiveSound == ExclusiveSpec => []PublicationSound
<1>1. ExclusiveInv => PublicationSound
  BY DEF ExclusiveInv, PublicationSound
<1> QED
  BY <1>1, ExclusiveInvariant, PTL

Acked == {p \in Publisher : ppc[p] = "acked"}

LEMMA ExclusiveStepRefines ==
    ExclusiveInv /\ [ExclusiveNext]_exclusiveVars
        => [Once!WriteOnceNext]_(Once!writeOnceVars)
<1> SUFFICES ASSUME ExclusiveInv, [ExclusiveNext]_exclusiveVars
             PROVE  [Once!WriteOnceNext]_(Once!writeOnceVars)
  OBVIOUS
<1>s. entry' = entry /\ Acked' = Acked => UNCHANGED Once!writeOnceVars
  BY DEF Once!writeOnceVars, Acked
<1>1. CASE PowerCut
  <2>1. Acked' = Acked
    BY <1>1 DEF PowerCut, Acked, Running, ExclusiveInv, ExclusiveTypeOK
  <2>2. CASE entry' = entry
    BY <2>1, <2>2, <1>s
  <2>3. CASE entry' # entry
    <3>1. entry' = NoFile
      BY <1>1, <2>3 DEF PowerCut, ExclusiveInv, DurableIsVisible
    <3>2. Acked = {}
      BY <1>1, <2>3, ExclusiveAssumption DEF PowerCut, Acked, ExclusiveInv, SuccessIsDurable, DurableIsVisible
    <3>3. Once!Forget({"path"})
      BY <3>1, <3>2, <2>1 DEF Once!Forget, Acked
    <3> QED
      BY <3>3 DEF Once!WriteOnceNext
  <2> QED
    BY <2>2, <2>3
<1>2. ASSUME NEW p \in Publisher, Create(p) \/ Fill(p) \/ SyncDirectory(p) \/ ProcessCrash(p)
      PROVE  [Once!WriteOnceNext]_(Once!writeOnceVars)
  <2>1. entry' = entry /\ Acked' = Acked
    BY <1>2 DEF Create, Fill, SyncDirectory, ProcessCrash, Step, Acked, Running, ExclusiveInv, ExclusiveTypeOK
  <2> QED
    BY <2>1, <1>s
<1>3. ASSUME NEW p \in Publisher, Link(p) PROVE [Once!WriteOnceNext]_(Once!writeOnceVars)
  <2>1. Acked' = Acked
    BY <1>3 DEF Link, Step, Acked, ExclusiveInv, ExclusiveTypeOK
  <2>2. CASE entry' = entry
    BY <2>1, <2>2, <1>s
  <2>3. CASE entry' # entry
    <3>1. entry = NoFile /\ entry' = p
      BY <1>3, <2>3 DEF Link
    <3>2. Once!Decide("path", p)
      BY <3>1, <2>1 DEF Once!Decide, Acked
    <3> QED
      BY <3>2 DEF Once!WriteOnceNext
  <2> QED
    BY <2>2, <2>3
<1>4. ASSUME NEW p \in Publisher, Return(p) PROVE [Once!WriteOnceNext]_(Once!writeOnceVars)
  <2>1. entry' = entry
    BY <1>4 DEF Return
  <2>2. CASE Step(p, "synced", "acked")
    <3>1. Acked' = Acked \cup {p}
      BY <2>2 DEF Step, Acked, ExclusiveInv, ExclusiveTypeOK
    <3>2. entry = p
      BY <2>2 DEF Step, ExclusiveInv, SuccessIsDurable
    <3>3. Once!Claim("path", p)
      BY <3>1, <3>2, <2>1 DEF Once!Claim, Acked
    <3> QED
      BY <3>3 DEF Once!WriteOnceNext
  <2>3. CASE Step(p, "synced", "failed") \/ Step(p, "failing", "failed")
    <3>1. Acked' = Acked
      BY <2>3 DEF Step, Acked, ExclusiveInv, ExclusiveTypeOK
    <3> QED
      BY <3>1, <2>1, <1>s
  <2> QED
    BY <1>4, <2>2, <2>3 DEF Return
<1>5. CASE UNCHANGED exclusiveVars
  BY <1>5, <1>s DEF exclusiveVars, Acked
<1> QED
  BY <1>1, <1>2, <1>3, <1>4, <1>5 DEF ExclusiveNext

(* The system calls of PublishSensitiveExclusive implement the write-once  *)
(* register that its callers are modelled with.                            *)
THEOREM ExclusiveRefinesWriteOnce == ExclusiveSpec => PublishesOnce
<1>1. ExclusiveInit => Once!WriteOnceInit
  BY DEF ExclusiveInit, Once!WriteOnceInit
<1> QED
  BY <1>1, ExclusiveInvariant, ExclusiveStepRefines, PTL
     DEF ExclusiveSpec, PublishesOnce, Once!WriteOnceSpec

------------------------------------------------------------------------------
(* Creation of a cache root.                                               *)

LEMMA CacheRootInitInv == CacheRootInit => CacheRootInv
BY DEF CacheRootInit, CacheRootInv, CacheRootTypeOK, OneIdentity, LeftoversHaveOwner, LockInv, Underway

(* Every step keeps the invariant.  The lock is why: the marker can only   *)
(* change under it, and its holder looked again after taking it.           *)
LEMMA CacheRootStepInv == CacheRootInv /\ [CacheRootNext]_cacheRootVars => CacheRootInv'
<1> SUFFICES ASSUME CacheRootInv, [CacheRootNext]_cacheRootVars PROVE CacheRootInv'
  OBVIOUS
<1> USE DEF CacheRootInv, CacheRootTypeOK, OneIdentity, LeftoversHaveOwner, LockInv, Underway,
            Advance, ReturnRoot
<1>1. ASSUME NEW c \in Creator, OpenExisting(c) PROVE CacheRootInv'
  BY <1>1 DEF OpenExisting
<1>2. ASSUME NEW c \in Creator, Inspect(c) PROVE CacheRootInv'
  BY <1>2 DEF Inspect
<1>3. ASSUME NEW c \in Creator, Reopen(c) PROVE CacheRootInv'
  BY <1>3 DEF Reopen
<1>4. ASSUME NEW c \in Creator, TakeLock(c) PROVE CacheRootInv'
  <2>1. CacheRootTypeOK'
    BY <1>4 DEF TakeLock
  <2>2. OneIdentity'
    BY <1>4 DEF TakeLock
  <2>3. LeftoversHaveOwner'
    BY <1>4 DEF TakeLock
  <2>4. LockInv'
    BY <1>4 DEF TakeLock
  <2> QED
    BY <2>1, <2>2, <2>3, <2>4
<1>5. ASSUME NEW c \in Creator, LookAgain(c) PROVE CacheRootInv'
  BY <1>5 DEF LookAgain
<1>6. ASSUME NEW c \in Creator, Stage(c) PROVE CacheRootInv'
  BY <1>6 DEF Stage
<1>7. ASSUME NEW c \in Creator, Publish(c) PROVE CacheRootInv'
  BY <1>7, CacheRootAssumption DEF Publish
<1>8. ASSUME NEW c \in Creator, Unlock(c) PROVE CacheRootInv'
  <2>1. CacheRootTypeOK'
    BY <1>8 DEF Unlock
  <2>2. OneIdentity'
    BY <1>8 DEF Unlock
  <2>3. LeftoversHaveOwner'
    BY <1>8 DEF Unlock
  <2>4. LockInv'
    BY <1>8 DEF Unlock
  <2> QED
    BY <2>1, <2>2, <2>3, <2>4
<1>9. ASSUME NEW c \in Creator, Kill(c) PROVE CacheRootInv'
  BY <1>9 DEF Kill
<1>10. CASE UNCHANGED cacheRootVars
  BY <1>10 DEF cacheRootVars
<1> QED
  BY <1>1, <1>2, <1>3, <1>4, <1>5, <1>6, <1>7, <1>8, <1>9, <1>10 DEF CacheRootNext

(* Whoever returned a root returned the one in the marker, and only        *)
(* leftovers of a rival turn a creator away.                               *)
THEOREM CacheRootInvariant == CacheRootSpec => []CacheRootInv
BY CacheRootInitInv, CacheRootStepInv, PTL DEF CacheRootSpec

(* All processes that hold the cache root hold the same identity.          *)
THEOREM CacheRootAgreement == CacheRootSpec => []OneIdentity
<1>1. CacheRootInv => OneIdentity
  BY DEF CacheRootInv
<1> QED
  BY <1>1, CacheRootInvariant, PTL

(* What the creators were told, as the write-once register has it.         *)
Opened(c) == kpc[c] = "opened"

Told == {root[c] : c \in {d \in Creator : Opened(d)}}

LEMMA RegisterOfRoot ==
    /\ Identity!writeOnceVars = <<[n \in {"root"} |-> marker], [n \in {"root"} |-> Told]>>
    /\ Identity!writeOnceVars' = <<[n \in {"root"} |-> marker'], [n \in {"root"} |-> Told']>>
BY DEF Identity!writeOnceVars, Told, Opened

(* A creator that opens the root claims the identity that is in the        *)
(* marker; any other step of it tells nobody.                              *)
LEMMA OpeningClaims ==
    ASSUME CacheRootInv, NEW c \in Creator, marker' = marker, marker \in Creator,
           kpc' = [kpc EXCEPT ![c] = "opened"],
           root' = [root EXCEPT ![c] = marker], kpc[c] # "opened"
    PROVE  Identity!WriteOnceNext
<1>1. DOMAIN kpc = Creator /\ root \in [Creator -> Creator \cup {NoRoot}]
  BY DEF CacheRootInv, CacheRootTypeOK
<1>2. Told' = Told \cup {marker}
  <2>1. \A d \in Creator : Opened(d)' <=> d = c \/ Opened(d)
    BY <1>1 DEF Opened
  <2>2. \A d \in Creator : root'[d] = IF d = c THEN marker ELSE root[d]
    BY <1>1
  <2>3. ASSUME NEW x \in Told' PROVE x \in Told \cup {marker}
    <3>1. PICK d \in Creator : Opened(d)' /\ x = root'[d]
      BY <2>3 DEF Told
    <3>. QED BY <2>1, <2>2, <3>1 DEF Told
  <2>4. ASSUME NEW x \in Told PROVE x \in Told'
    <3>1. PICK d \in Creator : Opened(d) /\ x = root[d]
      BY <2>4 DEF Told
    <3>2. d # c
      BY <3>1 DEF Opened
    <3>. QED BY <2>1, <2>2, <3>1, <3>2 DEF Told
  <2>5. marker \in Told'
    BY <2>1, <2>2 DEF Told
  <2>. QED BY <2>3, <2>4, <2>5
<1>3. PICK id \in Creator : id = marker
  OBVIOUS
<1>4. Identity!Claim("root", id)
  BY <1>2, <1>3 DEF Identity!Claim, Told, Opened
<1>. QED BY <1>4 DEF Identity!WriteOnceNext

LEMMA NobodyTold ==
    ASSUME CacheRootInv, NEW c \in Creator, NEW to, to # "opened", kpc[c] # "opened",
           kpc' = [kpc EXCEPT ![c] = to],
           \A d \in Creator \ {c} : root'[d] = root[d]
    PROVE  Told' = Told
<1>1. DOMAIN kpc = Creator
  BY DEF CacheRootInv, CacheRootTypeOK
<1>2. \A d \in Creator : Opened(d)' <=> Opened(d)
  BY <1>1 DEF Opened
<1>3. \A d \in Creator : Opened(d) => d # c
  BY DEF Opened
<1>. QED BY <1>2, <1>3 DEF Told

(* Writing the marker decides, under the lock and only once; opening it    *)
(* claims.                                                                 *)
LEMMA CacheRootStepRefines ==
    CacheRootInv /\ [CacheRootNext]_cacheRootVars => [Identity!WriteOnceNext]_(Identity!writeOnceVars)
<1> SUFFICES ASSUME CacheRootInv, [CacheRootNext]_cacheRootVars
             PROVE  [Identity!WriteOnceNext]_(Identity!writeOnceVars)
  OBVIOUS
<1>0. /\ kpc \in [Creator -> Underway \cup {"start", "unowned", "reopen", "allowed", "opened", "busy",
                                            "refused", "failed", "stuck", "dead"}]
      /\ root \in [Creator -> Creator \cup {NoRoot}] /\ marker \in Creator \cup {NoRoot}
  BY DEF CacheRootInv, CacheRootTypeOK
<1>1. ASSUME NEW c \in Creator, NEW from, from # "opened", marker # NoRoot, marker' = marker,
             ReturnRoot(c, from, marker)
      PROVE  Identity!WriteOnceNext
  BY <1>0, <1>1, OpeningClaims DEF ReturnRoot, Advance
<1>2. ASSUME NEW c \in Creator, NEW from, from # "opened", NEW to, to # "opened", Advance(c, from, to),
             \A d \in Creator \ {c} : root'[d] = root[d], marker' = marker
      PROVE  UNCHANGED Identity!writeOnceVars
  BY <1>2, NobodyTold, RegisterOfRoot DEF Advance
<1>3. ASSUME NEW c \in Creator, OpenExisting(c)
      PROVE  [Identity!WriteOnceNext]_(Identity!writeOnceVars)
  BY <1>1, <1>2, <1>3 DEF OpenExisting
<1>4. ASSUME NEW c \in Creator, Inspect(c)
      PROVE  UNCHANGED Identity!writeOnceVars
  <2>1. PICK to \in {"reopen", "busy", "allowed"} : Advance(c, "unowned", to)
    BY <1>4 DEF Inspect
  <2>. QED BY <1>2, <1>4, <2>1 DEF Inspect
<1>5. ASSUME NEW c \in Creator, Reopen(c)
      PROVE  [Identity!WriteOnceNext]_(Identity!writeOnceVars)
  BY <1>1, <1>2, <1>5 DEF Reopen
<1>6. ASSUME NEW c \in Creator, TakeLock(c)
      PROVE  UNCHANGED Identity!writeOnceVars
  <2>1. PICK to \in {"busy", "locked", "failed", "stuck"} : Advance(c, "allowed", to)
    BY <1>6 DEF TakeLock
  <2>. QED BY <1>2, <1>6, <2>1 DEF TakeLock
<1>7. ASSUME NEW c \in Creator, LookAgain(c)
      PROVE  UNCHANGED Identity!writeOnceVars
  <2>1. PICK to \in {"unlock_opened", "unlock_failed", "writing"} : Advance(c, "locked", to)
    BY <1>7 DEF LookAgain
  <2>2. \A d \in Creator \ {c} : root'[d] = root[d]
    BY <1>0, <1>7 DEF LookAgain
  <2>. QED BY <1>2, <1>7, <2>1, <2>2 DEF LookAgain
<1>8. ASSUME NEW c \in Creator, Stage(c)
      PROVE  UNCHANGED Identity!writeOnceVars
  <2>1. PICK to \in {"staged", "unlock_failed"} : Advance(c, "writing", to)
    BY <1>8 DEF Stage
  <2>. QED BY <1>2, <1>8, <2>1 DEF Stage
<1>9. ASSUME NEW c \in Creator, Publish(c)
      PROVE  [Identity!WriteOnceNext]_(Identity!writeOnceVars)
  <2>1. PICK to \in {"unlock_opened", "unlock_failed"} : Advance(c, "staged", to)
    BY <1>9 DEF Publish
  <2>2. \A d \in Creator \ {c} : root'[d] = root[d]
    BY <1>0, <1>9 DEF Publish
  <2>3. CASE marker' = c
    <3>1. marker = NoRoot
      BY <2>1 DEF Advance, CacheRootInv, LockInv
    <3>2. Told' = Told
      BY <2>1, <2>2, NobodyTold DEF Advance
    <3>3. Identity!Decide("root", c)
      BY <2>3, <3>1, <3>2 DEF Identity!Decide, Told, Opened
    <3>. QED BY <3>3 DEF Identity!WriteOnceNext
  <2>4. CASE marker' = marker
    BY <1>2, <2>1, <2>2, <2>4
  <2>. QED BY <1>9, <2>3, <2>4 DEF Publish
<1>10. ASSUME NEW c \in Creator, Unlock(c)
       PROVE  [Identity!WriteOnceNext]_(Identity!writeOnceVars)
  <2>1. CASE Advance(c, "unlock_opened", "opened") /\ UNCHANGED root
    <3>1. kpc[c] = "unlock_opened" /\ kpc' = [kpc EXCEPT ![c] = "opened"] /\ marker' = marker
      BY <1>10, <2>1 DEF Advance, Unlock
    <3>2. root[c] = marker /\ marker \in Creator
      BY <1>0, <3>1 DEF CacheRootInv, LockInv, OneIdentity
    <3>3. root' = [root EXCEPT ![c] = marker]
      BY <1>0, <2>1, <3>2
    <3>. QED BY <3>1, <3>2, <3>3, OpeningClaims
  <2>2. CASE ~(Advance(c, "unlock_opened", "opened") /\ UNCHANGED root)
    <3>1. PICK from \in {"unlock_opened", "unlock_failed"}, to \in {"failed", "stuck"} : Advance(c, from, to)
      BY <1>10, <2>2 DEF Unlock
    <3>2. \A d \in Creator \ {c} : root'[d] = root[d]
      BY <1>0, <1>10 DEF Unlock
    <3>. QED BY <1>2, <1>10, <3>1, <3>2 DEF Unlock
  <2>. QED BY <2>1, <2>2
<1>11. ASSUME NEW c \in Creator, Kill(c)
       PROVE  UNCHANGED Identity!writeOnceVars
  <2>1. \A d \in Creator \ {c} : root'[d] = root[d]
    BY <1>0, <1>11 DEF Kill
  <2>2. Told' = Told
    BY <1>11, <2>1, NobodyTold DEF Kill, Underway
  <2>. QED BY <1>11, <2>2, RegisterOfRoot DEF Kill
<1>12. CASE UNCHANGED cacheRootVars
  BY <1>12, RegisterOfRoot DEF cacheRootVars, Told, Opened
<1>. QED BY <1>3, <1>4, <1>5, <1>6, <1>7, <1>8, <1>9, <1>10, <1>11, <1>12 DEF CacheRootNext

(* The identity of a cache root (CreateCacheRoot) implements a write-once  *)
(* register for any number of racing creators and deaths.                  *)
THEOREM CacheRootRefinesWriteOnce == CacheRootSpec => RootIsWrittenOnce
<1>1. CacheRootInit => Identity!WriteOnceInit
  BY DEF CacheRootInit, Identity!WriteOnceInit
<1>. QED BY <1>1, CacheRootInvariant, CacheRootStepRefines, PTL
         DEF CacheRootSpec, RootIsWrittenOnce, Identity!WriteOnceSpec

(* A lock or temporary marker never stays without a creator behind it, so  *)
(* creation keeps all it promises.                                         *)
THEOREM CacheRootIsSound == CacheRootSpec => []RootSound
<1>1. CacheRootInv => RootSound
  BY DEF CacheRootInv, RootSound
<1> QED
  BY <1>1, CacheRootInvariant, PTL

------------------------------------------------------------------------------
(* Capture into a replay fixture.                                          *)

Renamed == {"renamed", "published", "unsynced", "dead"}

FileOf(c) == [by |-> c, recs |-> candidate[c]]

(* A file at the path loads; one that a capture put there is its whole     *)
(* candidate, synced, and took the place of what the capture had verified. *)
FileOK(f) ==
    /\ LoadReplay(f) /\ (f.by = "none" => f.recs = <<>>)
    /\ f.by \in Capture =>
          /\ f.by \in synced /\ f.recs = candidate[f.by] /\ cpc[f.by] \in Renamed
          /\ fileDigest(verified[f.by]) = digest[f.by]
          /\ ~overwrite[f.by] => KeysOf(handle[f.by].recs) \subseteq KeysOf(candidate[f.by])

(* What a capture acknowledged is in its candidate, which is complete and  *)
(* checked by the time it is renamed.                                      *)
CaptureOK(c) ==
    /\ cpc[c] \in {"start", "digested", "opened", "refused"} =>
          \A i \in Call : call[c][i] = "idle"
    /\ AckedKeys(c) \subseteq KeysOf(candidate[c])
    /\ cpc[c] \in {"checked", "verified"} => c \in synced /\ LoadReplay(FileOf(c))
    /\ cpc[c] = "verified" => fileDigest(verified[c]) = digest[c]
    /\ cpc[c] \in {"ready", "flushed", "checked", "verified"} /\ ~overwrite[c] =>
          KeysOf(handle[c].recs) \subseteq KeysOf(candidate[c])
    /\ cpc[c] \in {"renamed", "published"} => c \in synced
    /\ cpc[c] = "renamed" /\ renamer = c => target = FileOf(c)
    /\ cpc[c] = "published" /\ renamer = c => target = FileOf(c) /\ disk = target

CaptureInv ==
    /\ CaptureTypeOK
    /\ FileOK(target) /\ FileOK(disk)
    /\ \A c \in Capture : CaptureOK(c)

LEMMA AppendKeys ==
    ASSUME NEW S, NEW recs \in Seq(S), NEW r \in S
    PROVE  KeysOf(Append(recs, r)) = KeysOf(recs) \cup {r.key}
<1>1. /\ Append(recs, r) \in Seq(S) /\ Len(Append(recs, r)) = Len(recs) + 1
      /\ \A n \in 1 .. Len(recs) : Append(recs, r)[n] = recs[n]
      /\ Append(recs, r)[Len(recs) + 1] = r /\ Len(recs) \in Nat
  BY AppendProperties, LenProperties
<1>2. DOMAIN recs = 1 .. Len(recs) /\ DOMAIN Append(recs, r) = 1 .. Len(recs) + 1
  BY <1>1, LenProperties
<1>. QED BY <1>1, <1>2 DEF KeysOf

LEMMA CaptureInitHolds ==
    ASSUME CaptureInit PROVE CaptureInv
<1> USE DEF CaptureInit
<1>1. target \in File /\ disk \in File /\ FileOK(target) /\ FileOK(disk)
  <2>1. target = Absent \/ (target \in File /\ target.by = "original" /\ LoadReplay(target))
    BY OriginalAssumption
  <2>2. Absent \in File /\ Absent.by = "none" /\ Absent.recs = <<>>
    BY EmptySeq DEF Absent, File
  <2>3. LoadReplay(Absent)
    BY EmptySeq DEF LoadReplay, Absent
  <2>4. target \in File /\ LoadReplay(target) /\ target.by \notin Capture
        /\ (target.by = "none" => target.recs = <<>>)
    BY <2>1, <2>2, <2>3, CaptureAssumption
  <2>. QED BY <2>4 DEF FileOK
<1>2. CaptureTypeOK
  <2>1. Absent \in File /\ fileDigest(Absent) \in [exists : BOOLEAN, recs : Seq(fixtureEntry)] /\ <<>> \in Seq(fixtureEntry)
    BY EmptySeq DEF Absent, File, fileDigest
  <2>2. /\ cpc \in [Capture -> {"start", "digested", "opened", "ready", "refused", "dead"} \cup Closing \cup Returned]
        /\ call \in [Capture -> [Call -> {"idle", "asked", "acked", "failed"}]]
    OBVIOUS
  <2>3. askedKey \in [Capture -> [Call -> Key]]
    BY CaptureAssumption
  <2>4. losses \in 0 .. Crashes
    BY CaptureAssumption
  <2>. QED BY <1>1, <2>1, <2>2, <2>3, <2>4 DEF CaptureTypeOK
<1>3. ASSUME NEW c \in Capture PROVE CaptureOK(c)
  <2>1. cpc[c] = "start" /\ \A i \in Call : call[c][i] = "idle"
    OBVIOUS
  <2>2. AckedKeys(c) = {}
    BY <2>1 DEF AckedKeys
  <2>. QED BY <2>1, <2>2 DEF CaptureOK
<1>. QED BY <1>1, <1>2, <1>3 DEF CaptureInv

(* A step of one capture that leaves the path alone: it has not renamed    *)
(* yet, or it keeps what its file was made from.                           *)
LEMMA CaptureStepsAside ==
    ASSUME CaptureInv, NEW c \in Capture, CaptureTypeOK', CaptureOK(c)',
           UNCHANGED <<target, disk, renamer, overwrite>>, synced \subseteq synced',
           \A d \in Capture \ {c} :
               /\ cpc'[d] = cpc[d] /\ candidate'[d] = candidate[d] /\ verified'[d] = verified[d]
               /\ digest'[d] = digest[d] /\ handle'[d] = handle[d]
               /\ call'[d] = call[d] /\ askedKey'[d] = askedKey[d],
           cpc[c] \in Renamed =>
               /\ cpc'[c] \in Renamed /\ candidate'[c] = candidate[c] /\ verified'[c] = verified[c]
               /\ digest'[c] = digest[c] /\ handle'[c] = handle[c]
    PROVE  CaptureInv'
<1>1. ASSUME NEW f, FileOK(f) PROVE FileOK(f)'
  <2>1. CASE f.by \in Capture
    <3>1. cpc[f.by] \in Renamed
      BY <1>1, <2>1 DEF FileOK
    <3>2. /\ cpc'[f.by] \in Renamed /\ candidate'[f.by] = candidate[f.by]
          /\ verified'[f.by] = verified[f.by] /\ digest'[f.by] = digest[f.by]
          /\ handle'[f.by] = handle[f.by]
      BY <2>1, <3>1 DEF Renamed
    <3>. QED BY <1>1, <2>1, <3>2 DEF FileOK
  <2>2. CASE f.by \notin Capture
    BY <1>1, <2>2 DEF FileOK
  <2>. QED BY <2>1, <2>2
<1>2. FileOK(target)' /\ FileOK(disk)'
  BY <1>1 DEF CaptureInv, FileOK
<1>3. ASSUME NEW d \in Capture, d # c PROVE CaptureOK(d)'
  <2>1. CaptureOK(d)
    BY DEF CaptureInv
  <2>. QED BY <1>3, <2>1 DEF CaptureOK, AckedKeys, FileOf
<1>. QED BY <1>2, <1>3 DEF CaptureInv

LEMMA OpeningKeeps ==
    ASSUME CaptureInv, NEW c \in Capture, WrapDigest(c) \/ WrapOpen(c) \/ WrapCopy(c)
    PROVE  CaptureInv'
<1>0. CaptureTypeOK /\ CaptureOK(c) /\ FileOK(target)
  BY DEF CaptureInv
<1> USE DEF MoveTo, Closing, Returned
<1>1. CASE WrapDigest(c)
  <2>1. CaptureTypeOK'
    BY <1>0, <1>1 DEF WrapDigest, CaptureTypeOK, fileDigest, File
  <2>2. /\ cpc[c] = "start" /\ cpc'[c] \in {"ready", "digested"} /\ (cpc'[c] = "ready" => overwrite[c])
        /\ AckedKeys(c)' = AckedKeys(c)
    BY <1>0, <1>1 DEF WrapDigest, CaptureTypeOK, AckedKeys
  <2>3. CaptureOK(c)'
    BY <1>0, <1>1, <2>2 DEF WrapDigest, CaptureOK
  <2>. QED BY <1>0, <1>1, <2>1, <2>2, <2>3, CaptureStepsAside DEF WrapDigest, CaptureTypeOK, Renamed
<1>2. CASE WrapOpen(c)
  <2>1. CaptureTypeOK'
    BY <1>0, <1>2 DEF WrapOpen, CaptureTypeOK
  <2>2. /\ cpc[c] = "digested" /\ cpc'[c] \in {"ready", "opened"} /\ handle'[c] = target
        /\ (cpc'[c] = "ready" => target.by = "none")
        /\ AckedKeys(c)' = AckedKeys(c)
    BY <1>0, <1>2 DEF WrapOpen, CaptureTypeOK, AckedKeys
  <2>3. target.by = "none" => KeysOf(target.recs) = {}
    BY <1>0 DEF FileOK, KeysOf
  <2>4. CaptureOK(c)'
    BY <1>0, <1>2, <2>2, <2>3 DEF WrapOpen, CaptureOK
  <2>. QED BY <1>0, <1>2, <2>1, <2>2, <2>4, CaptureStepsAside DEF WrapOpen, CaptureTypeOK, Renamed
<1>3. CASE WrapCopy(c)
  <2>1. CaptureTypeOK'
    BY <1>0, <1>3 DEF WrapCopy, CaptureTypeOK, File
  <2>2. /\ cpc[c] = "opened" /\ cpc'[c] \in {"ready", "refused"}
        /\ (cpc'[c] = "ready" => candidate'[c] = handle[c].recs)
    BY <1>0, <1>3 DEF WrapCopy, CaptureTypeOK
  <2>3. AckedKeys(c)' = {}
    BY <1>0, <1>3, <2>2 DEF WrapCopy, CaptureOK, AckedKeys
  <2>4. CaptureOK(c)'
    BY <1>0, <1>3, <2>2, <2>3 DEF WrapCopy, CaptureOK
  <2>. QED BY <1>0, <1>3, <2>1, <2>2, <2>4, CaptureStepsAside DEF WrapCopy, CaptureTypeOK, Renamed
<1>. QED BY <1>1, <1>2, <1>3

LEMMA CallKeeps ==
    ASSUME CaptureInv, NEW c \in Capture, NEW i \in Call,
           Ask(c, i) \/ Record(c, i) \/ RecordFails(c, i) \/ RecordRefused(c, i)
    PROVE  CaptureInv'
<1>0. CaptureTypeOK /\ CaptureOK(c)
  BY DEF CaptureInv
<1> USE DEF Closing, Returned
<1>1. CASE Ask(c, i)
  <2>1. CaptureTypeOK'
    BY <1>0, <1>1 DEF Ask, CaptureTypeOK
  <2>2. cpc[c] \notin {"start", "digested", "opened", "refused"}
    BY <1>1 DEF Ask
  <2>3. /\ call[c][i] = "idle" /\ call'[c][i] = "asked"
        /\ \A j \in Call \ {i} : call'[c][j] = call[c][j]
    BY <1>0, <1>1 DEF Ask, CaptureTypeOK
  <2>4. \A j \in Call \ {i} : askedKey'[c][j] = askedKey[c][j]
    <3>1. PICK k \in Key : askedKey' = [askedKey EXCEPT ![c][i] = k]
      BY <1>1 DEF Ask
    <3>. QED BY <1>0, <3>1 DEF CaptureTypeOK
  <2>5. AckedKeys(c)' = AckedKeys(c)
    BY <2>3, <2>4 DEF AckedKeys
  <2>6. CaptureOK(c)'
    BY <1>0, <1>1, <2>2, <2>5 DEF Ask, CaptureOK, FileOf
  <2>. QED BY <1>0, <1>1, <2>1, <2>6, CaptureStepsAside DEF Ask, CaptureTypeOK
<1>2. CASE Record(c, i)
  <2> DEFINE r == [key |-> askedKey[c][i], by |-> c]
  <2>0. r \in fixtureEntry /\ candidate[c] \in Seq(fixtureEntry)
    BY <1>0 DEF CaptureTypeOK, fixtureEntry
  <2>1. /\ candidate' = [candidate EXCEPT ![c] = Append(candidate[c], r)]
        /\ Append(candidate[c], r) \in Seq(fixtureEntry)
    BY <1>2, <2>0, AppendProperties DEF Record
  <2>2. CaptureTypeOK'
    BY <1>0, <1>2, <2>1 DEF Record, Answer, CaptureTypeOK
  <2>3. candidate'[c] = Append(candidate[c], r)
    BY <1>0, <2>1 DEF CaptureTypeOK
  <2>4. KeysOf(candidate'[c]) = KeysOf(candidate[c]) \cup {askedKey[c][i]}
    BY <2>0, <2>3, AppendKeys
  <2>5. /\ cpc[c] = "ready" /\ cpc' = cpc
        /\ AckedKeys(c)' \subseteq AckedKeys(c) \cup {askedKey[c][i]}
    BY <1>0, <1>2 DEF Record, Answer, CaptureTypeOK, AckedKeys
  <2>6. CaptureOK(c)'
    BY <1>0, <1>2, <2>4, <2>5 DEF Record, Answer, CaptureOK
  <2>. QED BY <1>0, <1>2, <2>1, <2>2, <2>5, <2>6, CaptureStepsAside
           DEF Record, Answer, CaptureTypeOK, Renamed
<1>3. CASE RecordFails(c, i) \/ RecordRefused(c, i)
  <2>0. /\ call' = [call EXCEPT ![c][i] = "failed"]
        /\ UNCHANGED <<target, disk, synced, overwrite, cpc, digest, handle, askedKey,
                        verified, renamer, losses, candidate>>
    BY <1>3 DEF RecordFails, RecordRefused, Answer
  <2>4. /\ call' \in [Capture -> [Call -> {"idle", "asked", "acked", "failed"}]]
        /\ sticky' \in [Capture -> BOOLEAN]
    BY <1>0, <1>3, <2>0 DEF RecordFails, RecordRefused, CaptureTypeOK
  <2>1. CaptureTypeOK'
    BY <1>0, <2>0, <2>4 DEF CaptureTypeOK
  <2>2. /\ cpc' = cpc /\ candidate' = candidate /\ call[c][i] # "idle"
        /\ AckedKeys(c)' = AckedKeys(c)
    BY <1>0, <1>3 DEF RecordFails, RecordRefused, Answer, CaptureTypeOK, AckedKeys
  <2>3. CaptureOK(c)'
    BY <1>0, <1>3, <2>2 DEF RecordFails, RecordRefused, Answer, CaptureOK, FileOf
  <2>. QED BY <1>0, <1>3, <2>1, <2>2, <2>3, CaptureStepsAside
           DEF RecordFails, RecordRefused, Answer, CaptureTypeOK
<1>. QED BY <1>1, <1>2, <1>3

LEMMA ClosingKeeps ==
    ASSUME CaptureInv, NEW c \in Capture, CloseFlush(c) \/ CloseCheck(c) \/ CloseVerify(c)
    PROVE  CaptureInv'
<1>0. CaptureTypeOK /\ CaptureOK(c)
  BY DEF CaptureInv
<1> USE DEF MoveTo, Closing, Returned
<1>1. CASE CloseFlush(c)
  <2>1. CaptureTypeOK'
    BY <1>0, <1>1 DEF CloseFlush, CaptureTypeOK
  <2>2. /\ cpc[c] = "ready" /\ cpc'[c] \in {"flushed", "retained"}
        /\ AckedKeys(c)' = AckedKeys(c)
    BY <1>0, <1>1 DEF CloseFlush, CaptureTypeOK, AckedKeys
  <2>3. CaptureOK(c)'
    BY <1>0, <1>1, <2>2 DEF CloseFlush, CaptureOK
  <2>. QED BY <1>0, <1>1, <2>1, <2>2, <2>3, CaptureStepsAside DEF CloseFlush, CaptureTypeOK, Renamed
<1>2. CASE CloseCheck(c)
  <2>1. CaptureTypeOK' /\ synced \subseteq synced'
    BY <1>0, <1>2 DEF CloseCheck, CaptureTypeOK
  <2>2. /\ cpc[c] = "flushed" /\ cpc'[c] \in {"checked", "retained"}
        /\ (cpc'[c] = "checked" => c \in synced' /\ LoadReplay(FileOf(c)))
        /\ AckedKeys(c)' = AckedKeys(c)
    BY <1>0, <1>2 DEF CloseCheck, CaptureTypeOK, AckedKeys, FileOf
  <2>3. CaptureOK(c)'
    BY <1>0, <1>2, <2>2 DEF CloseCheck, CaptureOK, FileOf
  <2>. QED BY <1>0, <1>2, <2>1, <2>2, <2>3, CaptureStepsAside DEF CloseCheck, CaptureTypeOK, Renamed
<1>3. CASE CloseVerify(c)
  <2>1. CaptureTypeOK'
    BY <1>0, <1>3 DEF CloseVerify, CaptureTypeOK
  <2>2. /\ cpc[c] = "checked" /\ cpc'[c] \in {"verified", "retained"} /\ verified'[c] = target
        /\ (cpc'[c] = "verified" => fileDigest(target) = digest[c])
        /\ AckedKeys(c)' = AckedKeys(c)
    BY <1>0, <1>3 DEF CloseVerify, CaptureTypeOK, AckedKeys
  <2>3. CaptureOK(c)'
    BY <1>0, <1>3, <2>2 DEF CloseVerify, CaptureOK, FileOf
  <2>. QED BY <1>0, <1>3, <2>1, <2>2, <2>3, CaptureStepsAside DEF CloseVerify, CaptureTypeOK, Renamed
<1>. QED BY <1>1, <1>2, <1>3

LEMMA RenamingKeeps ==
    ASSUME CaptureInv, NEW c \in Capture, CloseRename(c)
    PROVE  CaptureInv'
<1>0. CaptureTypeOK /\ CaptureOK(c) /\ FileOK(disk) /\ c \notin {"none", "torn", "original"}
  BY CaptureAssumption DEF CaptureInv
<1> USE DEF MoveTo, Closing, Returned
<1>1. CASE MoveTo(c, "verified", "retained") /\ UNCHANGED <<target, renamer>>
  <2>1. CaptureTypeOK'
    BY <1>0, <1>1 DEF CloseRename, CaptureTypeOK
  <2>2. /\ cpc[c] = "verified" /\ cpc'[c] = "retained"
        /\ AckedKeys(c)' = AckedKeys(c)
    BY <1>0, <1>1 DEF CloseRename, CaptureTypeOK, AckedKeys
  <2>3. CaptureOK(c)'
    BY <1>0, <1>1, <2>2 DEF CloseRename, CaptureOK
  <2>. QED BY <1>0, <1>1, <2>1, <2>2, <2>3, CaptureStepsAside DEF CloseRename, CaptureTypeOK, Renamed
<1>2. CASE MoveTo(c, "verified", "renamed") /\ target' = FileOf(c) /\ renamer' = c
  <2>0. UNCHANGED <<disk, synced, overwrite, digest, handle, candidate, call, askedKey, verified>>
    BY DEF CloseRename
  <2>1. FileOf(c) \in File
    BY <1>0 DEF CaptureTypeOK, File, FileOf
  <2>2. CaptureTypeOK'
    BY <1>0, <1>2, <2>0, <2>1 DEF CloseRename, CaptureTypeOK
  <2>3. /\ cpc[c] = "verified" /\ cpc'[c] = "renamed"
        /\ \A d \in Capture \ {c} : cpc'[d] = cpc[d]
    BY <1>0, <1>2 DEF CaptureTypeOK
  <2>4. /\ LoadReplay(FileOf(c)) /\ c \in synced /\ fileDigest(verified[c]) = digest[c]
        /\ ~overwrite[c] => KeysOf(handle[c].recs) \subseteq KeysOf(candidate[c])
    BY <1>0, <2>3 DEF CaptureOK
  <2>5. FileOf(c).by = c /\ FileOf(c).recs = candidate[c] /\ FileOf(c)' = FileOf(c)
    BY <2>0 DEF FileOf
  <2>6. FileOK(target)'
    BY <1>0, <1>2, <2>0, <2>3, <2>4, <2>5 DEF FileOK, Renamed
  <2>7. FileOK(disk)'
    BY <1>0, <2>0, <2>3 DEF FileOK, Renamed
  <2>8. ASSUME NEW d \in Capture PROVE CaptureOK(d)'
    <3>1. CaptureOK(d) /\ AckedKeys(d)' = AckedKeys(d) /\ FileOf(d)' = FileOf(d)
      BY <2>0 DEF CaptureInv, AckedKeys, FileOf
    <3>2. CASE d = c
      BY <1>2, <2>0, <2>3, <2>4, <3>1, <3>2 DEF CaptureOK
    <3>3. CASE d # c
      BY <1>2, <2>0, <2>3, <3>1, <3>3 DEF CaptureOK
    <3>. QED BY <3>2, <3>3
  <2>. QED BY <2>2, <2>6, <2>7, <2>8 DEF CaptureInv
<1>. QED BY <1>1, <1>2 DEF CloseRename, FileOf

LEMMA SyncingKeeps ==
    ASSUME CaptureInv, NEW c \in Capture, CloseSync(c)
    PROVE  CaptureInv'
<1>0. CaptureTypeOK /\ CaptureOK(c) /\ FileOK(target) /\ FileOK(disk)
  BY DEF CaptureInv
<1> USE DEF MoveTo, Closing, Returned
<1>1. CaptureTypeOK'
  BY <1>0 DEF CloseSync, CaptureTypeOK
<1>2. /\ UNCHANGED <<target, synced, overwrite, digest, handle, candidate, call, askedKey,
                     verified, renamer>>
      /\ cpc[c] = "renamed" /\ cpc'[c] \in {"published", "unsynced"}
      /\ cpc'[c] = "published" => disk' = target
      /\ disk' \in {disk, target}
      /\ \A d \in Capture \ {c} : cpc'[d] = cpc[d]
  BY <1>0 DEF CloseSync, CaptureTypeOK
<1>3. ASSUME NEW f, FileOK(f) PROVE FileOK(f)'
  BY <1>2, <1>3 DEF FileOK, Renamed
<1>4. FileOK(target)' /\ FileOK(disk)'
  BY <1>0, <1>2, <1>3 DEF FileOK
<1>5. ASSUME NEW d \in Capture PROVE CaptureOK(d)'
  <2>1. CaptureOK(d) /\ AckedKeys(d)' = AckedKeys(d) /\ FileOf(d)' = FileOf(d)
    BY <1>2 DEF CaptureInv, AckedKeys, FileOf
  <2>2. CASE d = c
    BY <1>2, <2>1, <2>2 DEF CaptureOK
  <2>3. CASE d # c
    BY <1>2, <2>1, <2>3 DEF CaptureOK
  <2>. QED BY <2>2, <2>3
<1>. QED BY <1>1, <1>4, <1>5 DEF CaptureInv

LEMMA PowerLossKeeps ==
    ASSUME CaptureInv, PowerLoss
    PROVE  CaptureInv'
<1>0. CaptureTypeOK /\ FileOK(target) /\ FileOK(disk)
  BY DEF CaptureInv
<1> USE DEF Closing, Returned
<1>1. PICK f \in {disk, target} : target' = f /\ disk' = f
  <2>1. target.by \notin Capture \ synced
    BY <1>0 DEF FileOK
  <2>. QED BY <2>1 DEF PowerLoss
<1>2. UNCHANGED <<synced, overwrite, digest, handle, candidate, sticky, askedKey, verified, renamer>>
  BY DEF PowerLoss
<1>3. ASSUME NEW d \in Capture
      PROVE  /\ cpc[d] \in Returned \cup {"start", "refused"} => cpc'[d] = cpc[d]
             /\ cpc[d] \notin Returned \cup {"start", "refused"} => cpc'[d] = "dead"
             /\ \A i \in Call : call'[d][i] = IF call[d][i] = "asked" THEN "failed" ELSE call[d][i]
  BY DEF PowerLoss
<1>4. CaptureTypeOK'
  <2>1. cpc' \in [Capture -> {"start", "digested", "opened", "ready", "refused", "dead"} \cup Closing \cup Returned]
    BY <1>0 DEF PowerLoss, CaptureTypeOK
  <2>2. call' \in [Capture -> [Call -> {"idle", "asked", "acked", "failed"}]]
    BY <1>0 DEF PowerLoss, CaptureTypeOK
  <2>3. losses' \in 0 .. Crashes
    BY <1>0, CaptureAssumption DEF PowerLoss, CaptureTypeOK
  <2>4. \A c \in Capture : cpc'[c] \in {"checked", "verified", "renamed", "published"} => c \in synced'
    BY <1>0, <1>2, <1>3 DEF CaptureTypeOK
  <2>. QED BY <1>0, <1>1, <1>2, <2>1, <2>2, <2>3, <2>4 DEF CaptureTypeOK
<1>5. ASSUME NEW g, FileOK(g) PROVE FileOK(g)'
  BY <1>2, <1>3, <1>5 DEF FileOK, Renamed
<1>6. FileOK(target)' /\ FileOK(disk)'
  BY <1>0, <1>1, <1>5 DEF FileOK
<1>7. ASSUME NEW d \in Capture PROVE CaptureOK(d)'
  <2>1. CaptureOK(d)
    BY DEF CaptureInv
  <2>7. ASSUME NEW i \in Call PROVE (call'[d][i] = "acked") <=> (call[d][i] = "acked")
    BY <1>3
  <2>8. {j \in Call : call'[d][j] = "acked"} = {j \in Call : call[d][j] = "acked"}
    BY <2>7
  <2>2. AckedKeys(d)' = AckedKeys(d)
    BY <1>2, <2>8 DEF AckedKeys
  <2>3. cpc'[d] \in {"start", "refused"} => cpc'[d] = cpc[d] /\ \A i \in Call : call'[d][i] = "idle"
    BY <1>0, <1>3, <2>1 DEF CaptureOK, CaptureTypeOK
  <2>4. /\ cpc'[d] \in {"start", "refused", "dead"} \cup Returned
        /\ cpc'[d] = "published" => cpc[d] = "published"
    BY <1>0, <1>3 DEF CaptureTypeOK
  <2>5. cpc'[d] = "published" /\ renamer' = d => target' = FileOf(d)' /\ disk' = target' /\ d \in synced'
    BY <1>1, <1>2, <2>1, <2>4 DEF CaptureOK, FileOf
  <2>6. cpc'[d] = "published" => d \in synced'
    BY <1>2, <2>1, <2>4 DEF CaptureOK
  <2>. QED BY <1>2, <2>1, <2>2, <2>3, <2>4, <2>5, <2>6 DEF CaptureOK
<1>. QED BY <1>4, <1>6, <1>7 DEF CaptureInv

LEMMA CaptureStepKeeps ==
    ASSUME CaptureInv, [CaptureNext]_captureVars
    PROVE  CaptureInv'
<1>1. CASE UNCHANGED captureVars
  BY <1>1 DEF captureVars, CaptureInv, CaptureTypeOK, FileOK, CaptureOK, AckedKeys, FileOf
<1>. QED BY <1>1, PowerLossKeeps, OpeningKeeps, CallKeeps, ClosingKeeps, RenamingKeeps, SyncingKeeps
         DEF CaptureNext

(* For every number of captures, calls and power losses: the inductive     *)
(* invariant of a capture (wrapCapture, Score and Close of replay.go).     *)
THEOREM CaptureInvariant == CaptureSpec => []CaptureInv
<1>. QED BY CaptureInitHolds, CaptureStepKeeps, PTL DEF CaptureSpec

(* The fixture at the path always loads, and after Close returned nil it   *)
(* holds the record of every call Score acknowledged, over rival captures  *)
(* and power losses.                                                       *)
THEOREM CaptureIsSound == CaptureSpec => []CaptureSound
<1>1. CaptureInv => CaptureSound
  <2>1. ASSUME CaptureInv PROVE CaptureTypeOK /\ TargetLoads
    BY <2>1 DEF CaptureInv, FileOK, TargetLoads
  <2>2. ASSUME CaptureInv, NEW c \in Capture, cpc[c] = "published", renamer = c
        PROVE  AckedKeys(c) \subseteq KeysOf(target.recs)
    <3>1. CaptureOK(c) /\ target = FileOf(c) /\ FileOf(c).recs = candidate[c]
      BY <2>2 DEF CaptureInv, CaptureOK, FileOf
    <3>. QED BY <3>1 DEF CaptureOK
  <2>. QED BY <2>1, <2>2 DEF CaptureSound, AcknowledgedSurvives
<1>. QED BY <1>1, CaptureInvariant, PTL

(* A capture that appends, and copied the file it had digested, keeps      *)
(* every record of the target it verified (verifyOriginalUnchanged).       *)
THEOREM AppendsKeepRecords == CaptureSpec => AppendKeepsRecords
<1> DEFINE Kept == \A c \in Capture :
          /\ target'.by = c /\ target # target'
          /\ ~overwrite[c] /\ fileDigest(handle[c]) = digest[c] /\ target = verified[c]
          => KeysOf(target.recs) \subseteq KeysOf(target'.recs)
<1>1. CaptureInv /\ CaptureInv' /\ [CaptureNext]_captureVars => Kept
  <2> SUFFICES ASSUME CaptureInv, CaptureInv', [CaptureNext]_captureVars, NEW c \in Capture,
                      target'.by = c, target # target',
                      ~overwrite[c], fileDigest(handle[c]) = digest[c], target = verified[c]
               PROVE  KeysOf(target.recs) \subseteq KeysOf(target'.recs)
    OBVIOUS
  <2>1. FileOK(target)'
    BY DEF CaptureInv
  <2>2. target'.recs = candidate'[c] /\ fileDigest(verified'[c]) = digest'[c]
        /\ (~overwrite'[c] => KeysOf(handle'[c].recs) \subseteq KeysOf(candidate'[c]))
    BY <2>1 DEF FileOK
  <2>3. UNCHANGED <<overwrite, handle, digest, verified, candidate>>
    BY DEF CaptureNext, captureVars, PowerLoss, WrapDigest, WrapOpen, WrapCopy, CloseFlush,
           CloseCheck, CloseVerify, CloseRename, CloseSync, Ask, Record, RecordFails,
           RecordRefused, Answer
  <2>4. handle[c].recs = target.recs
    BY <2>2, <2>3 DEF fileDigest
  <2>. QED BY <2>2, <2>3, <2>4
<1>2. CaptureInv /\ CaptureInv' /\ [CaptureNext]_captureVars => [Kept]_captureVars
  BY <1>1
<1>. QED BY <1>2, CaptureInvariant, PTL DEF CaptureSpec, AppendKeepsRecords
==============================================================================
