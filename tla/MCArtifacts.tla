---------------------------- MODULE MCArtifacts ------------------------------
(* Small instances of the modules about published artefacts.  A behaviour  *)
(* is one of one module: part says which, the variables of the others stay *)
(* as they are.                                                            *)
EXTENDS ReplayCapture, InspectionJournal, ExclusiveFile, CacheRoot, HeldOut, ReviewLedger, BestOfN, TLC

VARIABLES
    part,     \* the module this behaviour is one of
    answers   \* inputs of InspectionVerdict: assessments of six targets

artifactVars == <<captureVars, journalVars, exclusiveVars, cacheRootVars, heldOutVars,
                  reviewVars, bonVars>>

(* The target is absent or holds one record.                               *)
OriginalFiles == {Absent, [by |-> "original", recs |-> <<[key |-> "k1", by |-> "original"]>>]}

(* One required assessment of a core packet, one of a scarcity subject.    *)
Targets == {<<"packet", "rubric">>, <<"sentinel", "omission">>}

(* Two successive permits of one partition, and a cell that must not run. *)
Windows    == "k1" :> [issued |-> 0, expires |-> 1] @@ "k2" :> [issued |-> 1, expires |-> 2]
Partitions == [k \in {"k1", "k2"} |-> "x"]
Admissions == "c1" :> "eligible" @@ "c2" :> "ineligible"

(* One reviewer is invited for both primary slots.                         *)
Reviewers == <<{"u"}, {"u", "v"}, {"w"}>>

(* Two core packets and a scarcity subject with two dimensions each.       *)
Questions  == {"packet", "other", "sentinel"} \X {"rubric", "omission"}
Unanswered == [q \in Questions |-> "passed"]

ArtifactInit ==
    /\ part \in {"capture", "journal", "publication", "root", "heldout", "review", "bon",
                "verdict"}
    /\ CaptureInit /\ (part # "capture" => target = Absent /\ \A c \in Capture : ~overwrite[c])
    /\ JournalInit /\ ExclusiveInit
    /\ CacheRootInit /\ (part # "root" => ~foreign)
    /\ HeldOutInit /\ ReviewInit
    /\ BonInit /\ (part # "bon" => \A f \in DOMAIN flags : ~flags[f])
    /\ answers \in IF part = "verdict" THEN [Questions -> {"passed", "failed", "indeterminate"}]
                   ELSE {Unanswered}

ArtifactNext ==
    /\ UNCHANGED <<part, answers>>
    /\ \/ part = "capture" /\ CaptureNext
          /\ UNCHANGED <<journalVars, exclusiveVars, cacheRootVars, heldOutVars, reviewVars, bonVars>>
       \/ part = "journal" /\ JournalNext
          /\ UNCHANGED <<captureVars, exclusiveVars, cacheRootVars, heldOutVars, reviewVars, bonVars>>
       \/ part = "publication" /\ ExclusiveNext
          /\ UNCHANGED <<captureVars, journalVars, cacheRootVars, heldOutVars, reviewVars, bonVars>>
       \/ part = "root" /\ CacheRootNext
          /\ UNCHANGED <<captureVars, journalVars, exclusiveVars, heldOutVars, reviewVars, bonVars>>
       \/ part = "heldout" /\ HeldOutNext
          /\ UNCHANGED <<captureVars, journalVars, exclusiveVars, cacheRootVars, reviewVars, bonVars>>
       \/ part = "review" /\ ReviewNext
          /\ UNCHANGED <<captureVars, journalVars, exclusiveVars, cacheRootVars, heldOutVars, bonVars>>
       \/ part = "bon" /\ BonNext
          /\ UNCHANGED <<captureVars, journalVars, exclusiveVars, cacheRootVars, heldOutVars, reviewVars>>

ArtifactSpec == ArtifactInit /\ [][ArtifactNext]_<<artifactVars, part, answers>>

(* The receipt's verdict is as strict as all the assessments together, for *)
(* every combination of answers (BuildPilotInspectionCompletion).          *)
ReceiptIsStrict == VerdictIsConservative(answers, {"packet", "other"})

(* What processes publish side by side is decided once and told as it was  *)
(* decided: a file (PublishSensitiveExclusive) and the identity of a cache *)
(* root (CreateCacheRoot) are write-once registers.                        *)
DecidedOnce == PublishesOnce /\ RootIsWrittenOnce

Interchangeable == Permutations(Runner) \cup Permutations(Packet) \cup Permutations(Outcome)
=============================================================================
