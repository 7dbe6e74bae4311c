-------------------------- MODULE InspectionJournal --------------------------
(***************************************************************************)
(* The guided owner inspection: an append-only, hash-chained journal kept  *)
(* as one file per event, and the completion receipt derived from it       *)
(* (internal/relation/pilot_inspection_journal.go and                      *)
(* cmd/evalwitness/relation_inspection_journal_command.go).                *)
(*                                                                         *)
(* Every command is a process of its own: it loads and verifies the whole  *)
(* journal, works on that snapshot, and publishes new files that never     *)
(* replace old ones.  A file is first written under a temporary name in    *)
(* the same directory, then linked to its own name, then the temporary     *)
(* name is removed.  A digest is modelled by the record it digests.        *)
(* The times the owner supplies, which must increase, are left out:        *)
(* a command with an earlier time is refused without effect.               *)
(***************************************************************************)
EXTENDS Naturals, FiniteSets, InspectionVerdict

CONSTANTS
    Clerk,        \* processes that run the commands
    Target,       \* <<subject, dimension>>: the required assessments
    Core,         \* the subjects that are core packets
    Assessment,   \* passed, failed, indeterminate
    InspectedAt,  \* completion times the owner may supply
    MaxEvents,    \* bound: events in the journal
    Genesis,      \* the digest of the session header
    Nothing       \* no document

ASSUME JournalAssumption == MaxEvents \in Nat /\ Target # {}

VARIABLES
    files,        \* the event files: sequence number -> event
    strays,       \* clerks whose temporary file is in the events directory
    records,      \* published inspection records
    completion,   \* completion.json, or none
    jpc,          \* what each clerk is doing
    work,         \* the document each clerk is about to publish
    shown         \* completion digests rendered to the owner

journalVars == <<files, strays, records, completion, jpc, work, shown>>

(* VerifyPilotInspectionJournal: latest assessment event per target.       *)
Latest(ev, t) ==
    LET n == {m \in DOMAIN ev : ev[m].target = t}
    IN  IF n = {} THEN Nothing ELSE ev[CHOOSE m \in n : \A k \in n : k <= m]

Prefix(ev, n) == [m \in 1..n |-> ev[m]]

(* The chain: numbered from one without a gap, each event naming its       *)
(* predecessor and the latest event of its target.                         *)
VerifyJournal(ev) ==
    \A n \in DOMAIN ev :
        /\ ev[n].sequence = n
        /\ ev[n].previous = IF n = 1 THEN Genesis ELSE ev[n - 1]
        /\ ev[n].supersedes = Latest(Prefix(ev, n - 1), ev[n].target)

Contiguous(ev) == DOMAIN ev = 1..Cardinality(DOMAIN ev)

(* loadPilotInspectionEvents: an entry that is not an event, or a gap,     *)
(* refuses the load.                                                       *)
LoadEvents == strays = {} /\ Contiguous(files) /\ VerifyJournal(files)

Answered(ev) == {t \in Target : Latest(ev, t) # Nothing}

ReadyToFinalize(ev) == Answered(ev) = Target

(* Mutant: events are numbered from zero.                                  *)
EventFromZero(ev, t, a) ==
    LET n == Cardinality(DOMAIN ev)
    IN  [sequence |-> n, previous |-> IF n = 0 THEN Genesis ELSE ev[n - 1],
         target |-> t, assessment |-> a, supersedes |-> Latest(ev, t)]

(* BuildPilotInspectionEvent on a snapshot.                                *)
Event(ev, t, a) ==
    LET n == Cardinality(DOMAIN ev) + 1
    IN  [sequence |-> n, previous |-> IF n = 1 THEN Genesis ELSE ev[n - 1],
         target |-> t, assessment |-> a, supersedes |-> Latest(ev, t)]

(* BuildPilotInspectionCompletion: a function of the journal and the time. *)
BuildCompletion(ev, at) ==
    LET latest == [t \in Target |-> Latest(ev, t).assessment]
        n == Cardinality(DOMAIN ev)
    IN  [count |-> n, head |-> ev[n], verdict |-> Verdict(latest, Core), at |-> at]

RecordOf(c) == [reasons |-> c.verdict.reasons, status |-> c.verdict.core, at |-> c.at]

JournalInit ==
    /\ files = <<>> /\ strays = {} /\ records = {} /\ completion = Nothing
    /\ jpc = [p \in Clerk |-> "idle"] /\ work = [p \in Clerk |-> Nothing] /\ shown = {}

Go(p, from, to) == jpc[p] = from /\ jpc' = [jpc EXCEPT ![p] = to]

(* session-record loads the journal and builds the next event; an answered *)
(* target needs --correct, an unanswered one must not have it.             *)
RecordLoad(p, t, a) ==
    /\ Go(p, "idle", "built") /\ LoadEvents
    /\ Cardinality(DOMAIN files) < MaxEvents
    /\ work' = [work EXCEPT ![p] = Event(files, t, a)]
    /\ UNCHANGED <<files, strays, records, completion, shown>>

(* PublishSensitiveExclusive: the temporary file is in the directory, or   *)
(* could not be created.                                                   *)
RecordStage(p) ==
    /\ \/ Go(p, "built", "staged") /\ strays' = strays \cup {p} /\ UNCHANGED work
       \/ Go(p, "built", "idle") /\ work' = [work EXCEPT ![p] = Nothing] /\ UNCHANGED strays
    /\ UNCHANGED <<files, records, completion, shown>>

(* Mutant: the event file is renamed into place over whatever is there.    *)
RecordReplace(p) ==
    /\ Go(p, "staged", "linked")
    /\ files' = [n \in DOMAIN files \cup {work[p].sequence} |->
                    IF n = work[p].sequence THEN work[p] ELSE files[n]]
    /\ UNCHANGED <<strays, records, completion, work, shown>>

(* The link, which only a free sequence number allows; it, or the writing  *)
(* before it, may fail otherwise too.                                      *)
RecordLink(p) ==
    /\ Go(p, "staged", "linked")
    /\ \/ /\ work[p].sequence \notin DOMAIN files
          /\ files' = [n \in DOMAIN files \cup {work[p].sequence} |->
                          IF n = work[p].sequence THEN work[p] ELSE files[n]]
       \/ UNCHANGED files
    /\ UNCHANGED <<strays, records, completion, work, shown>>

(* Mutant: the temporary file is left behind when the link was refused.    *)
RecordSettleLinked(p) ==
    /\ Go(p, "linked", "idle")
    /\ strays' = IF work[p] \in {files[n] : n \in DOMAIN files} THEN strays \ {p} ELSE strays
    /\ work' = [work EXCEPT ![p] = Nothing]
    /\ UNCHANGED <<files, records, completion, shown>>

(* The temporary file is removed; the reload that follows only reports.  A *)
(* removal that fails is not reported and leaves what ClerkCrash leaves.   *)
RecordSettle(p) ==
    /\ Go(p, "linked", "idle")
    /\ strays' = strays \ {p}
    /\ work' = [work EXCEPT ![p] = Nothing]
    /\ UNCHANGED <<files, records, completion, shown>>

(* session-finalize without --confirm renders the completion's digest.     *)
FinalizePlan(p, at) ==
    /\ jpc[p] = "idle" /\ LoadEvents /\ ReadyToFinalize(files)
    /\ shown' = shown \cup {BuildCompletion(files, at)}
    /\ UNCHANGED <<files, strays, records, completion, jpc, work>>

(* session-finalize --confirm rebuilds the completion from what is on disk *)
(* now and goes on only if it is one the owner was shown.                  *)
FinalizeLoad(p, at) ==
    /\ Go(p, "idle", "confirmed") /\ LoadEvents /\ ReadyToFinalize(files)
    /\ BuildCompletion(files, at) \in shown
    /\ work' = [work EXCEPT ![p] = BuildCompletion(files, at)]
    /\ UNCHANGED <<files, strays, records, completion, shown>>

(* Mutant: the receipt is published before the record it points to.        *)
FinalizeCompleteFirst(p) ==
    /\ Go(p, "confirmed", "recorded")
    /\ completion' = IF completion = Nothing THEN work[p] ELSE completion
    /\ UNCHANGED <<files, strays, records, work, shown>>

(* The inspection record goes to a path named by its digest, so an         *)
(* existing file is the same record; a failed publication ends the command.*)
FinalizeRecord(p) ==
    /\ \/ /\ Go(p, "confirmed", "recorded")
          /\ records' = records \cup {RecordOf(work[p])} /\ UNCHANGED work
       \/ /\ Go(p, "confirmed", "idle")
          /\ work' = [work EXCEPT ![p] = Nothing] /\ UNCHANGED records
    /\ UNCHANGED <<files, strays, completion, shown>>

(* publishSensitiveExclusiveOrVerify of completion.json: an existing       *)
(* receipt that differs is refused; an equal one is verified.  What        *)
(* verifyExistingPilotInspectionCompletion finds after it is only reported.*)
FinalizeComplete(p) ==
    /\ Go(p, "recorded", "idle")
    /\ \/ completion = Nothing /\ completion' = work[p]
       \/ UNCHANGED completion
    /\ work' = [work EXCEPT ![p] = Nothing]
    /\ UNCHANGED <<files, strays, records, shown>>

(* A clerk's process dies; its temporary file stays.                       *)
ClerkCrash(p) ==
    /\ jpc[p] \notin {"idle", "dead"}
    /\ jpc' = [jpc EXCEPT ![p] = "dead"]
    /\ UNCHANGED <<files, strays, records, completion, work, shown>>

JournalNext ==
    \E p \in Clerk :
        \/ \E t \in Target, a \in Assessment : RecordLoad(p, t, a)
        \/ RecordStage(p) \/ RecordLink(p) \/ RecordSettle(p)
        \/ \E at \in InspectedAt : FinalizePlan(p, at) \/ FinalizeLoad(p, at)
        \/ FinalizeRecord(p) \/ FinalizeComplete(p) \/ ClerkCrash(p)

JournalSpec == JournalInit /\ [][JournalNext]_journalVars

------------------------------------------------------------------------------

(* Every variable of the journal keeps its shape.                          *)
JournalTypeOK ==
    /\ DOMAIN files \subseteq 1..MaxEvents
    /\ \A n \in DOMAIN files : files[n].target \in Target /\ files[n].assessment \in Assessment
    /\ strays \subseteq Clerk
    /\ jpc \in [Clerk -> {"idle", "built", "staged", "linked", "confirmed", "recorded", "dead"}]
    /\ DOMAIN work = Clerk

(* Clerks that record, correct and crash in any interleaving leave a chain *)
(* without a gap in which every event names its predecessor and exactly    *)
(* the assessment it corrects: a stale snapshot never reaches the journal. *)
ChainIntact == Contiguous(files) /\ VerifyJournal(files)

(* A receipt is what a complete prefix of the journal yields, and the      *)
(* inspection record it stands on is already published: a crash between    *)
(* the two publications, or a correction racing them, cannot leave a       *)
(* receipt without its record or with assessments that never were current. *)
ReceiptIsGrounded ==
    completion # Nothing =>
        /\ RecordOf(completion) \in records
        /\ \E n \in DOMAIN files :
              /\ ReadyToFinalize(Prefix(files, n))
              /\ completion = BuildCompletion(Prefix(files, n), completion.at)

(* What stops a command from loading the journal is a temporary file: of a *)
(* clerk that is publishing right now or of one that died while it was.    *)
RefusedOnlyByStrays ==
    ~LoadEvents => \E p \in strays : jpc[p] \in {"staged", "linked", "dead"}

(* The chain stays intact and loadable and a receipt stands on it, however *)
(* clerks interleave and wherever they die.                                *)
JournalSound ==
    /\ JournalTypeOK
    /\ ChainIntact /\ RefusedOnlyByStrays
    /\ ReceiptIsGrounded
==============================================================================
