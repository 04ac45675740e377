------------------------------ MODULE Phase6Proofs ------------------------------
(***************************************************************************)
(* The scripts of Phase 6, for any number of invocations, members, calls,  *)
(* tasks and reviews.                                                      *)
(*                                                                         *)
(* First the archive, from the download to the review, with any writes of  *)
(* others. What makes it hold is that stat tells two writes apart: an      *)
(* identity that has been left does not return. It holds among the other   *)
(* scripts of Phase 6, which touch none of the archive's state: every      *)
(* behaviour of PhaseSpec is one of the pipeline, with steps of the others *)
(* as stutters.                                                            *)
(*                                                                         *)
(* Then the other scripts, each with its own invariant: the claim of an    *)
(* attempt, the machine and the command that loads the model, the attempt  *)
(* and its result, the probe, the schedule, the proxy and the canary, the  *)
(* ledger of candidates, the reviews and the captures. PhaseInv holds the  *)
(* invariants together, each on the occasion of its script.                *)
(***************************************************************************)
EXTENDS Phase6, SequenceTheorems, FiniteSetTheorems, WellFoundedInduction, TLAPS

Writers == Acquirers \cup Stagers \cup {"nobody", "outside"}

Files == [content : Bodies \cup {"none"}, size : Nat, by : Writers, version : Nat]

MemberFiles == UNION {[S -> Files] : S \in SUBSET Members}

FileIdentities == Writers \X Nat

AcquirerSteps ==
    {"idle", "request", "create", "stream", "hash", "rename", "cleanup", "done"}

AcquisitionTypes ==
    /\ archive \in Files /\ partial \in Files
    /\ acquirer \in [Acquirers -> [step : AcquirerSteps, body : Bodies]]
    /\ outside \in Nat

\* The partial file is that of the run that created it, and holds what this run
\* was served so far; whoever has put the archive where it is, is done.
OnePartial ==
    /\ archive.by = "nobody" => archive = NoFile
    /\ partial.by = "nobody" => partial = NoFile
    /\ archive.by \in Acquirers \cup {"nobody", "outside"}
    /\ archive.version <= outside /\ partial.version = 0
    /\ archive.by \in Acquirers => Whole(archive) /\ acquirer[archive.by].step = "done"
    /\ \A a \in Acquirers :
          /\ acquirer[a].step \in {"stream", "hash", "rename", "cleanup"} => partial.by = a
          /\ acquirer[a].step \in {"stream", "hash", "rename"} =>
                partial.content = acquirer[a].body /\ partial.size <= Chunks
          /\ acquirer[a].step \in {"hash", "rename"} => partial.size = Chunks
          /\ acquirer[a].step = "rename" => acquirer[a].body = "pinned"

AcquisitionInv == AcquisitionTypes /\ OnePartial

\* The names of no run stand for no run.
LEMMA NobodyAcquires == "nobody" \notin Acquirers /\ "outside" \notin Acquirers
  BY AcquisitionAssumption

\* Nothing was fetched at first.
LEMMA AcquisitionStarts == Init => AcquisitionInv
  BY NobodyAcquires, AcquisitionAssumption
     DEF Init, AcquisitionInit, AcquisitionInv, AcquisitionTypes, OnePartial, NoFile, File,
         Files, Writers, Bodies, AcquirerSteps, Whole

\* A run of the download keeps it.
LEMMA AcquirePreserves ==
    ASSUME AcquisitionInv, NEW a \in Acquirers, Acquire(a), outside' = outside
    PROVE  AcquisitionInv'
  <1> USE NobodyAcquires, AcquisitionAssumption
  <1> USE DEF AcquisitionInv, AcquisitionTypes, OnePartial, GoesTo, Ends, Whole
  <1>1. CASE Begin(a)
    BY <1>1 DEF Begin, AcquirerSteps
  <1>2. ASSUME NEW answer \in Answers, NEW body \in Bodies, Respond(a, answer, body)
        PROVE  AcquisitionInv'
    BY <1>2 DEF Respond, AcquirerSteps, Bodies
  <1>3. CASE Create(a)
    BY <1>3 DEF Create, AcquirerSteps, File, NoFile, Files, Writers
  <1>4. CASE Stream(a)
    BY <1>4 DEF Stream, AcquirerSteps, NoFile, File, Files
  <1>5. CASE Verify(a)
    BY <1>5 DEF Verify, AcquirerSteps
  <1>6. CASE Rename(a)
    BY <1>6 DEF Rename, AcquirerSteps, NoFile, File, Files, Writers, Bodies
  <1>7. CASE FailEarly(a)
    BY <1>7 DEF FailEarly, AcquirerSteps, Bodies
  <1>8. CASE FailLate(a)
    BY <1>8 DEF FailLate, AcquirerSteps
  <1>9. ASSUME NEW removed \in BOOLEAN, Cleanup(a, removed)
        PROVE  AcquisitionInv'
    BY <1>9 DEF Cleanup, AcquirerSteps, NoFile, File, Files, Writers, Bodies
  <1>10. CASE CrashAcquirer(a)
    BY <1>10 DEF CrashAcquirer, AcquirerSteps, Bodies
  <1>11. QED
    BY <1>1, <1>2, <1>3, <1>4, <1>5, <1>6, <1>7, <1>8, <1>9, <1>10 DEF Acquire

\* So do the writes of others, who are nobody's run.
LEMMA OthersPreserveAcquisition ==
    ASSUME AcquisitionInv, NEW content \in Bodies \cup {"none"}, ReplaceArchive(content)
    PROVE  AcquisitionInv'
  BY NobodyAcquires, AcquisitionAssumption
     DEF AcquisitionInv, AcquisitionTypes, OnePartial, ReplaceArchive, NoFile, File, Files,
         Writers, Whole

\* What staging and review do is nothing to a run of the acquisition.
LEMMA ElsewherePreservesAcquisition ==
    ASSUME AcquisitionInv, UNCHANGED acquisitionVars, outside' \in Nat, outside <= outside'
    PROVE  AcquisitionInv'
  BY DEF AcquisitionInv, AcquisitionTypes, OnePartial, acquisitionVars, Whole, Files, NoFile

\* The archive at the destination changes under an acquisition only by the rename
\* of a run, which is done with it.
LEMMA IdentitiesDoNotReturn ==
    ASSUME AcquisitionInv, NEW a \in Acquirers, Acquire(a), archive' # archive
    PROVE  archive'.by = a /\ acquirer[a].step = "rename"
  BY DEF AcquisitionInv, OnePartial, Acquire, Begin, Respond, Create, Stream, Verify, Rename,
         FailEarly, FailLate, Cleanup, CrashAcquirer
-------------------------------------------------------------------------------
StagerSteps ==
    {"idle", "hash", "entries", "mkdir", "mark", "extract", "cleanup", "staged"}

StagingTypes ==
    /\ root \in [by : Stagers \cup {"nobody"}, marked : BOOLEAN, files : MemberFiles]
    /\ stager \in [Stagers -> [step : StagerSteps, identity : FileIdentities,
                               hashed : FileIdentities, written : SUBSET Members]]

\* An identity that was taken of an archive: if it is not the archive's any more,
\* it will not be again.
Taken(identity) ==
    /\ identity[1] \in Acquirers \cup {"outside"}
    /\ identity[2] <= outside
    /\ identity[1] \in Acquirers => acquirer[identity[1]].step = "done"

OrOutside(file) == Whole(file) \/ file.by = "outside"

\* What a call may count on.  As long as the archive is the one it looked at
\* first, all that it wrote is whole.
Claims(s) ==
    /\ stager[s].step \in {"mark", "extract", "cleanup", "staged"} => root.by = s
    /\ stager[s].step \in {"extract", "staged"} => root.marked
    /\ stager[s].step \in {"hash", "entries", "mkdir", "mark", "extract"} =>
          Taken(stager[s].identity)
    /\ stager[s].step = "entries" =>
          Taken(stager[s].hashed) /\ (Identity = stager[s].hashed => Whole(archive))
    /\ stager[s].step \in {"mkdir", "mark", "extract"} /\ Identity = stager[s].identity =>
          Whole(archive)
    /\ stager[s].step \in {"mark", "extract"} /\ Identity = stager[s].identity =>
          \A m \in DOMAIN root.files : OrOutside(root.files[m])
    /\ stager[s].step \in {"idle", "hash", "entries", "mkdir", "mark"} => stager[s].written = {}
    /\ stager[s].step \in {"mark", "extract"} => stager[s].written \subseteq DOMAIN root.files

RootIsKnown ==
    /\ root.by = "nobody" => root = NoRoot
    /\ \A m \in DOMAIN root.files : root.files[m].version <= outside

OneOwner == RootIsKnown /\ \A s \in Stagers : Claims(s)

StagingInv == StagingTypes /\ OneOwner /\ StagedIsThePinnedArchive

\* The names of no call stand for no call.
LEMMA NobodyStages == "nobody" \notin Stagers /\ "outside" \notin Stagers
  BY StagingAssumption

\* Nothing was staged at first.
LEMMA StagingStarts == Init => StagingInv
  <1>1. NoRoot.files \in MemberFiles /\ DOMAIN NoRoot.files = {}
    BY DEF NoRoot, MemberFiles
  <1>2. QED
    BY <1>1, NobodyStages
     DEF Init, StagingInit, StagingInv, StagingTypes, OneOwner, RootIsKnown, Claims,
         StagedIsThePinnedArchive, StagerSteps, IdleStager, IdentityOf,
         FileIdentities, NoFile, File, NoRoot, Writers

\* A step of the archive's own: an identity that was taken stays taken, and is
\* not the archive's if the archive has become another one.
LEMMA AcquireLeavesTaken ==
    ASSUME AcquisitionInv, AcquisitionInv', NEW id \in FileIdentities, Taken(id),
           \/ \E a \in Acquirers : Acquire(a) /\ outside' = outside
           \/ \E content \in Bodies \cup {"none"} : ReplaceArchive(content)
    PROVE  Taken(id)' /\ (Identity' = id => archive' = archive)
  <1>1. ASSUME NEW a \in Acquirers, Acquire(a), outside' = outside
        PROVE  Taken(id)' /\ (Identity' = id => archive' = archive)
    <2>1. Taken(id)'
      BY <1>1, NobodyAcquires
      DEF Taken, AcquisitionInv, AcquisitionTypes, Acquire, Begin, Respond, Create, Stream,
         Verify, Rename, FailEarly, FailLate, Cleanup, CrashAcquirer, GoesTo, Ends, AcquirerSteps,
         FileIdentities
    <2>2. Identity' = id => archive' = archive
      BY <1>1, IdentitiesDoNotReturn DEF Taken, Identity, IdentityOf
    <2>3. QED
      BY <2>1, <2>2
  <1>2. ASSUME NEW content \in Bodies \cup {"none"}, ReplaceArchive(content)
        PROVE  Taken(id)' /\ (Identity' = id => archive' = archive)
    BY <1>2, NobodyAcquires
       DEF Taken, ReplaceArchive, Identity, IdentityOf, FileIdentities, NoFile, File,
           AcquisitionInv, AcquisitionTypes
  <1>3. QED
    BY <1>1, <1>2

\* What happens to the archive leaves the staging as it is.
LEMMA ArchiveStepsPreserveStaging ==
    ASSUME AcquisitionInv, AcquisitionInv', StagingInv, UNCHANGED stagingVars,
           \/ \E a \in Acquirers : Acquire(a) /\ outside' = outside
           \/ \E content \in Bodies \cup {"none"} : ReplaceArchive(content)
    PROVE  StagingInv'
  <1>1. StagingTypes' /\ StagedIsThePinnedArchive'
    BY DEF StagingInv, StagingTypes, StagedIsThePinnedArchive, stagingVars, Whole
  <1>2. outside <= outside' /\ outside' \in Nat /\ outside \in Nat
    BY DEF ReplaceArchive, AcquisitionInv, AcquisitionTypes
  <1>3. \A m \in DOMAIN root.files : root.files[m].version \in Nat
    BY DEF StagingInv, StagingTypes, MemberFiles, Files
  <1>4. ASSUME NEW s \in Stagers
        PROVE  /\ stager[s].identity \in FileIdentities /\ stager[s].hashed \in FileIdentities
               /\ Taken(stager[s].identity) =>
                     /\ Taken(stager[s].identity)'
                     /\ Identity' = stager[s].identity => archive' = archive
               /\ Taken(stager[s].hashed) =>
                     /\ Taken(stager[s].hashed)'
                     /\ Identity' = stager[s].hashed => archive' = archive
    <2>1. stager[s].identity \in FileIdentities /\ stager[s].hashed \in FileIdentities /\ stager' = stager
      BY DEF StagingInv, StagingTypes, stagingVars
    <2>2. ASSUME NEW id \in FileIdentities, Taken(id)
          PROVE  Taken(id)' /\ (Identity' = id => archive' = archive)
      BY <2>2, AcquireLeavesTaken
    <2>3. QED
      BY <2>1, <2>2
  <1>5. OneOwner'
    BY <1>2, <1>3, <1>4 DEF StagingInv, OneOwner, RootIsKnown, Claims, stagingVars, Identity,
                            IdentityOf, OrOutside, Whole, NoRoot
  <1>6. QED
    BY <1>1, <1>5 DEF StagingInv

\* A call that has read to the end has read what the path names.
LEMMA WholeAsOpened == StreamedWhole <=> Whole(archive)
  BY DEF StreamedWhole

\* Putting a file into the directory changes that file only.
LEMMA PutFile ==
    ASSUME NEW files \in MemberFiles, NEW m \in Members, NEW file \in Files,
           NEW result, result = [n \in DOMAIN files \cup {m} |-> IF n = m THEN file ELSE files[n]]
    PROVE  /\ result \in MemberFiles
           /\ DOMAIN result = DOMAIN files \cup {m}
           /\ result[m] = file
           /\ \A n \in DOMAIN files : n # m => result[n] = files[n]
  <1>1. PICK S \in SUBSET Members : files \in [S -> Files]
    BY DEF MemberFiles
  <1>2. result \in [S \cup {m} -> Files] /\ S \cup {m} \in SUBSET Members
    BY <1>1
  <1>3. QED
    BY <1>1, <1>2 DEF MemberFiles

\* A call moves no other's file.
LEMMA OthersKeepTheirClaims ==
    ASSUME NEW t \in Stagers, Claims(t), stager'[t] = stager[t],
           UNCHANGED <<acquisitionVars, outside>>, root' = root \/ root.by # t
    PROVE  Claims(t)'
  BY DEF Claims, acquisitionVars, Taken, Identity, IdentityOf, OrOutside, Whole

\* A call keeps to its directory, and its directory is left to it.
LEMMA StagePreservesOwner ==
    ASSUME AcquisitionInv, StagingInv, NEW s \in Stagers, Stage(s),
           UNCHANGED <<acquisitionVars, outside>>
    PROVE  StagingTypes' /\ OneOwner'
  <1> USE NobodyStages, AcquisitionAssumption
  <1> DEFINE new == stager'[s]
  <1> USE DEF StagerGoesTo, StagerEnds, StagerSteps
  <1>a. /\ Identity \in FileIdentities /\ archive \in Files /\ (archive # NoFile => Taken(Identity))
        /\ Identity' = Identity /\ archive' = archive /\ outside' = outside /\ outside \in Nat
        /\ acquirer' = acquirer
    BY DEF AcquisitionInv, AcquisitionTypes, OnePartial, Files, FileIdentities, acquisitionVars,
           Taken, Identity, IdentityOf
  <1>b. /\ root \in [by : Stagers \cup {"nobody"}, marked : BOOLEAN, files : MemberFiles]
        /\ stager[s] \in [step : StagerSteps, identity : FileIdentities, hashed : FileIdentities,
                          written : SUBSET Members]
        /\ stager \in [Stagers -> [step : StagerSteps, identity : FileIdentities,
                                   hashed : FileIdentities, written : SUBSET Members]]
        /\ RootIsKnown /\ Claims(s)
    BY DEF StagingInv, StagingTypes, OneOwner
  <1>c. /\ IdleStager \in [step : StagerSteps, identity : FileIdentities, hashed : FileIdentities,
                           written : SUBSET Members]
        /\ IdleStager.written = {}
    BY DEF IdleStager, NoFile, File, FileIdentities, Writers, IdentityOf
  <1>d. NoRoot \in [by : Stagers \cup {"nobody"}, marked : BOOLEAN, files : MemberFiles]
        /\ DOMAIN NoRoot.files = {} /\ NoRoot.by = "nobody" /\ NoRoot.marked = FALSE
    <2>1. [m \in {} |-> NoFile] \in [{} -> Files] /\ {} \in SUBSET Members
      OBVIOUS
    <2>2. [m \in {} |-> NoFile] \in MemberFiles
      BY <2>1 DEF MemberFiles
    <2>3. QED
      BY <2>2 DEF NoRoot
  <1> DEFINE Kept ==
        /\ new \in [step : StagerSteps, identity : FileIdentities, hashed : FileIdentities,
                    written : SUBSET Members]
        /\ stager' = [stager EXCEPT ![s] = new]
        /\ root' \in [by : Stagers \cup {"nobody"}, marked : BOOLEAN, files : MemberFiles]
        /\ root' = root \/ root.by = s \/ root.by = "nobody"
        /\ RootIsKnown' /\ Claims(s)'
  <1>e. SUFFICES Kept
    <2>1. ASSUME NEW t \in Stagers, t # s, stager' = [stager EXCEPT ![s] = new],
                 root' = root \/ root.by = s \/ root.by = "nobody"
          PROVE  Claims(t)'
      BY <2>1, <1>b, OthersKeepTheirClaims DEF StagingInv, OneOwner
    <2>2. QED
      BY <1>b, <2>1 DEF StagingTypes, OneOwner
  <1>1. CASE BeginStaging(s)
    <2>1. new = [stager[s] EXCEPT !.step = "hash", !.identity = Identity]
      BY <1>1, <1>b DEF BeginStaging
    <2>2. stager' = [stager EXCEPT ![s] = new]
      BY <1>1, <1>b, <2>1 DEF BeginStaging
    <2>3. QED
      BY <1>1, <2>1, <2>2, <1>a, <1>b DEF BeginStaging, Claims, RootIsKnown, Taken
  <1>2. CASE HashArchive(s)
    <2>1. Whole(archive) /\ archive # NoFile
      BY <1>2, WholeAsOpened DEF HashArchive, NoFile, File, Whole
    <2>2. new = [stager[s] EXCEPT !.step = "entries", !.hashed = Identity]
      BY <1>2, <1>b DEF HashArchive
    <2>3. stager' = [stager EXCEPT ![s] = new]
      BY <1>2, <1>b, <2>2 DEF HashArchive
    <2>4. QED
      BY <1>2, <2>1, <2>2, <2>3, <1>a, <1>b DEF HashArchive, Claims, RootIsKnown, Whole, Taken
  <1>3. CASE ReadEntries(s)
    BY <1>3, <1>a, <1>b DEF ReadEntries, Claims, RootIsKnown, Whole, Taken
  <1>4. CASE MakeRoot(s)
    <2>1. root' = [by |-> s, marked |-> FALSE, files |-> NoRoot.files]
      BY <1>4 DEF MakeRoot, NoRoot
    <2>2. QED
      BY <1>4, <2>1, <1>a, <1>b, <1>d DEF MakeRoot, Claims, RootIsKnown, Whole, Taken
  <1>5. CASE RefuseStaging(s)
    BY <1>5, <1>a, <1>b, <1>c DEF RefuseStaging, Claims, RootIsKnown
  <1>6. CASE WriteMarker(s)
    <2>1. root' = [root EXCEPT !.marked = TRUE] /\ root.by = s
      BY <1>6, <1>b DEF WriteMarker, Claims
    <2>2. /\ root'.by = s /\ root'.marked /\ root'.files = root.files
          /\ root' \in [by : Stagers \cup {"nobody"}, marked : BOOLEAN, files : MemberFiles]
      BY <2>1, <1>b
    <2>3. new = [stager[s] EXCEPT !.step = "extract"] /\ stager' = [stager EXCEPT ![s] = new]
          /\ stager[s].step = "mark"
      BY <1>6, <1>b DEF WriteMarker
    <2>4. RootIsKnown'
      BY <2>2, <1>a, <1>b DEF RootIsKnown
    <2>5. Claims(s)'
      BY <2>2, <2>3, <1>a, <1>b DEF Claims, Whole, OrOutside, Taken
    <2>6. QED
      BY <2>1, <2>2, <2>3, <2>4, <2>5, <1>b
  <1>7. ASSUME NEW m \in Members, ExtractMember(s, m)
        PROVE  Kept
    <2> DEFINE file == File(archive.content, archive.size, s, 0)
    <2>1. file \in Files /\ file.by = s /\ file.version = 0
      BY <1>a DEF File, Files, Writers
    <2>2. /\ root'.files \in MemberFiles
          /\ DOMAIN root'.files = DOMAIN root.files \cup {m}
          /\ root'.files[m] = file
          /\ \A n \in DOMAIN root.files : n # m => root'.files[n] = root.files[n]
      <3>1. root' = [root EXCEPT !.files = [n \in DOMAIN root.files \cup {m} |->
                                   IF n = m THEN file ELSE root.files[n]]]
        BY <1>7 DEF ExtractMember
      <3>2. root'.files = [n \in DOMAIN root.files \cup {m} |->
                              IF n = m THEN file ELSE root.files[n]]
        BY <3>1, <1>b
      <3>3. root.files \in MemberFiles
        BY <1>b
      <3>4. QED
        BY <2>1, <3>2, <3>3, PutFile
    <2>3. Whole(archive) => Whole(file)
      BY DEF File, Whole
    <2>4. root' \in [by : Stagers \cup {"nobody"}, marked : BOOLEAN, files : MemberFiles]
          /\ root'.by = s /\ root.by = s /\ root'.marked
      BY <1>7, <1>b, <2>2 DEF ExtractMember, Claims
    <2>5. RootIsKnown'
      BY <1>a, <1>b, <2>1, <2>2, <2>4 DEF RootIsKnown
    <2>6. /\ new = [stager[s] EXCEPT !.written = @ \cup {m}]
          /\ stager' = [stager EXCEPT ![s] = new]
          /\ stager[s].step = "extract"
      BY <1>7, <1>b DEF ExtractMember
    <2>7. Claims(s)'
      BY <1>a, <1>b, <2>2, <2>3, <2>4, <2>6 DEF Claims, OrOutside, Whole, Taken
    <2>8. QED
      BY <1>b, <2>4, <2>5, <2>6, <2>7
  <1>8. CASE FinishStaging(s)
    BY <1>8, <1>a, <1>b, <1>c DEF FinishStaging, Claims, RootIsKnown
  <1>9. CASE FailStaging(s)
    BY <1>9, <1>a, <1>b DEF FailStaging, Claims, RootIsKnown
  <1>10. ASSUME NEW removed \in BOOLEAN, CleanupStaging(s, removed)
         PROVE  Kept
    BY <1>10, <1>a, <1>b, <1>c, <1>d DEF CleanupStaging, Claims, RootIsKnown
  <1>11. CASE CrashStager(s)
    BY <1>11, <1>a, <1>b, <1>c DEF CrashStager, Claims, RootIsKnown
  <1>12. QED
    BY <1>1, <1>2, <1>3, <1>4, <1>5, <1>6, <1>7, <1>8, <1>9, <1>10, <1>11 DEF Stage

\* A directory that was handed over is left alone by all calls.
LEMMA StagedIsLeftAlone ==
    ASSUME StagingInv, NEW s \in Stagers, NEW t \in Stagers, stager[t].step = "staged", Stage(s)
    PROVE  root' = root /\ stager'[t] = stager[t] /\ s # t
  <1>1. root.by = t /\ root # NoRoot
    BY NobodyStages DEF StagingInv, OneOwner, Claims, NoRoot
  <1>2. stager[s].step \notin {"mark", "extract", "cleanup"}
    BY <1>1 DEF StagingInv, OneOwner, Claims
  <1>3. QED
    BY <1>1, <1>2 DEF Stage, BeginStaging, HashArchive, ReadEntries, MakeRoot, RefuseStaging,
       WriteMarker, ExtractMember, FinishStaging, FailStaging, CleanupStaging, CrashStager,
       StagerGoesTo, StagerEnds, StagingInv, StagingTypes

\* A call's step keeps what others have returned.
LEMMA StagePreservesStaged ==
    ASSUME AcquisitionInv, StagingInv, NEW s \in Stagers, Stage(s)
    PROVE  StagedIsThePinnedArchive'
  <1>1. ASSUME NEW t \in Stagers, stager'[t].step = "staged"
        PROVE  /\ root'.by = t /\ root'.marked
               /\ \A m \in Members : m \in DOMAIN root'.files /\ OrOutside(root'.files[m])
    <2>1. CASE stager[t].step = "staged"
      <3>1. root' = root /\ stager'[t] = stager[t]
        BY <2>1, StagedIsLeftAlone
      <3>2. QED
        BY <2>1, <3>1 DEF StagingInv, StagedIsThePinnedArchive, OrOutside
    <2>2. CASE stager[t].step # "staged"
      <3>a. stager \in [Stagers -> [step : StagerSteps, identity : FileIdentities,
                                    hashed : FileIdentities, written : SUBSET Members]]
        BY DEF StagingInv, StagingTypes
      <3>b. \A step : [IdleStager EXCEPT !.step = step].step = step
        BY DEF IdleStager
      <3>c. stager'[s].step # "staged" \/ FinishStaging(s)
        <4>1. CASE BeginStaging(s) \/ HashArchive(s) \/ ReadEntries(s) \/ MakeRoot(s)
                   \/ WriteMarker(s) \/ FailStaging(s)
          BY <4>1, <3>a DEF BeginStaging, HashArchive, ReadEntries, MakeRoot, WriteMarker,
             FailStaging, StagerGoesTo
        <4>2. CASE \E m \in Members : ExtractMember(s, m)
          BY <4>2, <3>a DEF ExtractMember
        <4>3. CASE RefuseStaging(s) \/ CrashStager(s)
                   \/ \E removed \in BOOLEAN : CleanupStaging(s, removed)
          BY <4>3, <3>a, <3>b DEF RefuseStaging, CrashStager, CleanupStaging, StagerEnds
        <4>4. QED
          BY <4>1, <4>2, <4>3 DEF Stage
      <3>d. t # s => stager'[t] = stager[t]
        BY <3>a DEF Stage, BeginStaging, HashArchive, ReadEntries, MakeRoot, RefuseStaging,
           WriteMarker, ExtractMember, FinishStaging, FailStaging, CleanupStaging, CrashStager,
           StagerGoesTo, StagerEnds
      <3>1. t = s /\ FinishStaging(s)
        BY <1>1, <2>2, <3>c, <3>d
      <3>2. stager[s].step = "extract" /\ stager[s].written = Members /\ Identity = stager[s].identity
            /\ root' = root
        BY <3>1 DEF FinishStaging, ArchiveAsInspected
      <3>3. QED
        BY <3>1, <3>2 DEF StagingInv, OneOwner, Claims
    <2>3. QED
      BY <2>1, <2>2
  <1>2. QED
    BY <1>1 DEF StagedIsThePinnedArchive, OrOutside, Whole

\* Each step of a staging keeps what stagings keep.
LEMMA StagePreserves ==
    ASSUME AcquisitionInv, StagingInv, NEW s \in Stagers, Stage(s),
           UNCHANGED <<acquisitionVars, outside>>
    PROVE  StagingInv'
  BY StagePreservesOwner, StagePreservesStaged DEF StagingInv

\* A file that somebody else has put there is new to all.
LEMMA ReplacedMember ==
    ASSUME AcquisitionInv, StagingInv, NEW m \in Members, NEW content \in {"pinned", "other"},
           ReplaceMember(m, content)
    PROVE  /\ outside' = outside + 1 /\ stager' = stager
           /\ root' \in [by : Stagers \cup {"nobody"}, marked : BOOLEAN, files : MemberFiles]
           /\ root'.by = root.by /\ root'.marked = root.marked /\ root # NoRoot
           /\ DOMAIN root'.files = DOMAIN root.files \cup {m}
           /\ root'.files[m].by = "outside" /\ root'.files[m].version = outside'
           /\ \A n \in DOMAIN root.files : n # m => root'.files[n] = root.files[n]
  <1> DEFINE file == File(content, Chunks, "outside", outside')
  <1>1. file \in Files /\ file.by = "outside" /\ file.version = outside' /\ outside' = outside + 1
    BY AcquisitionAssumption
       DEF ReplaceMember, AcquisitionInv, AcquisitionTypes, File, Files, Writers, Bodies
  <1>2. root \in [by : Stagers \cup {"nobody"}, marked : BOOLEAN, files : MemberFiles]
    BY DEF StagingInv, StagingTypes
  <1>3. root' = [root EXCEPT !.files = [n \in DOMAIN root.files \cup {m} |->
                                IF n = m THEN file ELSE root.files[n]]]
    BY DEF ReplaceMember
  <1>4. root'.files = [n \in DOMAIN root.files \cup {m} |-> IF n = m THEN file ELSE root.files[n]]
    BY <1>2, <1>3
  <1>5. root.files \in MemberFiles
    BY <1>2
  <1>6. /\ root'.files \in MemberFiles
        /\ DOMAIN root'.files = DOMAIN root.files \cup {m}
        /\ root'.files[m] = file
        /\ \A n \in DOMAIN root.files : n # m => root'.files[n] = root.files[n]
    <2> DEFINE result == [n \in DOMAIN root.files \cup {m} |->
                             IF n = m THEN file ELSE root.files[n]]
    <2>1. file \in Files
      BY <1>1
    <2> HIDE DEF file
    <2>2. /\ result \in MemberFiles
          /\ DOMAIN result = DOMAIN root.files \cup {m}
          /\ result[m] = file
          /\ \A n \in DOMAIN root.files : n # m => result[n] = root.files[n]
      BY ONLY <2>1, <1>5, m \in Members, PutFile
    <2>3. QED
      BY ONLY <2>2, <1>4
  <1>7. QED
    BY <1>1, <1>2, <1>3, <1>6 DEF ReplaceMember

\* A write of somebody else is told from a member that was staged.
LEMMA OthersPreserveStaging ==
    ASSUME AcquisitionInv, StagingInv, NEW m \in Members, NEW content \in {"pinned", "other"},
           ReplaceMember(m, content), UNCHANGED acquisitionVars
    PROVE  StagingInv'
  <1>1. outside' = outside + 1 /\ outside \in Nat
    BY ReplacedMember DEF AcquisitionInv, AcquisitionTypes
  <1>2. \A n \in DOMAIN root.files : root.files[n].version \in Nat
    BY DEF StagingInv, StagingTypes, MemberFiles, Files
  <1>3. \A s \in Stagers : stager[s].identity[2] \in Nat /\ stager[s].hashed[2] \in Nat
    BY DEF StagingInv, StagingTypes, FileIdentities
  <1>4. StagingTypes'
    BY ReplacedMember DEF StagingInv, StagingTypes
  <1>5. RootIsKnown'
    BY <1>1, <1>2, ReplacedMember DEF StagingInv, OneOwner, RootIsKnown
  <1>6. ASSUME NEW s \in Stagers
        PROVE  Claims(s)'
    BY <1>1, <1>3, ReplacedMember
       DEF StagingInv, OneOwner, Claims, Taken, Identity, IdentityOf, OrOutside, Whole,
           acquisitionVars
  <1>7. StagedIsThePinnedArchive'
    BY ReplacedMember DEF StagingInv, StagedIsThePinnedArchive, Whole
  <1>8. QED
    BY <1>4, <1>5, <1>6, <1>7 DEF StagingInv, OneOwner

\* What the review does is nothing to the stagings.
LEMMA ElsewherePreservesStaging ==
    ASSUME AcquisitionInv, StagingInv, UNCHANGED <<acquisitionVars, stagingVars>>,
           outside' \in Nat, outside <= outside'
    PROVE  StagingInv'
  <1>1. \A n \in DOMAIN root.files : root.files[n].version \in Nat
    BY DEF StagingInv, StagingTypes, MemberFiles, Files
  <1>2. \A s \in Stagers : stager[s].identity[2] \in Nat /\ stager[s].hashed[2] \in Nat
    BY DEF StagingInv, StagingTypes, FileIdentities
  <1>3. RootIsKnown' /\ \A s \in Stagers : Claims(s)'
    BY <1>1, <1>2 DEF StagingInv, OneOwner, RootIsKnown, Claims, Taken, Identity, IdentityOf,
       OrOutside, Whole, acquisitionVars, stagingVars, AcquisitionInv, AcquisitionTypes, NoRoot
  <1>4. QED
    BY <1>3 DEF StagingInv, OneOwner, StagingTypes, StagedIsThePinnedArchive, stagingVars, Whole
-------------------------------------------------------------------------------
ReviewSteps ==
    {"idle", "walk", "read", "confirm", "inspect", "transport", "after", "reviewed"}

Outcomes == {"signed_valid", "invalid", "timeout", "tool_error"}

Rows == Files \X Files \X Outcomes

MemberRows == UNION {[S -> Rows] : S \in SUBSET Members}

ReviewTypes ==
    /\ tool \in Files
    /\ review \in [step : ReviewSteps, at : Members \cup {NoMember},
                   before : FileIdentities \cup {<<>>}, read : Files,
                   manifest : MemberFiles, rows : MemberRows]

Handed == \E s \in Stagers : stager[s].step = "staged"

GoodRow(row) ==
    Whole(row[1]) /\ Whole(row[2]) /\ row[3] \in {"signed_valid", "timeout", "tool_error"}

\* What was hashed under an identity is what bears it now.
ManifestHolds ==
    \A m \in DOMAIN review.manifest :
        /\ m \in DOMAIN root.files /\ review.manifest[m].version <= outside
        /\ IdentityOf(root.files[m]) = IdentityOf(review.manifest[m]) =>
              review.manifest[m] = root.files[m]

\* The brackets: of a file that is being hashed, and of a tool that is at work.
BracketsHold ==
    /\ review.step \in {"read", "confirm", "transport", "after"} =>
          review.at \in Members /\ review.before \in FileIdentities /\ review.before[2] <= outside
    /\ review.step = "confirm" /\ review.at \in DOMAIN root.files
          /\ IdentityOf(root.files[review.at]) = review.before =>
                review.read = root.files[review.at]
    /\ review.step \in {"transport", "after"} =>
          review.at \in Candidates /\ (IdentityOf(tool) = review.before => Whole(tool))
    /\ review.step = "transport" => review.at \notin DOMAIN review.rows
    /\ review.step = "after" =>
          /\ review.at \in DOMAIN review.rows
          /\ IdentityOf(root.files[review.at]) = IdentityOf(review.manifest[review.at]) =>
                Whole(review.rows[review.at][1])
                /\ review.rows[review.at][3] \in {"signed_valid", "timeout", "tool_error"}
          /\ IdentityOf(tool) = review.before => Whole(review.rows[review.at][2])

RowsHold ==
    /\ DOMAIN review.rows \subseteq Candidates
    /\ \A m \in DOMAIN review.rows :
          GoodRow(review.rows[m]) \/ (review.step = "after" /\ m = review.at)
    /\ review.step = "reviewed" => DOMAIN review.rows = Candidates

ReviewInv ==
    /\ ReviewTypes
    /\ tool.version <= outside
    /\ review.step # "idle" => Handed
    /\ review.step = "idle" => DOMAIN review.manifest = {}
    /\ review.step \in {"inspect", "transport", "after", "reviewed"} =>
          DOMAIN review.manifest = Members /\ \A m \in Members : Whole(review.manifest[m])
    /\ ManifestHolds /\ BracketsHold /\ RowsHold

\* A review that begins has looked at nothing.
LEMMA NewReviewIsTyped ==
    /\ NewReview \in [step : ReviewSteps, at : Members \cup {NoMember},
                      before : FileIdentities \cup {<<>>}, read : Files,
                      manifest : MemberFiles, rows : MemberRows]
    /\ NewReview.step = "idle" /\ DOMAIN NewReview.manifest = {} /\ DOMAIN NewReview.rows = {}
  <1>1. Nothing \in MemberFiles /\ DOMAIN Nothing = {}
    BY DEF Nothing, MemberFiles
  <1>2. [m \in {} |-> <<NoFile, NoFile, "none">>] \in MemberRows
    BY DEF MemberRows
  <1>3. NoFile \in Files
    BY DEF NoFile, File, Files, Writers
  <1>4. QED
    BY <1>1, <1>2, <1>3 DEF NewReview, ReviewSteps

\* No review has begun at first.
LEMMA ReviewStarts == Init => ReviewInv
  BY NewReviewIsTyped, AcquisitionAssumption
     DEF Init, ReviewInit, ReviewInv, ReviewTypes, ManifestHolds, BracketsHold, RowsHold, Genuine,
         File, Files, Writers, Bodies

\* One row more, and the others as they were.
LEMMA PutRow ==
    ASSUME NEW given \in MemberRows, NEW m \in Members, NEW row \in Rows,
           NEW result, result = [n \in DOMAIN given \cup {m} |-> IF n = m THEN row ELSE given[n]]
    PROVE  /\ result \in MemberRows
           /\ DOMAIN result = DOMAIN given \cup {m}
           /\ result[m] = row
           /\ \A n \in DOMAIN given : n # m => result[n] = given[n]
  <1>1. PICK S \in SUBSET Members : given \in [S -> Rows]
    BY DEF MemberRows
  <1>2. result \in [S \cup {m} -> Rows] /\ S \cup {m} \in SUBSET Members
    BY <1>1
  <1>3. QED
    BY <1>1, <1>2 DEF MemberRows

\* While a review goes on, its directory is one that was handed over, and all
\* members are in it.
LEMMA AllMembersThere ==
    ASSUME StagingInv, Handed
    PROVE  /\ DOMAIN root.files = Members /\ root.files \in MemberFiles
           /\ \A m \in Members : root.files[m] \in Files /\ root.files[m].version <= outside
                                 /\ IdentityOf(root.files[m]) \in FileIdentities
  <1>1. root.files \in MemberFiles
    BY DEF StagingInv, StagingTypes
  <1>2. PICK S \in SUBSET Members : root.files \in [S -> Files]
    BY <1>1 DEF MemberFiles
  <1>3. \A m \in Members : m \in DOMAIN root.files
    BY DEF StagingInv, StagedIsThePinnedArchive, Handed
  <1>4. S = Members
    BY <1>2, <1>3
  <1>5. ASSUME NEW m \in Members
        PROVE  root.files[m] \in Files /\ root.files[m].version <= outside
               /\ IdentityOf(root.files[m]) \in FileIdentities
    <2>1. root.files[m] \in Files /\ root.files[m].version <= outside
      BY <1>2, <1>4 DEF StagingInv, OneOwner, RootIsKnown
    <2>2. QED
      BY <2>1 DEF IdentityOf, FileIdentities, Files
  <1>6. QED
    BY <1>1, <1>2, <1>4, <1>5

\* A step of the review itself.
LEMMA ReviewPreserves ==
    ASSUME AcquisitionInv, StagingInv, ReviewInv, Review,
           UNCHANGED <<acquisitionVars, stagingVars, tool, outside>>
    PROVE  ReviewInv'
  <1>a. /\ review \in [step : ReviewSteps, at : Members \cup {NoMember},
                       before : FileIdentities \cup {<<>>}, read : Files,
                       manifest : MemberFiles, rows : MemberRows]
        /\ root' = root /\ stager' = stager /\ tool' = tool /\ outside' = outside
        /\ Handed' = Handed /\ tool \in Files
    BY DEF ReviewInv, ReviewTypes, stagingVars, Handed
  <1>b. Handed => /\ DOMAIN root.files = Members /\ root.files \in MemberFiles
                  /\ \A m \in Members : root.files[m] \in Files /\ root.files[m].version <= outside
                                        /\ IdentityOf(root.files[m]) \in FileIdentities
    BY AllMembersThere
  <1> DEFINE Kept ==
        /\ review' \in [step : ReviewSteps, at : Members \cup {NoMember},
                        before : FileIdentities \cup {<<>>}, read : Files,
                        manifest : MemberFiles, rows : MemberRows]
        /\ review'.step # "idle" => Handed
        /\ review'.step = "idle" => DOMAIN review'.manifest = {}
        /\ review'.step \in {"inspect", "transport", "after", "reviewed"} =>
             DOMAIN review'.manifest = Members /\ \A m \in Members : Whole(review'.manifest[m])
        /\ ManifestHolds' /\ BracketsHold' /\ RowsHold'
  <1>c. SUFFICES Kept
    BY <1>a DEF ReviewInv, ReviewTypes, Whole
  <1>d. /\ review.step # "idle" => Handed
        /\ review.step \in {"inspect", "transport", "after", "reviewed"} =>
             DOMAIN review.manifest = Members /\ \A m \in Members : Whole(review.manifest[m])
        /\ ManifestHolds /\ BracketsHold /\ RowsHold
    BY DEF ReviewInv
  <1> USE DEF ReviewSteps
  <1>1. CASE BeginReview
    BY <1>1, <1>a, <1>d DEF BeginReview, Handed, ManifestHolds, BracketsHold, RowsHold
  <1>2. ASSUME NEW m \in Members, Meet(m)
        PROVE  Kept
    <2>1. /\ review.step = "walk" /\ Handed /\ IdentityOf(root.files[m])[2] <= outside
          /\ review' = [review EXCEPT !.step = "read", !.at = m,
                                      !.before = IdentityOf(root.files[m])]
      BY <1>2, <1>b, <1>d DEF Meet, IdentityOf
    <2>2. /\ review'.step = "read" /\ review'.at = m /\ review'.before = IdentityOf(root.files[m])
          /\ review'.manifest = review.manifest /\ review'.rows = review.rows
      BY <2>1, <1>a
    <2>3. review' \in [step : ReviewSteps, at : Members \cup {NoMember},
                       before : FileIdentities \cup {<<>>}, read : Files,
                       manifest : MemberFiles, rows : MemberRows]
      BY <2>1, <1>a, <1>b
    <2>4. QED
      BY <2>1, <2>2, <2>3, <1>a, <1>b, <1>d DEF ManifestHolds, BracketsHold, RowsHold
  <1>3. CASE Read
    BY <1>3, <1>a, <1>b, <1>d DEF Read, ManifestHolds, BracketsHold, RowsHold
  <1>4. CASE Confirm
    <2>1. /\ review.at \in Members /\ review.read = root.files[review.at]
          /\ IdentityOf(root.files[review.at]) = review.before /\ Handed
      BY <1>4, <1>d DEF Confirm, ReadIsStable, BracketsHold
    <2>2. [review.read EXCEPT !.by = review.before[1], !.version = review.before[2]]
             = root.files[review.at]
      <3>1. review.before[1] = review.read.by /\ review.before[2] = review.read.version
        BY <2>1 DEF IdentityOf
      <3>2. \A file \in Files : [file EXCEPT !.by = file.by, !.version = file.version] = file
        BY DEF Files
      <3>3. QED
        BY <2>1, <3>1, <3>2, <1>a
    <2>3. review' = [review EXCEPT !.step = "walk", !.at = NoMember, !.read = NoFile,
                       !.manifest = Put(review.manifest, review.at, root.files[review.at])]
      BY <1>4, <2>2 DEF Confirm
    <2>4. NoFile \in Files
      BY DEF NoFile, File, Files, Writers
    <2>5. /\ review'.manifest \in MemberFiles
          /\ DOMAIN review'.manifest = DOMAIN review.manifest \cup {review.at}
          /\ review'.manifest[review.at] = root.files[review.at]
          /\ \A n \in DOMAIN review.manifest : n # review.at => review'.manifest[n] = review.manifest[n]
      <3>1. review'.manifest = [n \in DOMAIN review.manifest \cup {review.at} |->
                  IF n = review.at THEN root.files[review.at] ELSE review.manifest[n]]
        BY <2>3, <1>a DEF Put
      <3>2. review.manifest \in MemberFiles
        BY <1>a
      <3>3. root.files[review.at] \in Files
        BY <2>1, <1>b
      <3>4. QED
        BY <2>1, <3>1, <3>2, <3>3, PutFile
    <2>6. review'.step = "walk" /\ review'.rows = review.rows /\ review.step = "confirm"
      BY <1>4, <2>3, <1>a DEF Confirm
    <2>7. review' \in [step : ReviewSteps, at : Members \cup {NoMember},
                       before : FileIdentities \cup {<<>>}, read : Files,
                       manifest : MemberFiles, rows : MemberRows]
      BY <2>3, <2>4, <2>5, <1>a
    <2>8. ManifestHolds'
      BY <2>1, <2>5, <1>a, <1>b, <1>d DEF ManifestHolds
    <2>9. BracketsHold' /\ RowsHold'
      BY <2>6, <1>d DEF BracketsHold, RowsHold
    <2>10. QED
      BY <2>1, <2>6, <2>7, <2>8, <2>9
  <1>5. CASE Admit
    BY <1>5, <1>a, <1>b, <1>d DEF Admit, ManifestHolds, BracketsHold, RowsHold
  <1>6. ASSUME NEW m \in Members, Launch(m)
        PROVE  Kept
    <2>1. IdentityOf(tool) \in FileIdentities /\ tool.version <= outside
      BY <1>a DEF IdentityOf, FileIdentities, Files, ReviewInv
    <2>2. /\ review.step = "inspect" /\ m \in Candidates /\ m \notin DOMAIN review.rows
          /\ Whole(tool) /\ Handed
          /\ review' = [review EXCEPT !.step = "transport", !.at = m, !.before = IdentityOf(tool)]
      BY <1>6, <1>d DEF Launch
    <2>3. /\ review'.step = "transport" /\ review'.at = m /\ review'.before = IdentityOf(tool)
          /\ review'.manifest = review.manifest /\ review'.rows = review.rows
      BY <2>2, <1>a
    <2>4. review' \in [step : ReviewSteps, at : Members \cup {NoMember},
                       before : FileIdentities \cup {<<>>}, read : Files,
                       manifest : MemberFiles, rows : MemberRows]
      BY <2>1, <2>2, <1>a
    <2>5. IdentityOf(tool)[2] <= outside
      BY <2>1 DEF IdentityOf
    <2>6. QED
      BY <2>1, <2>2, <2>3, <2>4, <2>5, <1>a, <1>b, <1>d
         DEF ManifestHolds, BracketsHold, RowsHold, Whole
  <1>7. CASE Transport
    <2> DEFINE file == root.files[review.at]
    <2>1. PICK reply \in Replies :
             review' = [review EXCEPT !.step = "after",
                          !.rows = Put(@, review.at, <<file, tool, Outcome(Observation(reply, file))>>)]
      BY <1>7 DEF Transport
    <2> DEFINE row == <<file, tool, Outcome(Observation(reply, file))>>
    <2>2. review.at \in Candidates /\ review.at \in Members /\ review.at \notin DOMAIN review.rows /\ Handed
      BY <1>7, <1>d DEF Transport, BracketsHold
    <2>3. /\ Outcome(Observation(reply, file)) \in Outcomes
          /\ Whole(file) => Outcome(Observation(reply, file)) \in {"signed_valid", "timeout", "tool_error"}
      <3>1. CASE reply = "told"
        BY <3>1 DEF Outcome, Observation, Signature, Outcomes
      <3>2. CASE reply # "told"
        BY <3>2 DEF Outcome, Observation, Outcomes
      <3>3. QED
        BY <3>1, <3>2
    <2>4. row \in Rows /\ row[1] = file /\ row[2] = tool /\ row[3] = Outcome(Observation(reply, file))
      BY <2>2, <2>3, <1>a, <1>b DEF Rows
    <2>5. /\ review'.rows \in MemberRows
          /\ DOMAIN review'.rows = DOMAIN review.rows \cup {review.at}
          /\ review'.rows[review.at] = row
          /\ \A n \in DOMAIN review.rows : n # review.at => review'.rows[n] = review.rows[n]
      <3>1. review'.rows = [n \in DOMAIN review.rows \cup {review.at} |->
                              IF n = review.at THEN row ELSE review.rows[n]]
        BY <2>1, <1>a DEF Put
      <3>2. review.rows \in MemberRows
        BY <1>a
      <3> HIDE DEF row
      <3>3. QED
        BY <2>2, <2>4, <3>1, <3>2, PutRow
    <2>6. IdentityOf(file) = IdentityOf(review.manifest[review.at]) => Whole(file)
      BY <1>7, <2>2, <1>d DEF Transport, ManifestHolds, Whole
    <2>7. IdentityOf(tool) = review.before => Whole(tool)
      BY <1>7, <1>d DEF Transport, BracketsHold
    <2> HIDE DEF row
    <2>8. /\ review'.step = "after" /\ review'.at = review.at /\ review'.before = review.before
          /\ review'.manifest = review.manifest /\ review'.read = review.read
          /\ review.step = "transport"
      BY <1>7, <2>1, <1>a DEF Transport
    <2>9. review' \in [step : ReviewSteps, at : Members \cup {NoMember},
                       before : FileIdentities \cup {<<>>}, read : Files,
                       manifest : MemberFiles, rows : MemberRows]
      BY <2>1, <2>5, <1>a
    <2>10. ManifestHolds' /\ RowsHold'
      BY <2>2, <2>5, <2>8, <1>a, <1>d DEF ManifestHolds, RowsHold, GoodRow, Whole
    <2>11. BracketsHold'
      BY <2>2, <2>3, <2>4, <2>5, <2>6, <2>7, <2>8, <1>a, <1>d DEF BracketsHold, Whole
    <2>12. QED
      BY <2>2, <2>8, <2>9, <2>10, <2>11, <1>d
  <1>8. CASE AfterTransport
    <2>1. GoodRow(review.rows[review.at])
      BY <1>8, <1>d DEF AfterTransport, InspectionIsStable, BracketsHold, GoodRow
    <2>2. QED
      BY <1>8, <2>1, <1>a, <1>d DEF AfterTransport, ManifestHolds, BracketsHold, RowsHold, GoodRow, Whole
  <1>9. CASE FinishReview
    BY <1>9, <1>a, <1>d DEF FinishReview, ManifestHolds, BracketsHold, RowsHold, GoodRow, Whole
  <1>10. CASE RefuseReview
    BY <1>10, <1>a, NewReviewIsTyped DEF RefuseReview, ManifestHolds, BracketsHold, RowsHold
  <1>11. QED
    BY <1>1, <1>2, <1>3, <1>4, <1>5, <1>6, <1>7, <1>8, <1>9, <1>10 DEF Review

\* A review is left as it is by whatever leaves the directory it reads and the
\* tool alone.
LEMMA ElsewherePreservesReview ==
    ASSUME AcquisitionInv, StagingInv, ReviewInv, UNCHANGED <<tool, review>>,
           outside' \in Nat, outside <= outside',
           Handed => Handed' /\ root' = root
    PROVE  ReviewInv'
  <1>1. outside \in Nat /\ tool.version \in Nat
    BY DEF AcquisitionInv, AcquisitionTypes, ReviewInv, ReviewTypes, Files
  <1>2. \A m \in DOMAIN review.manifest : review.manifest[m].version \in Nat
    BY DEF ReviewInv, ReviewTypes, MemberFiles, Files
  <1>3. ManifestHolds'
    BY <1>1, <1>2 DEF ReviewInv, ManifestHolds
  <1>4. BracketsHold'
    BY <1>1 DEF ReviewInv, BracketsHold, FileIdentities, Whole
  <1>5. RowsHold'
    BY DEF ReviewInv, RowsHold, GoodRow, Whole
  <1>6. QED
    BY <1>1, <1>3, <1>4, <1>5 DEF ReviewInv, ReviewTypes, Whole

\* What a staging does leaves the rows of a review true.
LEMMA StageLeavesReview ==
    ASSUME StagingInv, NEW s \in Stagers, Stage(s), Handed
    PROVE  Handed' /\ root' = root
  BY StagedIsLeftAlone DEF Handed

\* A member that was replaced has another identity than any that was taken.
LEMMA OthersPreserveReview ==
    ASSUME AcquisitionInv, StagingInv, ReviewInv, UNCHANGED <<tool, review>>,
           NEW m \in Members, NEW content \in {"pinned", "other"}, ReplaceMember(m, content)
    PROVE  ReviewInv'
  <1>1. outside' = outside + 1 /\ outside \in Nat /\ tool.version \in Nat
    BY ReplacedMember DEF AcquisitionInv, AcquisitionTypes, ReviewInv, ReviewTypes, Files
  <1>2. \A n \in DOMAIN review.manifest : review.manifest[n].version \in Nat
    BY DEF ReviewInv, ReviewTypes, MemberFiles, Files
  <1>3. Handed' = Handed
    BY ReplacedMember DEF Handed
  <1>4. IdentityOf(root'.files[m])[2] = outside + 1
    BY <1>1, ReplacedMember DEF IdentityOf
  <1>5. ManifestHolds'
    <2>1. ASSUME NEW n \in DOMAIN review.manifest
          PROVE  /\ n \in DOMAIN root'.files /\ review.manifest[n].version <= outside'
                 /\ IdentityOf(root'.files[n]) = IdentityOf(review.manifest[n]) =>
                       review.manifest[n] = root'.files[n]
      <3>1. n \in DOMAIN root.files /\ review.manifest[n].version <= outside
        BY DEF ReviewInv, ManifestHolds
      <3>2. CASE n = m
        <4>1. IdentityOf(review.manifest[n])[2] # IdentityOf(root'.files[n])[2]
          BY <1>1, <1>2, <1>4, <3>1, <3>2 DEF IdentityOf
        <4>2. QED
          BY <1>1, <1>2, <3>1, <4>1, ReplacedMember
      <3>3. CASE n # m
        BY <1>1, <1>2, <3>1, <3>3, ReplacedMember DEF ReviewInv, ManifestHolds
      <3>4. QED
        BY <3>2, <3>3
    <2>2. QED
      BY <2>1 DEF ManifestHolds
  <1>6. review.step \in {"read", "confirm", "transport", "after"} =>
           /\ review.at \in Members /\ review.before \in FileIdentities /\ review.before[2] <= outside
           /\ review.before[2] \in Nat
    BY DEF ReviewInv, BracketsHold, FileIdentities
  <1>7. CASE review.at # m
    <2>1. BracketsHold'
      BY <1>1, <1>6, <1>7, ReplacedMember, AllMembersThere DEF ReviewInv, BracketsHold, Whole
    <2>2. QED
      BY <1>1, <1>3, <1>5, <2>1 DEF ReviewInv, ReviewTypes, RowsHold, GoodRow, Whole
  <1>8. CASE review.at = m
    <2>1. review.step \in {"read", "confirm", "transport", "after"} =>
             IdentityOf(root'.files[review.at]) # review.before
      BY <1>1, <1>4, <1>6, <1>8
    <2>2. review.step = "after" =>
             IdentityOf(root'.files[review.at]) # IdentityOf(review.manifest[review.at])
      <3>1. review.step = "after" =>
               review.manifest[m].version <= outside /\ m \in DOMAIN review.manifest
        BY <1>8, <1>6 DEF ReviewInv, ManifestHolds
      <3>2. IdentityOf(review.manifest[m])[2] = review.manifest[m].version
        BY DEF IdentityOf
      <3>3. QED
        BY <1>1, <1>2, <1>4, <1>8, <3>1, <3>2
    <2>3. BracketsHold'
      BY <1>1, <1>6, <2>1, <2>2 DEF ReviewInv, BracketsHold, Whole
    <2>4. QED
      BY <1>1, <1>3, <1>5, <2>3 DEF ReviewInv, ReviewTypes, RowsHold, GoodRow, Whole
  <1>9. QED
    BY <1>7, <1>8

\* A tool that is replaced is not the tool a review has looked at.
LEMMA ReplaceToolPreservesReview ==
    ASSUME AcquisitionInv, StagingInv, ReviewInv, UNCHANGED <<stagingVars, review>>,
           NEW content \in {"pinned", "other"}, ReplaceTool(content)
    PROVE  ReviewInv'
  <1>1. outside' = outside + 1 /\ outside \in Nat
    BY DEF ReplaceTool, AcquisitionInv, AcquisitionTypes
  <1>2. tool' \in Files /\ tool'.version = outside' /\ IdentityOf(tool')[2] = outside + 1
    BY <1>1, AcquisitionAssumption DEF ReplaceTool, File, Files, Writers, Bodies, IdentityOf
  <1>3. \A m \in DOMAIN review.manifest : review.manifest[m].version \in Nat
    BY DEF ReviewInv, ReviewTypes, MemberFiles, Files
  <1>4. ManifestHolds'
    BY <1>1, <1>3 DEF ReviewInv, ManifestHolds, stagingVars
  <1>5. review.step \in {"transport", "after"} => IdentityOf(tool') # review.before
    BY <1>1, <1>2 DEF ReviewInv, BracketsHold, FileIdentities
  <1>6. BracketsHold'
    BY <1>1, <1>5 DEF ReviewInv, BracketsHold, FileIdentities, stagingVars, Whole
  <1>7. QED
    BY <1>1, <1>2, <1>4, <1>6
       DEF ReviewInv, ReviewTypes, RowsHold, GoodRow, Whole, Handed, stagingVars
-------------------------------------------------------------------------------
PipelineInv == AcquisitionInv /\ StagingInv /\ ReviewInv

\* Each step of the pipeline keeps all three.
LEMMA PipelinePreserved ==
    ASSUME PipelineInv, [Next]_vars
    PROVE  PipelineInv'
  <1> USE DEF PipelineInv
  <1>0. outside \in Nat
    BY DEF AcquisitionInv, AcquisitionTypes
  <1>1. ASSUME NEW a \in Acquirers, Acquire(a), UNCHANGED <<stagingVars, tool, review, outside>>
        PROVE  PipelineInv'
    <2>1. AcquisitionInv'
      BY <1>1, AcquirePreserves
    <2>2. StagingInv'
      BY <1>1, <2>1, ArchiveStepsPreserveStaging
    <2>3. ReviewInv'
      BY <1>0, <1>1, ElsewherePreservesReview DEF stagingVars, Handed
    <2>4. QED
      BY <2>1, <2>2, <2>3
  <1>2. ASSUME NEW s \in Stagers, Stage(s), UNCHANGED <<acquisitionVars, tool, review, outside>>
        PROVE  PipelineInv'
    <2>1. AcquisitionInv' /\ StagingInv'
      BY <1>0, <1>2, ElsewherePreservesAcquisition, StagePreserves
    <2>2. ReviewInv'
      BY <1>0, <1>2, ElsewherePreservesReview, StageLeavesReview
    <2>3. QED
      BY <2>1, <2>2
  <1>3. CASE Review /\ UNCHANGED <<acquisitionVars, stagingVars, tool, outside>>
    BY <1>0, <1>3, ElsewherePreservesAcquisition, ElsewherePreservesStaging, ReviewPreserves
  <1>4. ASSUME NEW content \in Bodies \cup {"none"}, ReplaceArchive(content),
               UNCHANGED <<stagingVars, tool, review>>
        PROVE  PipelineInv'
    <2>1. AcquisitionInv'
      BY <1>4, OthersPreserveAcquisition
    <2>2. StagingInv'
      BY <1>4, <2>1, ArchiveStepsPreserveStaging
    <2>3. outside' \in Nat /\ outside <= outside'
      BY <1>0, <1>4 DEF ReplaceArchive
    <2>4. ReviewInv'
      BY <1>4, <2>3, ElsewherePreservesReview DEF stagingVars, Handed
    <2>5. QED
      BY <2>1, <2>2, <2>4
  <1>5. ASSUME NEW m \in Members, NEW content \in {"pinned", "other"}, ReplaceMember(m, content),
               UNCHANGED <<acquisitionVars, tool, review>>
        PROVE  PipelineInv'
    <2>1. outside' \in Nat /\ outside <= outside'
      BY <1>0, <1>5 DEF ReplaceMember
    <2>2. QED
      BY <1>5, <2>1, ElsewherePreservesAcquisition, OthersPreserveStaging, OthersPreserveReview
  <1>6. ASSUME NEW content \in {"pinned", "other"}, ReplaceTool(content),
               UNCHANGED <<acquisitionVars, stagingVars, review>>
        PROVE  PipelineInv'
    <2>1. outside' \in Nat /\ outside <= outside'
      BY <1>0, <1>6 DEF ReplaceTool
    <2>2. QED
      BY <1>6, <2>1, ElsewherePreservesAcquisition, ElsewherePreservesStaging,
         ReplaceToolPreservesReview
  <1>7. CASE UNCHANGED vars
    <2>1. UNCHANGED <<acquisitionVars, stagingVars, tool, review, outside>>
      BY <1>7 DEF vars
    <2>2. QED
      BY <1>0, <2>1, ElsewherePreservesAcquisition, ElsewherePreservesStaging,
         ElsewherePreservesReview DEF stagingVars, Handed
  <1>8. QED
    BY <1>1, <1>2, <1>3, <1>4, <1>5, <1>6, <1>7 DEF Next

\* So they hold in every state.
LEMMA PipelineHolds == Spec => []PipelineInv
  <1>1. Init => PipelineInv
    BY AcquisitionStarts, StagingStarts, ReviewStarts DEF PipelineInv
  <1>2. PipelineInv /\ [Next]_vars => PipelineInv'
    BY PipelinePreserved
  <1>3. QED
    BY <1>1, <1>2, PTL DEF Spec

\* What an acquisition put at the destination is the pinned archive as a whole,
\* and no partial file is taken from its run (acquire_exact_archive): for any
\* number of runs, crashes, answers and writes of others.
THEOREM WholeArchive == Spec => []AcquiredIsWhole
  <1>1. PipelineInv => AcquiredIsWhole
    BY DEF PipelineInv, AcquisitionInv, OnePartial, AcquiredIsWhole
  <1>2. QED
    BY <1>1, PipelineHolds, PTL

\* A staging that returned holds every member of the pinned archive, unless
\* somebody else wrote there (stage_archive): for any members and calls.
THEOREM StagedArchive == Spec => []StagedIsThePinnedArchive
  <1>1. PipelineInv => StagedIsThePinnedArchive
    BY DEF PipelineInv, StagingInv
  <1>2. QED
    BY <1>1, PipelineHolds, PTL

\* A review that returned has classified the bytes of the pinned archive with
\* the genuine tools (review_staged_candidates): for any candidates.
THEOREM GenuineReview == Spec => []ClassifiedIsGenuine
  <1>1. PipelineInv => ClassifiedIsGenuine
    BY DEF PipelineInv, ReviewInv, RowsHold, GoodRow, ClassifiedIsGenuine
  <1>2. QED
    BY <1>1, PipelineHolds, PTL

-------------------------------------------------------------------------------
(* One invocation comes to the machine *)

Disks == [cache : BOOLEAN, claim : {"none", "partial", "whole"}, by : Invokers \cup {"nobody"},
          result : {"none", "accepted", "rejected"}, cli : BOOLEAN]

\* The claim is made by the invocation that goes on with it, and stays.
ClaimInv ==
    /\ invoker \in [Invokers -> {"check", "cache", "claim", "claimed", "attempt", "ended"}]
    /\ disk \in Disks
    /\ \A i \in Invokers :
          invoker[i] \in {"claimed", "attempt", "ended"} => disk.claim = "whole" /\ disk.by = i

\* At first there is no claim and nobody has begun.
LEMMA ClaimStarts == LoadHealthInit => ClaimInv
  BY DEF LoadHealthInit, ClaimInv, Disks

\* The attempt writes and removes the CLI's copy and nothing else.
LEMMA AttemptLeavesClaims ==
    ASSUME Attempt
    PROVE  /\ UNCHANGED invoker
           /\ disk' = disk \/ \E b \in BOOLEAN : disk' = [disk EXCEPT !.cli = b]
  BY DEF Attempt, GateFails, Baseline, StageCli, DaemonUp, CaptureRoot, RequireStandalone, BeginLoad,
         RunLoop, MonitorLoad, LoadReturns, LoadedIdentity, SampleAfterLoad, SampleFails, FindRoot,
         LookForRoot, UnloadModel, RemainingModels, StatusBefore, DownCommand, PollStatus, WaitForRoot, ForceOwned,
         CleanupFails, FinalSnapshot, FinalFiles

\* One invocation goes on, and the disk is as it was but for the claim it makes
\* where there is none, and for what is no claim.
LEMMA ClaimKeptBy ==
    ASSUME ClaimInv, NEW i \in Invokers,
           NEW step \in {"check", "cache", "claim", "claimed", "attempt", "ended"},
           InvokerGoesTo(i, step),
           disk' \in Disks,
           \/ disk'.claim = disk.claim /\ disk'.by = disk.by
           \/ disk.claim = "none" /\ disk'.by = i,
           step \in {"claimed", "attempt", "ended"} => disk'.claim = "whole" /\ disk'.by = i
    PROVE  ClaimInv'
  <1>1. /\ invoker' \in [Invokers -> {"check", "cache", "claim", "claimed", "attempt", "ended"}]
        /\ \A j \in Invokers : invoker'[j] = IF j = i THEN step ELSE invoker[j]
    BY DEF ClaimInv, InvokerGoesTo
  <1>2. \A j \in Invokers : j # i /\ invoker[j] \in {"claimed", "attempt", "ended"} =>
           disk'.claim = "whole" /\ disk'.by = j
    BY DEF ClaimInv
  <1>3. QED
    BY <1>1, <1>2 DEF ClaimInv

\* No step of an invocation, a crash included, takes a claim away.
LEMMA ClaimKept ==
    ASSUME ClaimInv, HostNext
    PROVE  ClaimInv'
  <1>1. ASSUME NEW i \in Invokers, CheckClaim(i)
        PROVE  ClaimInv'
    BY <1>1, ClaimKeptBy DEF CheckClaim, ClaimInv
  <1>2. ASSUME NEW i \in Invokers, MakeCache(i)
        PROVE  ClaimInv'
    <2>1. PICK step \in {"check", "claim"} : InvokerGoesTo(i, step)
      BY <1>2 DEF MakeCache
    <2>2. disk' \in Disks /\ disk'.claim = disk.claim /\ disk'.by = disk.by
      BY <1>2 DEF MakeCache, ClaimInv, Disks
    <2>3. QED
      BY <2>1, <2>2, ClaimKeptBy
  <1>3. ASSUME NEW i \in Invokers, WriteClaim(i)
        PROVE  ClaimInv'
    <2>1. CASE /\ disk.claim = "none"
               /\ disk' = [disk EXCEPT !.claim = "whole", !.by = i]
               /\ InvokerGoesTo(i, "claimed")
      <3>1. disk' \in Disks /\ disk'.claim = "whole" /\ disk'.by = i
        BY <2>1 DEF ClaimInv, Disks
      <3>2. QED
        BY <2>1, <3>1, ClaimKeptBy
    <2>2. CASE disk' = disk /\ InvokerGoesTo(i, "check")
      BY <2>2, ClaimKeptBy DEF ClaimInv
    <2>3. CASE /\ disk.claim = "none" /\ disk' = [disk EXCEPT !.claim = "partial", !.by = i]
               /\ InvokerGoesTo(i, "check")
      <3>1. disk' \in Disks /\ disk'.by = i
        BY <2>3 DEF ClaimInv, Disks
      <3>2. QED
        BY <2>3, <3>1, ClaimKeptBy
    <2>4. QED
      BY <1>3, <2>1, <2>2, <2>3 DEF WriteClaim
  <1>4. ASSUME NEW i \in Invokers, BeginAttempt(i)
        PROVE  ClaimInv'
    <2>1. disk' = disk /\ disk.claim = "whole" /\ disk.by = i /\ disk \in Disks
      BY <1>4 DEF BeginAttempt, ClaimInv
    <2>2. QED
      BY <1>4, <2>1, ClaimKeptBy DEF BeginAttempt
  <1>5. ASSUME NEW i \in Invokers, Crash(i)
        PROVE  ClaimInv'
    <2>1. CASE disk' = disk
      BY <1>5, <2>1, ClaimKeptBy DEF Crash, ClaimInv
    <2>2. CASE disk.claim = "none" /\ disk' = [disk EXCEPT !.claim = "partial", !.by = i]
      <3>1. disk' \in Disks /\ disk'.by = i
        BY <2>2 DEF ClaimInv, Disks
      <3>2. QED
        BY <1>5, <2>2, <3>1, ClaimKeptBy DEF Crash
    <2>3. QED
      BY <1>5, <2>1, <2>2 DEF Crash
  <1>6. ASSUME NEW i \in Invokers, WriteResult(i)
        PROVE  ClaimInv'
    <2>1. disk' = disk \/ \E r \in {"accepted", "rejected"} : disk' = [disk EXCEPT !.result = r]
      BY <1>6 DEF WriteResult
    <2>2. disk' \in Disks /\ disk'.claim = disk.claim /\ disk'.by = disk.by
      BY <2>1 DEF ClaimInv, Disks
    <2>3. disk.claim = "whole" /\ disk.by = i /\ InvokerGoesTo(i, "ended")
      BY <1>6 DEF WriteResult, ClaimInv
    <2>4. QED
      BY <2>2, <2>3, ClaimKeptBy
  <1>7. CASE Attempt
    <2>1. disk' \in Disks /\ disk'.claim = disk.claim /\ disk'.by = disk.by /\ invoker' = invoker
      BY <1>7, AttemptLeavesClaims DEF ClaimInv, Disks
    <2>2. QED
      BY <2>1 DEF ClaimInv
  <1>8. CASE UNCHANGED <<invoker, disk>>
    BY <1>8 DEF ClaimInv
  <1>9. QED
    BY <1>1, <1>2, <1>3, <1>4, <1>5, <1>6, <1>7, <1>8
       DEF HostNext, LoadHealthNext, Claiming, loadHealthVars

-------------------------------------------------------------------------------
(* The machine *)

\* A process is known by its birth, and there is at most one service, in which
\* the model is if it is anywhere.
MachineInv ==
    /\ births \in Nat
    /\ \A p \in processes : p.born \in 1..births
    /\ \A p, q \in processes : p.born = q.born => p = q
    /\ \A p, q \in Services : p = q
    /\ loaded # 0 => \E p \in Services : p.born = loaded

\* Whatever else happens, births count on and nobody is born twice.
Moves ==
    /\ births' \in Nat /\ births <= births'
    /\ \A p \in processes' : p \in processes \/ p.born > births

\* At first there is at most the one process of the user.
LEMMA MachineStarts == HostInit => MachineInv
  <1> SUFFICES ASSUME HostInit PROVE MachineInv
    OBVIOUS
  <1>1. PICK running \in {{}, {"llmster"}, {"desktop"}} :
           /\ processes = {[pid |-> 1, born |-> 1, name |-> n, parent |-> 0, by |-> "user"] : n \in running}
           /\ births = Cardinality(running)
    BY DEF HostInit
  <1>2. CASE running = {}
    BY <1>1, <1>2, FS_EmptySet DEF HostInit, MachineInv, Services
  <1>3. ASSUME NEW name, running = {name}
        PROVE  MachineInv
    <2>1. births = 1
      BY <1>1, <1>3, FS_Singleton
    <2>2. \A p \in processes : p = [pid |-> 1, born |-> 1, name |-> name, parent |-> 0, by |-> "user"]
      BY <1>1, <1>3
    <2>3. QED
      BY <2>1, <2>2 DEF HostInit, MachineInv, Services
  <1>4. QED
    BY <1>2, <1>3

\* Processes that end take the model along.
LEMMA EndKeeps ==
    ASSUME MachineInv, NEW ps, End(ps)
    PROVE  MachineInv' /\ Moves /\ (loaded' = 0 \/ loaded' = loaded)
  <1>1. /\ processes' = processes \ ps /\ births' = births
        /\ loaded' = IF \E p \in ps : p.born = loaded THEN 0 ELSE loaded
    BY DEF End
  <1>2. Services' = Services \ ps
    BY <1>1 DEF Services
  <1>3. loaded' # 0 => \E p \in Services' : p.born = loaded'
    BY <1>1, <1>2 DEF MachineInv
  <1>4. QED
    BY <1>1, <1>2, <1>3 DEF MachineInv, Moves

\* A service is only started where there is none.
LEMMA SpawnKeeps ==
    ASSUME MachineInv, NEW name, NEW parent, NEW by, Spawn(name, parent, by),
           name \in ServiceRootNames => Services = {},
           loaded' = loaded \/ \E s \in Services : loaded' = s.born
    PROVE  MachineInv' /\ Moves
  <1>1. PICK pid : processes' = processes \cup {Born(name, pid, parent, by)}
    BY DEF Spawn
  <1>2. births' = births + 1
    BY DEF Spawn
  <1> DEFINE new == Born(name, pid, parent, by)
  <1>3. new.born = births + 1 /\ new.name = name
    BY DEF Born
  <1>4. processes' = processes \cup {new}
    BY <1>1
  <1> HIDE DEF new
  <1>5. Services' = Services \cup (IF name \in ServiceRootNames THEN {new} ELSE {})
    BY <1>3, <1>4 DEF Services
  <1>6. /\ \A p \in processes : p.born \in 1..births /\ p # new
        /\ births \in Nat /\ births' \in Nat /\ births' = births + 1
    BY <1>2, <1>3 DEF MachineInv
  <1>7. \A p \in processes' : p.born \in 1..births'
    BY <1>3, <1>4, <1>6
  <1>8. \A p, q \in processes' : p.born = q.born => p = q
    BY <1>3, <1>4, <1>6 DEF MachineInv
  <1>9. \A p, q \in Services' : p = q
    BY <1>5 DEF MachineInv
  <1>10. loaded' # 0 => \E p \in Services' : p.born = loaded'
    BY <1>5 DEF MachineInv
  <1>11. \A p \in processes' : p \in processes \/ p.born > births
    BY <1>3, <1>4, <1>6
  <1>12. QED
    BY <1>6, <1>7, <1>8, <1>9, <1>10, <1>11 DEF MachineInv, Moves

\* A model that goes leaves the service.
LEMMA MachineStays ==
    ASSUME MachineInv, UNCHANGED <<processes, births>>, loaded' = 0 \/ loaded' = loaded
    PROVE  MachineInv' /\ Moves
  BY DEF MachineInv, Moves, Services

\* daemon up starts a service only where there is none.
LEMMA ServiceUpKeeps ==
    ASSUME MachineInv, ServiceIsUp, loaded' = loaded
    PROVE  MachineInv' /\ Moves
  <1>1. CASE UNCHANGED <<processes, births>>
    BY <1>1, MachineStays
  <1>2. CASE Services = {} /\ \E name \in {"llmster", "service"} : Spawn(name, 0, "attempt")
    BY <1>2, SpawnKeeps
  <1>3. QED
    BY <1>1, <1>2 DEF ServiceIsUp

\* So does the user.
LEMMA UserKeeps ==
    ASSUME MachineInv, User
    PROVE  MachineInv' /\ Moves /\ (loaded' = 0 \/ loaded' = loaded)
  <1>1. CASE UserStarts
    BY <1>1, SpawnKeeps DEF UserStarts
  <1>2. CASE ServiceEnds
    BY <1>2, EndKeeps DEF ServiceEnds
  <1>3. QED
    BY <1>1, <1>2 DEF User

\* unload takes the model out of its service.
LEMMA UnloadKeeps ==
    ASSUME MachineInv, NEW reply, Unload(reply)
    PROVE  MachineInv' /\ Moves /\ (loaded' = 0 \/ loaded' = loaded)
  BY MachineStays DEF Unload

\* daemon down ends processes and starts none.
LEMMA DownKeeps ==
    ASSUME MachineInv, NEW reply, Down(reply)
    PROVE  MachineInv' /\ Moves /\ (loaded' = 0 \/ loaded' = loaded)
  <1>1. ASSUME NEW ps, End(ps)
        PROVE  MachineInv' /\ Moves /\ (loaded' = 0 \/ loaded' = loaded)
    BY <1>1, EndKeeps
  <1>2. CASE UNCHANGED <<processes, births, loaded>>
    BY <1>2, MachineStays
  <1>3. QED
    BY <1>1, <1>2 DEF Down

\* Who is alive was alive, if he was born at all.
LEMMA NobodyRises ==
    ASSUME MachineInv, Moves, NEW r, r.born \in 0..births, RootAlive(r)'
    PROVE  RootAlive(r)
  <1>1. PICK p \in processes' : RootOf(p) = r
    BY DEF RootAlive
  <1>2. p.born = r.born
    BY <1>1 DEF RootOf
  <1>3. p \in processes
    BY <1>2 DEF MachineInv, Moves
  <1>4. QED
    BY <1>1, <1>3 DEF RootAlive

-------------------------------------------------------------------------------
(* The load command *)

SupervisedInv ==
    /\ supervised = [step |-> supervised.step, child |-> supervised.child, large |-> supervised.large,
                     exit |-> supervised.exit, outcome |-> supervised.outcome]
    /\ supervised.child \in 0..births
    /\ supervised.step = "idle" =>
          supervised.child = 0 /\ supervised.exit = "none" /\ supervised.outcome = "none"
    /\ supervised.exit # "none" => ChildProcess = {}
    /\ supervised.outcome = "zero" => supervised.exit = "zero"

\* A command that has exited is not running and has said how.
LEMMA SupervisedStays ==
    ASSUME MachineInv, MachineInv', SupervisedInv, Moves, UNCHANGED supervised
    PROVE  SupervisedInv' /\ ChildProcess' \subseteq ChildProcess
  <1>1. supervised.child \in 0..births /\ supervised.child \in 0..births'
    BY DEF SupervisedInv, MachineInv, Moves
  <1>2. ChildProcess' \subseteq ChildProcess
    BY <1>1 DEF ChildProcess, MachineInv, Moves
  <1>3. QED
    BY <1>1, <1>2 DEF SupervisedInv

\* The load can only bring the model in while the command is running.
CommandKeeps ==
    /\ MachineInv' /\ Moves /\ SupervisedInv'
    /\ supervised.exit # "none" => supervised'.exit = supervised.exit
    /\ supervised.exit # "none" => loaded' = 0 \/ loaded' = loaded

\* A step of the loop that leaves the machine and how the command ended.
LEMMA LooksKeep ==
    ASSUME MachineInv, SupervisedInv, UNCHANGED hostVars,
           supervised' = [step |-> supervised'.step, child |-> supervised.child,
                          large |-> supervised'.large, exit |-> supervised.exit,
                          outcome |-> supervised'.outcome],
           supervised'.step # "idle",
           supervised'.outcome = "zero" => supervised.exit = "zero"
    PROVE  CommandKeeps
  <1>1. UNCHANGED <<processes, births, loaded>>
    BY DEF hostVars
  <1>2. MachineInv' /\ Moves
    BY <1>1, MachineStays
  <1>3. supervised'.child = supervised.child /\ supervised'.exit = supervised.exit
    OBVIOUS
  <1>4. ChildProcess' = ChildProcess
    BY <1>1, <1>3 DEF ChildProcess
  <1>5. SupervisedInv'
    BY <1>1, <1>3, <1>4 DEF SupervisedInv
  <1>6. QED
    BY <1>1, <1>2, <1>3, <1>5 DEF CommandKeeps

\* Every step of the loop keeps what it knows of the command.
LEMMA LoopKeeps ==
    ASSUME MachineInv, SupervisedInv, Loop
    PROVE  CommandKeeps
  <1>0. supervised = [step |-> supervised.step, child |-> supervised.child, large |-> supervised.large,
                      exit |-> supervised.exit, outcome |-> supervised.outcome]
    BY DEF SupervisedInv
  <1>1. CASE StartChild
    <2>1. /\ supervised.step = "idle" /\ Spawn("lms", 0, "attempt") /\ loaded' = loaded
          /\ supervised' = [supervised EXCEPT !.step = "measure", !.child = births']
      BY <1>1 DEF StartChild, SupervisedAt
    <2>2. MachineInv' /\ Moves
      BY <2>1, SpawnKeeps DEF ServiceRootNames
    <2>3. supervised' = [step |-> "measure", child |-> births', large |-> supervised.large,
                         exit |-> supervised.exit, outcome |-> supervised.outcome]
      BY <1>0, <2>1
    <2>4. supervised.exit = "none" /\ supervised.outcome = "none"
      BY <2>1 DEF SupervisedInv
    <2>5. SupervisedInv'
      BY <2>2, <2>3, <2>4 DEF SupervisedInv, MachineInv
    <2>6. QED
      BY <2>2, <2>4, <2>5 DEF CommandKeeps
  <1>2. CASE ChildDoesNotStart
    BY <1>0, <1>2, LooksKeep DEF ChildDoesNotStart
  <1>3. CASE Measure
    <2>1. /\ UNCHANGED hostVars
          /\ \/ supervised' = [supervised EXCEPT !.step = "stop", !.outcome = "output limit"]
             \/ supervised' = [supervised EXCEPT !.step = "poll"]
      BY <1>3 DEF Measure, GiveUpChild, Supervise
    <2>2. QED
      BY <1>0, <2>1, LooksKeep DEF SupervisedInv
  <1>4. CASE Poll
    <2>1. /\ UNCHANGED hostVars
          /\ \/ supervised' = [supervised EXCEPT !.step = "stop", !.outcome = "timeout"]
             \/ supervised' = [supervised EXCEPT !.step = "collect"]
             \/ supervised' = [supervised EXCEPT !.step = "monitor"]
      BY <1>4 DEF Poll, GiveUpChild, Supervise
    <2>2. QED
      BY <1>0, <2>1, LooksKeep DEF SupervisedInv
  <1>5. CASE Collect
    <2>1. /\ UNCHANGED hostVars
          /\ \/ supervised' = [supervised EXCEPT !.step = "stop", !.outcome = "output limit"]
             \/ supervised' = [supervised EXCEPT !.step = "stop", !.outcome = supervised.exit]
      BY <1>5 DEF Collect, GiveUpChild
    <2>2. QED
      BY <1>0, <2>1, LooksKeep DEF SupervisedInv
  <1>6. CASE StopChild
    <2>1. CASE /\ End(ChildProcess)
               /\ \E outcome \in {supervised.outcome, "not removed"} :
                     supervised' = [supervised EXCEPT !.step = "ended", !.large = FALSE,
                                      !.exit = IF ChildProcess = {} THEN @ ELSE "stopped",
                                      !.outcome = outcome]
      <3>1. MachineInv' /\ Moves /\ (loaded' = 0 \/ loaded' = loaded)
        BY <2>1, EndKeeps
      <3>2. /\ supervised'.step = "ended" /\ supervised'.child = supervised.child
            /\ supervised'.outcome = "zero" => supervised.outcome = "zero"
            /\ supervised'.exit = IF ChildProcess = {} THEN supervised.exit ELSE "stopped"
            /\ supervised' = [step |-> supervised'.step, child |-> supervised'.child,
                              large |-> supervised'.large, exit |-> supervised'.exit,
                              outcome |-> supervised'.outcome]
        BY <1>0, <2>1
      <3>3. ChildProcess' = {}
        BY <2>1, <3>2 DEF ChildProcess, End
      <3>4. supervised.child \in 0..births'
        BY <3>1 DEF SupervisedInv, MachineInv, Moves
      <3>5. SupervisedInv'
        BY <3>2, <3>3, <3>4 DEF SupervisedInv
      <3>6. QED
        BY <3>1, <3>2, <3>5 DEF CommandKeeps, SupervisedInv
    <2>2. CASE /\ \E outcome \in {"kill timeout", "not removed"} :
                     supervised' = [supervised EXCEPT !.step = "ended", !.outcome = outcome]
               /\ UNCHANGED <<processes, births, loaded>>
      <3>1. UNCHANGED hostVars
        BY <1>6, <2>2 DEF StopChild, hostVars
      <3>2. QED
        BY <1>0, <2>2, <3>1, LooksKeep
    <2>3. QED
      BY <1>6, <2>1, <2>2 DEF StopChild
  <1>7. QED
    BY <1>1, <1>2, <1>3, <1>4, <1>5, <1>6 DEF Loop

\* So does what the command itself does, as long as it runs.
LEMMA ChildKeeps ==
    ASSUME MachineInv, SupervisedInv, Child
    PROVE  CommandKeeps
  <1>0. /\ supervised = [step |-> supervised.step, child |-> supervised.child,
                         large |-> supervised.large,
                         exit |-> supervised.exit, outcome |-> supervised.outcome]
        /\ supervised.step # "idle" /\ supervised.exit = "none" /\ supervised.outcome # "zero"
    <2>1. ChildProcess # {}
      BY DEF Child, ChildLoads, ChildWrites, ChildExits
    <2>2. supervised.child # 0
      BY <2>1 DEF ChildProcess, MachineInv
    <2>3. QED
      BY <2>1, <2>2 DEF SupervisedInv
  <1>1. CASE ChildLoads
    <2>1. PICK s \in Services : Spawn("worker", s.pid, "attempt") /\ loaded' = s.born
      BY <1>1 DEF ChildLoads
    <2>2. MachineInv' /\ Moves
      BY <2>1, SpawnKeeps DEF ServiceRootNames
    <2>3. SupervisedInv'
      BY <1>1, <2>2, SupervisedStays DEF ChildLoads
    <2>4. QED
      BY <1>0, <2>2, <2>3 DEF CommandKeeps
  <1>2. CASE ChildWrites
    <2>1. UNCHANGED hostVars /\ supervised' = [supervised EXCEPT !.large = TRUE]
      BY <1>2 DEF ChildWrites
    <2>2. QED
      BY <1>0, <2>1, LooksKeep
  <1>3. ASSUME NEW code \in {"zero", "nonzero"}, ChildExits(code)
        PROVE  CommandKeeps
    <2>1. End(ChildProcess) /\ supervised' = [supervised EXCEPT !.exit = code]
      BY <1>3 DEF ChildExits
    <2>2. MachineInv' /\ Moves
      BY <2>1, EndKeeps
    <2>3. /\ supervised'.child = supervised.child /\ supervised'.exit = code
          /\ supervised'.step = supervised.step /\ supervised'.outcome = supervised.outcome
          /\ supervised' = [step |-> supervised'.step, child |-> supervised'.child,
                            large |-> supervised'.large, exit |-> supervised'.exit,
                            outcome |-> supervised'.outcome]
      BY <1>0, <2>1
    <2>4. ChildProcess' = {}
      BY <2>1, <2>3 DEF ChildProcess, End
    <2>5. supervised.child \in 0..births'
      BY <2>2 DEF SupervisedInv, MachineInv, Moves
    <2>6. SupervisedInv'
      BY <1>0, <2>3, <2>4, <2>5 DEF SupervisedInv
    <2>7. QED
      BY <1>0, <2>2, <2>6 DEF CommandKeeps
  <1>4. QED
    BY <1>1, <1>2, <1>3 DEF Child

-------------------------------------------------------------------------------
(* The attempt *)

EarlySteps == {"none", "baseline", "stage", "up", "capture", "standalone", "load"}

LastSteps == {"files", "result", "raised", "done"}

AttemptTypes ==
    attempt = [step |-> attempt.step, root |-> attempt.root, info |-> attempt.info,
               owned |-> attempt.owned, taken |-> attempt.taken, loadStarted |-> attempt.loadStarted,
               facts |-> attempt.facts, failed |-> attempt.failed, loadedIn |-> attempt.loadedIn,
               unloadedFrom |-> attempt.unloadedFrom, stoppedOthers |-> attempt.stoppedOthers]

\* A root that was captured is a service and stays the one it was.
RootKnown ==
    /\ attempt.step \in {"standalone", "load"} => attempt.root # NoServiceRoot
    /\ "load exit" \in attempt.facts => attempt.root # NoServiceRoot
    /\ attempt.root.born \in 0..births
    /\ attempt.root # NoServiceRoot =>
          attempt.root.born # 0 /\ \A p \in processes : p.born = attempt.root.born => p \in Services

\* Facts are learned in the order of the steps.
FactsInOrder ==
    /\ attempt.step \in EarlySteps => "load exit" \notin attempt.facts
    /\ attempt.step \in EarlySteps \cup {"inventory"} => "identity" \notin attempt.facts
    /\ attempt.step \in EarlySteps \cup {"inventory", "samples"} =>
          {"samples", "unloaded"} \cap attempt.facts = {}
    /\ attempt.step = "inventory" /\ ~attempt.failed => "load exit" \in attempt.facts
    /\ attempt.step = "samples" /\ ~attempt.failed => "identity" \in attempt.facts
    /\ "identity" \in attempt.facts => "load exit" \in attempt.facts
    /\ "samples" \in attempt.facts => "identity" \in attempt.facts

\* Where the model was: in the root, as soon as the root is seen alive after it.
ModelPlaced ==
    /\ "load exit" \in attempt.facts =>
          /\ supervised.exit = "zero" /\ (loaded = 0 \/ loaded = attempt.loadedIn)
          /\ RootAlive(attempt.root) => attempt.loadedIn \in {0, attempt.root.born}
    /\ "identity" \in attempt.facts => attempt.loadedIn # 0
    /\ "samples" \in attempt.facts => attempt.loadedIn = attempt.root.born
    /\ {"samples", "unloaded"} \subseteq attempt.facts => attempt.unloadedFrom = attempt.root.born

\* Nobody is forced to stop but by an attempt that has failed.
ForcedOnFailure ==
    /\ attempt.failed \in BOOLEAN
    /\ attempt.stoppedOthers => attempt.failed
    /\ attempt.step = "force" => attempt.failed

\* The last look found nothing, and since then nothing happens.
NothingLeft == "absent" \in attempt.facts => attempt.step \in LastSteps /\ Matching = {}

AttemptInv ==
    AttemptTypes /\ RootKnown /\ FactsInOrder /\ ModelPlaced /\ ForcedOnFailure /\ NothingLeft

\* A fresh attempt knows nothing.
LEMMA NewAttemptKnowsNothing ==
    ASSUME NEW step \in {"none", "baseline", "dead"}, attempt' = [NewAttempt EXCEPT !.step = step],
           births' \in Nat
    PROVE  AttemptInv'
  <1>1. attempt' = [step |-> step, root |-> NoServiceRoot, info |-> NoInfo, owned |-> {},
                    taken |-> 0, loadStarted |-> FALSE, facts |-> {}, failed |-> FALSE,
                    loadedIn |-> 0, unloadedFrom |-> 0, stoppedOthers |-> FALSE]
    BY DEF NewAttempt
  <1>2. NoServiceRoot.born = 0
    BY DEF NoServiceRoot
  <1>3. AttemptTypes'
    BY <1>1 DEF AttemptTypes
  <1>4. /\ attempt'.step = step /\ attempt'.root = NoServiceRoot /\ attempt'.facts = {}
        /\ attempt'.failed = FALSE /\ attempt'.stoppedOthers = FALSE
    BY <1>1
  <1>5. RootKnown'
    <2>1. attempt'.root.born \in 0..births' /\ attempt'.root = NoServiceRoot
      BY <1>2, <1>4
    <2>2. attempt'.step \notin {"standalone", "load"} /\ "load exit" \notin attempt'.facts
      BY <1>4
    <2>3. QED
      BY <2>1, <2>2 DEF RootKnown
  <1>6. FactsInOrder' /\ ModelPlaced' /\ ForcedOnFailure' /\ NothingLeft'
    BY <1>4 DEF FactsInOrder, ModelPlaced, ForcedOnFailure, NothingLeft
  <1>7. QED
    BY <1>3, <1>5, <1>6 DEF AttemptInv

\* What an attempt knows outlives what the machine does, until its last look.
LEMMA KnowledgeOutlivesTheMachine ==
    ASSUME MachineInv, CommandKeeps, AttemptInv, attempt'.root = attempt.root
    PROVE  /\ attempt.root.born \in 0..births'
           /\ attempt.root # NoServiceRoot =>
                 \A p \in processes' : p.born = attempt.root.born => p \in Services'
           /\ RootAlive(attempt.root)' => RootAlive(attempt.root)
           /\ "load exit" \in attempt.facts =>
                 supervised'.exit = "zero" /\ (loaded' = 0 \/ loaded' = attempt.loadedIn)
  <1>1. attempt.root.born \in 0..births /\ births \in Nat /\ births' \in Nat /\ births <= births'
    BY DEF AttemptInv, RootKnown, MachineInv, Moves, CommandKeeps
  <1>2. ASSUME attempt.root # NoServiceRoot, NEW p \in processes', p.born = attempt.root.born
        PROVE  p \in Services'
    <2>1. p \in processes
      BY <1>1, <1>2 DEF Moves, CommandKeeps
    <2>2. p \in Services
      BY <1>2, <2>1 DEF AttemptInv, RootKnown
    <2>3. QED
      BY <1>2, <2>2 DEF Services
  <1>3. RootAlive(attempt.root)' => RootAlive(attempt.root)
    <2>1. ASSUME RootAlive(attempt.root)'
          PROVE  RootAlive(attempt.root)
      <3>1. PICK p \in processes' : RootOf(p) = attempt.root
        BY <2>1 DEF RootAlive
      <3>2. p.born = attempt.root.born
        BY <3>1 DEF RootOf
      <3>3. p \in processes
        BY <1>1, <3>2 DEF Moves, CommandKeeps
      <3>4. QED
        BY <3>1, <3>3 DEF RootAlive
    <2>2. QED
      BY <2>1
  <1>4. "load exit" \in attempt.facts =>
           supervised'.exit = "zero" /\ (loaded' = 0 \/ loaded' = attempt.loadedIn)
    BY DEF AttemptInv, ModelPlaced, CommandKeeps
  <1>5. attempt.root # NoServiceRoot =>
           \A p \in processes' : p.born = attempt.root.born => p \in Services'
    BY <1>2
  <1>6. attempt.root.born \in 0..births'
    BY <1>1
  <1>7. QED
    BY <1>3, <1>4, <1>5, <1>6

\* The machine moves, and the attempt does not.
LEMMA AttemptStays ==
    ASSUME MachineInv, CommandKeeps, AttemptInv, UNCHANGED attempt,
           attempt.step \notin LastSteps \/ UNCHANGED processes
    PROVE  AttemptInv'
  <1>1. /\ attempt.root.born \in 0..births'
        /\ attempt.root # NoServiceRoot =>
              \A p \in processes' : p.born = attempt.root.born => p \in Services'
        /\ RootAlive(attempt.root)' => RootAlive(attempt.root)
        /\ "load exit" \in attempt.facts =>
              supervised'.exit = "zero" /\ (loaded' = 0 \/ loaded' = attempt.loadedIn)
    BY KnowledgeOutlivesTheMachine
  <1>2. RootKnown'
    BY <1>1 DEF AttemptInv, RootKnown
  <1>3. ModelPlaced'
    BY <1>1 DEF AttemptInv, ModelPlaced
  <1>4. NothingLeft'
    BY DEF AttemptInv, NothingLeft, Matching
  <1>5. AttemptTypes' /\ FactsInOrder' /\ ForcedOnFailure'
    BY DEF AttemptInv, AttemptTypes, FactsInOrder, ForcedOnFailure
  <1>6. QED
    BY <1>2, <1>3, <1>4, <1>5 DEF AttemptInv

\* A failure settles the verdict, and what is left to know is the root.
LEMMA FailureWhileOwning ==
    ASSUME MachineInv, CommandKeeps, AttemptInv,
           NEW step, step \notin {"standalone", "load"}, NEW owned,
           attempt' = [attempt EXCEPT !.owned = owned, !.step = step, !.failed = TRUE,
                         !.facts = {}, !.taken = 0]
    PROVE  AttemptInv'
  <1>1. /\ attempt' = [attempt' EXCEPT !.step = step]
        /\ attempt'.step = step /\ attempt'.facts = {} /\ attempt'.failed = TRUE
        /\ attempt'.root = attempt.root /\ attempt'.stoppedOthers = attempt.stoppedOthers
        /\ AttemptTypes'
    BY DEF AttemptInv, AttemptTypes
  <1>2. /\ attempt.root.born \in 0..births'
        /\ attempt.root # NoServiceRoot =>
              \A p \in processes' : p.born = attempt.root.born => p \in Services'
    <2>1. attempt.root.born \in 0..births /\ births \in Nat /\ births' \in Nat /\ births <= births'
      BY DEF AttemptInv, RootKnown, MachineInv, Moves, CommandKeeps
    <2>2. ASSUME attempt.root # NoServiceRoot, NEW p \in processes', p.born = attempt.root.born
          PROVE  p \in Services'
      <3>1. p \in processes
        BY <2>1, <2>2 DEF Moves, CommandKeeps
      <3>2. p \in Services
        BY <2>2, <3>1 DEF AttemptInv, RootKnown
      <3>3. QED
        BY <2>2, <3>2 DEF Services
    <2>3. QED
      BY <2>1, <2>2
  <1>3. RootKnown'
    BY <1>1, <1>2 DEF AttemptInv, RootKnown
  <1>4. QED
    BY <1>1, <1>3 DEF AttemptInv, FactsInOrder, ModelPlaced, ForcedOnFailure, NothingLeft

\* Most failures come with nothing more that is owned.
LEMMA FailureKeeps ==
    ASSUME MachineInv, CommandKeeps, AttemptInv,
           NEW step, step \notin {"standalone", "load"}, Fails(step)
    PROVE  AttemptInv'
  <1>1. attempt' = [attempt EXCEPT !.owned = attempt.owned, !.step = step, !.failed = TRUE,
                      !.facts = {}, !.taken = 0]
    BY DEF Fails, AttemptInv, AttemptTypes
  <1>2. QED
    BY <1>1, FailureWhileOwning

\* The machine does not move, or only as a control moves it.
LEMMA ControlKeeps ==
    ASSUME MachineInv, SupervisedInv, MachineInv', Moves, UNCHANGED supervised,
           loaded' = 0 \/ loaded' = loaded
    PROVE  CommandKeeps
  BY SupervisedStays DEF CommandKeeps

\* A machine that is left alone keeps everything.
LEMMA StillKeeps ==
    ASSUME MachineInv, SupervisedInv, UNCHANGED <<hostVars, supervised>>
    PROVE  CommandKeeps
  BY MachineStays, ControlKeeps DEF hostVars

\* A step that learns nothing about the model, or nothing at all.
LEMMA QuietKeeps ==
    ASSUME MachineInv, CommandKeeps, AttemptInv, AttemptTypes',
           attempt'.root = attempt.root, attempt'.failed = attempt.failed,
           attempt'.loadedIn = attempt.loadedIn, attempt'.unloadedFrom = attempt.unloadedFrom,
           attempt'.stoppedOthers = attempt.stoppedOthers,
           NEW fact \in {"staged", "up", "standalone", "empty", "down", "stopped", "files"},
           attempt'.facts = attempt.facts \/ attempt'.facts = Learns(fact),
           attempt'.step \in EarlySteps => attempt.step \in EarlySteps,
           attempt'.step \in {"standalone", "load"} => attempt.root # NoServiceRoot,
           attempt'.step = "samples" => attempt.step = "samples",
           attempt'.step \notin {"inventory", "force"},
           attempt.step \in LastSteps => attempt'.step \in LastSteps /\ UNCHANGED processes
    PROVE  AttemptInv'
  <1>1. /\ attempt.root.born \in 0..births'
        /\ attempt.root # NoServiceRoot =>
              \A p \in processes' : p.born = attempt.root.born => p \in Services'
        /\ RootAlive(attempt.root)' => RootAlive(attempt.root)
        /\ "load exit" \in attempt.facts =>
              supervised'.exit = "zero" /\ (loaded' = 0 \/ loaded' = attempt.loadedIn)
    BY KnowledgeOutlivesTheMachine
  <1>2. /\ \A f \in {"load exit", "identity", "samples", "unloaded", "absent"} :
              f \in attempt'.facts => f \in attempt.facts
        /\ attempt'.facts = {} \/ \A f \in attempt.facts : f \in attempt'.facts
        /\ attempt'.facts = {} /\ ~attempt.failed => attempt.facts = {}
    BY DEF Learns
  <1>3. RootKnown'
    BY <1>1, <1>2 DEF AttemptInv, RootKnown
  <1>4. FactsInOrder'
    BY <1>2 DEF AttemptInv, FactsInOrder
  <1>5. ModelPlaced'
    BY <1>1, <1>2 DEF AttemptInv, ModelPlaced
  <1>6. ForcedOnFailure'
    BY DEF AttemptInv, ForcedOnFailure
  <1>7. NothingLeft'
    <2>1. "absent" \in attempt'.facts => "absent" \in attempt.facts
      BY <1>2
    <2>2. QED
      BY <2>1 DEF AttemptInv, NothingLeft, Matching
  <1>8. QED
    BY <1>3, <1>4, <1>5, <1>6, <1>7 DEF AttemptInv

\* A gate that refuses and a cleanup that raises are failures.
LEMMA GateFailureKeeps ==
    ASSUME MachineInv, SupervisedInv, AttemptInv, GateFails \/ SampleFails \/ CleanupFails
    PROVE  CommandKeeps /\ AttemptInv'
  <1>1. CASE GateFails \/ CleanupFails
    BY <1>1, StillKeeps, FailureKeeps DEF GateFails, CleanupFails
  <1>2. CASE SampleFails
    <2> DEFINE owned == attempt.owned \cup Identities(ProcessTree(attempt.root) \cup ChildProcess)
    <2>1. attempt' = [attempt EXCEPT !.owned = owned, !.step = "cleanup", !.failed = TRUE,
                        !.facts = {}, !.taken = 0]
      BY <1>2 DEF SampleFails, Sampled, AttemptInv, AttemptTypes
    <2>2. CommandKeeps
      BY <1>2, StillKeeps DEF SampleFails
    <2> HIDE DEF owned
    <2>3. QED
      BY <2>1, <2>2, FailureWhileOwning
  <1>3. QED
    BY <1>1, <1>2

\* What only goes on, on a machine that stays as it is.
LEMMA QuietActionKeeps ==
    ASSUME MachineInv, SupervisedInv, AttemptInv,
           \/ Baseline \/ StageCli \/ RequireStandalone \/ BeginLoad \/ LookForRoot
           \/ RemainingModels \/ StatusBefore \/ PollStatus \/ FinalFiles
    PROVE  CommandKeeps /\ AttemptInv'
  <1>1. CommandKeeps /\ UNCHANGED processes
    BY StillKeeps DEF Baseline, StageCli, RequireStandalone, BeginLoad, LookForRoot, RemainingModels,
       StatusBefore, PollStatus, FinalFiles, hostVars
  <1>2. AttemptTypes
    BY DEF AttemptInv
  <1>3. CASE Baseline
    <2>1. At("baseline") /\ attempt' = [attempt EXCEPT !.step = "stage"]
      BY <1>3 DEF Baseline
    <2>2. QED
      BY <1>1, <1>2, <2>1, QuietKeeps DEF At, AttemptTypes, EarlySteps, LastSteps
  <1>4. CASE StageCli
    <2>1. At("stage") /\ attempt' = [attempt EXCEPT !.step = "up", !.facts = Learns("staged")]
      BY <1>4 DEF StageCli, GoesOn
    <2>2. QED
      BY <1>1, <1>2, <2>1, QuietKeeps DEF At, AttemptTypes, EarlySteps, LastSteps
  <1>5. CASE RequireStandalone
    <2>1. At("standalone") /\ attempt' = [attempt EXCEPT !.step = "load", !.facts = Learns("standalone")]
      BY <1>5 DEF RequireStandalone, GoesOn
    <2>2. attempt.root # NoServiceRoot
      BY <2>1 DEF At, AttemptInv, RootKnown
    <2>3. QED
      BY <1>1, <1>2, <2>1, <2>2, QuietKeeps DEF At, AttemptTypes, EarlySteps, LastSteps
  <1>6. CASE BeginLoad
    <2>1. At("load") /\ attempt' = [attempt EXCEPT !.loadStarted = TRUE]
      BY <1>6 DEF BeginLoad
    <2>2. attempt.root # NoServiceRoot
      BY <2>1 DEF At, AttemptInv, RootKnown
    <2>3. QED
      BY <1>1, <1>2, <2>1, <2>2, QuietKeeps DEF At, AttemptTypes, EarlySteps, LastSteps
  <1>7. CASE LookForRoot
    <2>1. PICK step \in {"final", "wait", "unload", "remaining"} :
             At("alive") /\ attempt' = [attempt EXCEPT !.step = step]
      BY <1>7 DEF LookForRoot
    <2>2. QED
      BY <1>1, <1>2, <2>1, QuietKeeps DEF At, AttemptTypes, EarlySteps, LastSteps
  <1>8. CASE RemainingModels
    <2>1. PICK step \in {"status", "wait"} :
             /\ At("remaining")
             /\ \/ attempt' = [attempt EXCEPT !.step = step, !.facts = Learns("empty")]
                \/ Fails(step)
      BY <1>8 DEF RemainingModels, GoesOn
    <2>2. CASE Fails(step)
      BY <1>1, <2>2, FailureKeeps
    <2>3. CASE attempt' = [attempt EXCEPT !.step = step, !.facts = Learns("empty")]
      BY <1>1, <1>2, <2>1, <2>3, QuietKeeps DEF At, AttemptTypes, EarlySteps, LastSteps
    <2>4. QED
      BY <2>1, <2>2, <2>3
  <1>9. CASE StatusBefore
    <2>1. CASE Fails("wait")
      BY <1>1, <2>1, FailureKeeps
    <2>2. CASE At("status") /\ attempt' = [attempt EXCEPT !.step = "down"]
      BY <1>1, <1>2, <2>2, QuietKeeps DEF At, AttemptTypes, EarlySteps, LastSteps
    <2>3. QED
      BY <1>9, <2>1, <2>2 DEF StatusBefore
  <1>10. CASE PollStatus
    <2>1. CASE Fails("wait")
      BY <1>1, <2>1, FailureKeeps
    <2>2. CASE At("poll") /\ attempt' = [attempt EXCEPT !.step = "wait", !.facts = Learns("stopped")]
      BY <1>1, <1>2, <2>2, QuietKeeps DEF At, AttemptTypes, EarlySteps, LastSteps
    <2>3. QED
      BY <1>10, <2>1, <2>2 DEF PollStatus, GoesOn
  <1>11. CASE FinalFiles
    <2>1. CASE Fails("result") \/ Fails("raised")
      BY <1>1, <2>1, FailureKeeps
    <2>2. CASE At("files") /\ attempt' = [attempt EXCEPT !.step = "result", !.facts = Learns("files")]
      BY <1>1, <1>2, <2>2, QuietKeeps DEF At, AttemptTypes, EarlySteps, LastSteps
    <2>3. QED
      BY <1>11, <2>1, <2>2 DEF FinalFiles, GoesOn
  <1>12. QED
    BY <1>1, <1>3, <1>4, <1>5, <1>6, <1>7, <1>8, <1>9, <1>10, <1>11

\* Commands that start or stop the daemon.
LEMMA DaemonUpKeeps ==
    ASSUME MachineInv, SupervisedInv, AttemptInv, DaemonUp
    PROVE  CommandKeeps /\ AttemptInv'
  <1>1. /\ At("up") /\ UNCHANGED <<loaded, supervised>>
        /\ ServiceIsUp \/ UNCHANGED <<processes, births>>
    BY DEF DaemonUp
  <1>2. CommandKeeps
    BY <1>1, ServiceUpKeeps, MachineStays, ControlKeeps
  <1>3. AttemptTypes
    BY DEF AttemptInv
  <1>4. CASE Fails("capture")
    BY <1>2, <1>4, FailureKeeps
  <1>5. ASSUME NEW info, attempt' = [attempt EXCEPT !.step = "capture", !.info = info,
                                       !.facts = Learns("up")]
        PROVE  AttemptInv'
    BY <1>1, <1>2, <1>3, <1>5, QuietKeeps DEF At, AttemptTypes, EarlySteps, LastSteps
  <1>6. QED
    BY <1>2, <1>4, <1>5 DEF DaemonUp

\* The daemon is asked to go, whatever it answers.
LEMMA DownCommandKeeps ==
    ASSUME MachineInv, SupervisedInv, AttemptInv, DownCommand
    PROVE  CommandKeeps /\ AttemptInv'
  <1>1. PICK reply \in Replies :
           /\ Down(reply)
           /\ CASE reply = "nonzero" -> Fails("poll")
                [] reply \in Raises -> Fails("wait")
                [] OTHER -> GoesOn("poll", "down")
    BY DEF DownCommand
  <1>2. At("down") /\ UNCHANGED supervised
    BY DEF DownCommand
  <1>3. CommandKeeps
    BY <1>1, <1>2, DownKeeps, ControlKeeps
  <1>4. AttemptTypes
    BY DEF AttemptInv
  <1>5. CASE Fails("poll") \/ Fails("wait")
    BY <1>3, <1>5, FailureKeeps
  <1>6. CASE attempt' = [attempt EXCEPT !.step = "poll", !.facts = Learns("down")]
    BY <1>2, <1>3, <1>4, <1>6, QuietKeeps DEF At, AttemptTypes, EarlySteps, LastSteps
  <1>7. Fails("poll") \/ Fails("wait") \/ GoesOn("poll", "down")
    BY <1>1 DEF Raises
  <1>8. QED
    BY <1>3, <1>5, <1>6, <1>7 DEF GoesOn

\* The load command and its monitor.
LEMMA LoadCommandKeeps ==
    ASSUME MachineInv, SupervisedInv, AttemptInv, RunLoop \/ MonitorLoad
    PROVE  CommandKeeps /\ AttemptInv'
  <1>1. attempt.step = "load" /\ attempt.root # NoServiceRoot
    BY DEF RunLoop, MonitorLoad, Loading, At, AttemptInv, RootKnown
  <1>2. CASE RunLoop
    <2>1. CommandKeeps /\ UNCHANGED attempt
      BY <1>2, LoopKeeps DEF RunLoop
    <2>2. QED
      BY <1>1, <2>1, AttemptStays DEF LastSteps
  <1>3. CASE MonitorLoad
    <2>1. CommandKeeps
      <3>1. UNCHANGED hostVars /\ (MonitorCalled(TRUE) \/ MonitorCalled(FALSE))
        BY <1>3 DEF MonitorLoad
      <3>2. supervised' = [supervised EXCEPT !.step = "measure"]
            \/ supervised' = [supervised EXCEPT !.step = "stop", !.outcome = "check failed"]
        BY <3>1 DEF MonitorCalled, Supervise, GiveUpChild
      <3>3. supervised = [step |-> supervised.step, child |-> supervised.child,
                          large |-> supervised.large, exit |-> supervised.exit,
                          outcome |-> supervised.outcome]
            /\ (supervised.outcome = "zero" => supervised.exit = "zero")
        BY DEF SupervisedInv
      <3>4. QED
        BY <3>1, <3>2, <3>3, LooksKeep
    <2>2. CASE UNCHANGED attempt
      BY <1>1, <2>1, <2>2, AttemptStays DEF LastSteps
    <2>3. ASSUME NEW owned, attempt' = [attempt EXCEPT !.owned = owned]
          PROVE  AttemptInv'
      BY <1>1, <2>1, <2>3, QuietKeeps DEF AttemptInv, AttemptTypes, EarlySteps, LastSteps
    <2>4. QED
      BY <1>3, <2>1, <2>2, <2>3 DEF MonitorLoad, Sampled
  <1>4. QED
    BY <1>2, <1>3

\* Who is taken for the root is a service that is alive.
LEMMA CandidateIsService ==
    ASSUME MachineInv, NEW pid, NEW p \in RootCandidates(pid)
    PROVE  /\ p \in Services /\ RootOf(p).born = p.born /\ p.born \in 1..births
           /\ RootOf(p) # NoServiceRoot
           /\ \A q \in processes : q.born = p.born => q \in Services
  <1>1. p \in Services /\ p \in processes
    BY DEF RootCandidates, Services, ServiceRootNames
  <1>2. RootOf(p).born = p.born /\ p.born \in 1..births
    BY <1>1 DEF RootOf, MachineInv
  <1>3. RootOf(p) # NoServiceRoot
    <2>1. NoServiceRoot.born = 0
      BY DEF NoServiceRoot
    <2>2. births \in Nat
      BY DEF MachineInv
    <2>3. QED
      BY <1>2, <2>1, <2>2
  <1>4. QED
    BY <1>1, <1>2, <1>3 DEF MachineInv

\* The root is captured before anything is known of the model.
LEMMA CaptureKeeps ==
    ASSUME MachineInv, SupervisedInv, AttemptInv, CaptureRoot
    PROVE  CommandKeeps /\ AttemptInv'
  <1>1. /\ attempt.step = "capture" /\ UNCHANGED <<hostVars, supervised>>
        /\ Cardinality(RootCandidates(attempt.info.pid)) = 1
    BY DEF CaptureRoot, At
  <1>2. CommandKeeps /\ UNCHANGED <<processes, births, loaded, supervised>>
    BY <1>1, StillKeeps DEF hostVars
  <1>3. PICK p \in RootCandidates(attempt.info.pid) :
           attempt' = [attempt EXCEPT !.root = RootOf(p),
                         !.owned = @ \cup Identities(ProcessTree(RootOf(p))),
                         !.step = IF attempt.failed THEN "cleanup" ELSE "standalone"]
    BY DEF CaptureRoot
  <1>4. /\ RootOf(p).born \in 0..births /\ RootOf(p).born # 0 /\ RootOf(p) # NoServiceRoot
        /\ \A q \in processes : q.born = RootOf(p).born => q \in Services
    <2>1. births \in Nat
      BY DEF MachineInv
    <2>2. QED
      BY <2>1, CandidateIsService
  <1> DEFINE r == RootOf(p)
  <1>5. /\ attempt'.root = r /\ attempt'.failed = attempt.failed
        /\ attempt'.step = (IF attempt.failed THEN "cleanup" ELSE "standalone")
        /\ attempt'.facts = attempt.facts /\ attempt'.stoppedOthers = attempt.stoppedOthers
        /\ AttemptTypes'
    BY <1>3 DEF AttemptInv, AttemptTypes
  <1> HIDE DEF r
  <1>6. {"load exit", "identity", "samples", "unloaded"} \cap attempt.facts = {}
    BY <1>1 DEF AttemptInv, FactsInOrder, EarlySteps
  <1>7. RootKnown'
    <2>1. Services' = Services
      BY <1>2 DEF Services
    <2>2. QED
      BY <1>2, <1>4, <1>5, <2>1 DEF RootKnown, r
  <1>8. FactsInOrder' /\ ModelPlaced'
    BY <1>5, <1>6 DEF FactsInOrder, ModelPlaced, EarlySteps
  <1>9. ForcedOnFailure' /\ NothingLeft'
    <2>1. "absent" \notin attempt.facts
      BY <1>1 DEF AttemptInv, NothingLeft, LastSteps
    <2>2. QED
      BY <1>5, <2>1 DEF AttemptInv, ForcedOnFailure, NothingLeft
  <1>10. QED
    BY <1>2, <1>5, <1>7, <1>8, <1>9 DEF AttemptInv

\* There is one service, so a living root is where the model is.
LEMMA ModelIsInTheRoot ==
    ASSUME MachineInv, AttemptInv, RootAlive(attempt.root)
    PROVE  attempt.root # NoServiceRoot /\ loaded \in {0, attempt.root.born}
  <1>1. PICK p \in processes : RootOf(p) = attempt.root
    BY DEF RootAlive
  <1>2. p.born = attempt.root.born /\ p.born \in 1..births
    BY <1>1 DEF RootOf, MachineInv
  <1>3. attempt.root # NoServiceRoot
    <2>1. NoServiceRoot.born = 0
      BY DEF NoServiceRoot
    <2>2. QED
      BY <1>2, <2>1 DEF MachineInv
  <1>4. p \in Services
    BY <1>1, <1>2, <1>3 DEF AttemptInv, RootKnown
  <1>5. QED
    BY <1>2, <1>3, <1>4 DEF MachineInv

\* The command has ended by itself, and the model is where it is.
LEMMA LoadReturnsKeeps ==
    ASSUME MachineInv, SupervisedInv, AttemptInv, LoadReturns
    PROVE  CommandKeeps /\ AttemptInv'
  <1>1. attempt.step = "load" /\ UNCHANGED <<hostVars, supervised>>
    BY DEF LoadReturns, Loading, At
  <1>2. CommandKeeps /\ UNCHANGED <<processes, births, loaded, supervised>>
    BY <1>1, StillKeeps DEF hostVars
  <1>3. AttemptTypes
    BY DEF AttemptInv
  <1>4. CASE supervised.outcome = "zero"
    <2>1. attempt' = [attempt EXCEPT !.step = "inventory", !.facts = Learns("load exit"),
                        !.loadedIn = loaded]
      BY <1>4 DEF LoadReturns
    <2>2. /\ attempt'.root = attempt.root /\ attempt'.failed = attempt.failed
          /\ attempt'.step = "inventory" /\ attempt'.loadedIn = loaded
          /\ attempt'.facts = Learns("load exit") /\ attempt'.stoppedOthers = attempt.stoppedOthers
          /\ AttemptTypes'
      BY <1>3, <2>1 DEF AttemptTypes
    <2>3. /\ {"identity", "samples", "unloaded", "absent"} \cap attempt.facts = {}
          /\ attempt.root # NoServiceRoot
      BY <1>1 DEF AttemptInv, FactsInOrder, RootKnown, NothingLeft, EarlySteps, LastSteps
    <2>4. /\ {"identity", "samples", "unloaded", "absent"} \cap attempt'.facts = {}
          /\ ~attempt.failed => "load exit" \in attempt'.facts
      BY <2>2, <2>3 DEF Learns
    <2>5. Services' = Services /\ (RootAlive(attempt.root)' <=> RootAlive(attempt.root))
      BY <1>2, <2>2 DEF Services, RootAlive
    <2>6. RootKnown'
      BY <1>2, <2>2, <2>3, <2>5 DEF AttemptInv, RootKnown
    <2>7. FactsInOrder'
      BY <2>2, <2>4 DEF FactsInOrder, EarlySteps
    <2>8. ModelPlaced'
      <3>1. supervised'.exit = "zero"
        BY <1>2, <1>4 DEF SupervisedInv
      <3>2. RootAlive(attempt.root)' => attempt'.loadedIn \in {0, attempt'.root.born}
        BY <2>2, <2>5, ModelIsInTheRoot
      <3>3. QED
        BY <1>2, <2>2, <2>4, <3>1, <3>2 DEF ModelPlaced
    <2>9. ForcedOnFailure' /\ NothingLeft'
      BY <2>2, <2>4 DEF AttemptInv, ForcedOnFailure, NothingLeft
    <2>10. QED
      BY <1>2, <2>2, <2>6, <2>7, <2>8, <2>9 DEF AttemptInv
  <1>5. CASE attempt' = [attempt EXCEPT !.step = "cleanup"]
    BY <1>1, <1>2, <1>3, <1>5, QuietKeeps DEF AttemptTypes, EarlySteps, LastSteps
  <1>6. CASE Fails("cleanup")
    BY <1>2, <1>6, FailureKeeps
  <1>7. QED
    BY <1>4, <1>5, <1>6 DEF LoadReturns

\* Learning one more fact about the model, on a machine that stays.
LEMMA LearningKeeps ==
    ASSUME MachineInv, CommandKeeps, AttemptInv, UNCHANGED <<processes, loaded>>, AttemptTypes',
           attempt'.root = attempt.root, attempt'.failed = attempt.failed,
           attempt'.loadedIn = attempt.loadedIn, attempt'.unloadedFrom = attempt.unloadedFrom,
           attempt'.stoppedOthers = attempt.stoppedOthers,
           NEW fact \in {"identity", "samples"}, attempt'.facts = Learns(fact),
           attempt.step = (IF fact = "identity" THEN "inventory" ELSE "samples"),
           attempt'.step = (IF fact = "identity" THEN "samples" ELSE "cleanup"),
           fact = "identity" => loaded # 0,
           fact = "samples" => RootAlive(attempt.root)
    PROVE  AttemptInv'
  <1>1. /\ attempt.root.born \in 0..births'
        /\ attempt.root # NoServiceRoot =>
              \A p \in processes' : p.born = attempt.root.born => p \in Services'
        /\ RootAlive(attempt.root)' => RootAlive(attempt.root)
        /\ "load exit" \in attempt.facts =>
              supervised'.exit = "zero" /\ (loaded' = 0 \/ loaded' = attempt.loadedIn)
    BY KnowledgeOutlivesTheMachine
  <1>2. CASE attempt.failed
    <2>1. attempt'.facts = {}
      BY <1>2 DEF Learns
    <2>2. RootKnown'
      BY <1>1, <2>1 DEF AttemptInv, RootKnown
    <2>3. QED
      BY <1>2, <2>1, <2>2 DEF AttemptInv, FactsInOrder, ModelPlaced, ForcedOnFailure, NothingLeft
  <1>3. CASE ~attempt.failed
    <2>1. attempt'.facts = attempt.facts \cup {fact}
      BY <1>3 DEF Learns
    <2>2. "load exit" \in attempt.facts /\ (fact = "samples" => "identity" \in attempt.facts)
      BY <1>3 DEF AttemptInv, FactsInOrder
    <2>3. {"unloaded", "absent"} \cap attempt.facts = {} /\ (fact = "identity" => "samples" \notin attempt.facts)
      BY DEF AttemptInv, FactsInOrder, NothingLeft, LastSteps
    <2>4. fact = "identity" => attempt.loadedIn # 0
      BY <2>2 DEF AttemptInv, ModelPlaced
    <2>5. fact = "samples" => attempt.loadedIn = attempt.root.born
      BY <2>2 DEF AttemptInv, ModelPlaced
    <2>6. RootKnown'
      BY <1>1, <2>2 DEF AttemptInv, RootKnown
    <2>7. FactsInOrder'
      BY <2>1, <2>2, <2>3 DEF AttemptInv, FactsInOrder, EarlySteps
    <2>8. ModelPlaced'
      BY <1>1, <2>1, <2>2, <2>3, <2>4, <2>5 DEF AttemptInv, ModelPlaced
    <2>9. ForcedOnFailure' /\ NothingLeft'
      BY <2>1, <2>3 DEF AttemptInv, ForcedOnFailure, NothingLeft
    <2>10. QED
      BY <2>6, <2>7, <2>8, <2>9 DEF AttemptInv
  <1>4. QED
    BY <1>2, <1>3

\* The inventory shows the model: it is somewhere.
LEMMA IdentityKeeps ==
    ASSUME MachineInv, SupervisedInv, AttemptInv, LoadedIdentity
    PROVE  CommandKeeps /\ AttemptInv'
  <1>1. /\ attempt.step = "inventory" /\ UNCHANGED <<hostVars, supervised>>
        /\ attempt' = [attempt EXCEPT !.step = "samples", !.facts = Learns("identity")]
    BY DEF LoadedIdentity, At, GoesOn
  <1>2. CommandKeeps /\ UNCHANGED <<processes, loaded>>
    BY <1>1, StillKeeps DEF hostVars
  <1>3. loaded # 0
    BY FS_EmptySet DEF LoadedIdentity, Models
  <1>4. QED
    BY <1>1, <1>2, <1>3, LearningKeeps DEF AttemptInv, AttemptTypes

\* The last sample after the load sees the root alive: it is there.
LEMMA SampleKeeps ==
    ASSUME MachineInv, SupervisedInv, AttemptInv, SampleAfterLoad
    PROVE  CommandKeeps /\ AttemptInv'
  <1>1. attempt.step = "samples" /\ UNCHANGED <<hostVars, supervised>> /\ RootAlive(attempt.root)
    BY DEF SampleAfterLoad, At
  <1>2. CommandKeeps /\ UNCHANGED <<processes, loaded>>
    BY <1>1, StillKeeps DEF hostVars
  <1>3. PICK owned, taken :
           \/ attempt' = [attempt EXCEPT !.owned = owned, !.taken = taken, !.step = "cleanup",
                            !.facts = Learns("samples")]
           \/ attempt' = [attempt EXCEPT !.owned = owned, !.taken = taken, !.step = "samples"]
    <2> DEFINE owned == attempt.owned \cup Identities(ProcessTree(attempt.root) \cup ChildProcess)
               taken == attempt.taken + 1
    <2>1. Sampled = [attempt EXCEPT !.owned = owned]
      BY DEF Sampled
    <2>2. CASE attempt.taken + 1 = Samples
      <3>1. attempt' = [Sampled EXCEPT !.taken = @ + 1, !.step = "cleanup", !.facts = Learns("samples")]
        BY <2>2 DEF SampleAfterLoad
      <3>2. attempt' = [attempt EXCEPT !.owned = owned, !.taken = taken, !.step = "cleanup",
                          !.facts = Learns("samples")]
        BY <2>1, <3>1 DEF AttemptInv, AttemptTypes
      <3>3. QED
        BY <3>2
    <2>3. CASE attempt.taken + 1 # Samples
      <3>1. attempt' = [Sampled EXCEPT !.taken = @ + 1, !.step = "samples", !.facts = @]
        BY <2>3 DEF SampleAfterLoad
      <3>2. attempt' = [attempt EXCEPT !.owned = owned, !.taken = taken, !.step = "samples"]
        BY <2>1, <3>1 DEF AttemptInv, AttemptTypes
      <3>3. QED
        BY <3>2
    <2>4. QED
      BY <2>2, <2>3
  <1>4. CASE attempt' = [attempt EXCEPT !.owned = owned, !.taken = taken, !.step = "cleanup",
                           !.facts = Learns("samples")]
    BY <1>1, <1>2, <1>4, LearningKeeps DEF AttemptInv, AttemptTypes
  <1>5. CASE attempt' = [attempt EXCEPT !.owned = owned, !.taken = taken, !.step = "samples"]
    BY <1>1, <1>2, <1>5, QuietKeeps DEF AttemptInv, AttemptTypes, EarlySteps, LastSteps
  <1>6. QED
    BY <1>2, <1>3, <1>4, <1>5

\* The cleanup: a root that is known stays, another one stands for nothing.
LEMMA FindRootKeeps ==
    ASSUME MachineInv, SupervisedInv, AttemptInv, FindRoot
    PROVE  CommandKeeps /\ AttemptInv'
  <1>1. attempt.step = "cleanup" /\ UNCHANGED <<hostVars, supervised>>
    BY DEF FindRoot, At
  <1>2. CommandKeeps /\ UNCHANGED <<processes, births, loaded, supervised>>
    BY <1>1, StillKeeps DEF hostVars
  <1>3. PICK found :
           /\ attempt' = [attempt EXCEPT !.step = "alive", !.root = found]
           /\ \/ found = attempt.root
              \/ attempt.root = NoServiceRoot /\ \E p \in RootCandidates(0) : found = RootOf(p)
    <2>1. CASE attempt.root = NoServiceRoot /\ Cardinality(RootCandidates(0)) = 1
      <3>1. \E p \in RootCandidates(0) : TRUE
        BY <2>1, FS_EmptySet
      <3> DEFINE found == RootOf(CHOOSE p \in RootCandidates(0) : TRUE)
      <3>2. \E p \in RootCandidates(0) : found = RootOf(p)
        BY <3>1
      <3>3. attempt' = [attempt EXCEPT !.step = "alive", !.root = found]
        BY <2>1 DEF FindRoot
      <3> HIDE DEF found
      <3>4. QED
        BY <2>1, <3>2, <3>3
    <2>2. CASE ~(attempt.root = NoServiceRoot /\ Cardinality(RootCandidates(0)) = 1)
      <3>1. attempt' = [attempt EXCEPT !.step = "alive", !.root = attempt.root]
        BY <2>2 DEF FindRoot
      <3>2. QED
        BY <3>1
    <2>3. QED
      BY <2>1, <2>2
  <1>4. CASE found = attempt.root
    <2>1. attempt' = [attempt EXCEPT !.step = "alive"]
      BY <1>3, <1>4 DEF AttemptInv, AttemptTypes
    <2>2. QED
      BY <1>1, <1>2, <2>1, QuietKeeps DEF AttemptInv, AttemptTypes, EarlySteps, LastSteps
  <1>5. CASE attempt.root = NoServiceRoot /\ \E p \in RootCandidates(0) : found = RootOf(p)
    <2>1. PICK p \in RootCandidates(0) : found = RootOf(p)
      BY <1>5
    <2>2. /\ found.born \in 0..births /\ found.born # 0 /\ found # NoServiceRoot
          /\ \A q \in processes : q.born = found.born => q \in Services
      <3>1. births \in Nat
        BY DEF MachineInv
      <3>2. QED
        BY <2>1, <3>1, CandidateIsService
    <2>3. /\ attempt'.root = found /\ attempt'.failed = attempt.failed /\ attempt'.step = "alive"
          /\ attempt'.facts = attempt.facts /\ attempt'.stoppedOthers = attempt.stoppedOthers
          /\ AttemptTypes'
      BY <1>3 DEF AttemptInv, AttemptTypes
    <2>4. {"load exit", "identity", "samples"} \cap attempt.facts = {}
      BY <1>5 DEF AttemptInv, RootKnown, FactsInOrder
    <2>5. "absent" \notin attempt.facts
      BY <1>1 DEF AttemptInv, NothingLeft, LastSteps
    <2>6. RootKnown'
      <3>1. Services' = Services
        BY <1>2 DEF Services
      <3>2. QED
        BY <1>2, <2>2, <2>3, <3>1 DEF RootKnown
    <2>7. FactsInOrder' /\ ModelPlaced'
      BY <2>3, <2>4 DEF FactsInOrder, ModelPlaced, EarlySteps
    <2>8. ForcedOnFailure' /\ NothingLeft'
      BY <2>3, <2>5 DEF AttemptInv, ForcedOnFailure, NothingLeft
    <2>9. QED
      BY <1>2, <2>3, <2>6, <2>7, <2>8 DEF AttemptInv
  <1>6. QED
    BY <1>2, <1>3, <1>4, <1>5

\* The model that is unloaded is the one that was loaded.
LEMMA UnloadModelKeeps ==
    ASSUME MachineInv, SupervisedInv, AttemptInv, UnloadModel
    PROVE  CommandKeeps /\ AttemptInv'
  <1>1. PICK reply \in Replies :
           /\ Unload(reply)
           /\ IF reply \in ExitsZero
              THEN attempt' = [attempt EXCEPT !.step = "remaining", !.facts = Learns("unloaded"),
                                 !.unloadedFrom = loaded]
              ELSE Fails("remaining")
    BY DEF UnloadModel
  <1>2. attempt.step = "unload" /\ UNCHANGED supervised
    BY DEF UnloadModel, At
  <1>3. CommandKeeps
    BY <1>1, <1>2, UnloadKeeps, ControlKeeps
  <1>4. CASE Fails("remaining")
    BY <1>3, <1>4, FailureKeeps
  <1>5. CASE reply \in ExitsZero
    <2>1. loaded # 0
      BY <1>1, <1>5 DEF Unload, ExitsZero
    <2>2. attempt' = [attempt EXCEPT !.step = "remaining", !.facts = Learns("unloaded"),
                        !.unloadedFrom = loaded]
      BY <1>1, <1>5
    <2>3. /\ attempt'.root = attempt.root /\ attempt'.failed = attempt.failed
          /\ attempt'.step = "remaining" /\ attempt'.loadedIn = attempt.loadedIn
          /\ attempt'.unloadedFrom = loaded
          /\ attempt'.facts = Learns("unloaded") /\ attempt'.stoppedOthers = attempt.stoppedOthers
          /\ AttemptTypes'
      BY <2>2 DEF AttemptInv, AttemptTypes
    <2>4. /\ attempt.root.born \in 0..births'
          /\ attempt.root # NoServiceRoot =>
                \A p \in processes' : p.born = attempt.root.born => p \in Services'
          /\ RootAlive(attempt.root)' => RootAlive(attempt.root)
          /\ "load exit" \in attempt.facts =>
                supervised'.exit = "zero" /\ (loaded' = 0 \/ loaded' = attempt.loadedIn)
      BY <1>3, <2>3, KnowledgeOutlivesTheMachine
    <2>5. "samples" \in attempt.facts => loaded = attempt.root.born
      BY <2>1 DEF AttemptInv, FactsInOrder, ModelPlaced
    <2>6. /\ \A f \in {"load exit", "identity", "samples"} : f \in attempt'.facts => f \in attempt.facts
          /\ attempt'.facts = {} \/ \A f \in attempt.facts : f \in attempt'.facts
          /\ "absent" \notin attempt'.facts
      <3>1. "absent" \notin attempt.facts
        BY <1>2 DEF AttemptInv, NothingLeft, LastSteps
      <3>2. attempt'.facts = {} \/ attempt'.facts = attempt.facts \cup {"unloaded"}
        BY <2>3 DEF Learns
      <3>3. QED
        BY <3>1, <3>2
    <2>7. RootKnown'
      BY <2>3, <2>4, <2>6 DEF AttemptInv, RootKnown
    <2>8. FactsInOrder'
      BY <2>3, <2>6 DEF AttemptInv, FactsInOrder, EarlySteps
    <2>9. ModelPlaced'
      BY <2>3, <2>4, <2>5, <2>6 DEF AttemptInv, ModelPlaced
    <2>10. ForcedOnFailure' /\ NothingLeft'
      BY <2>3, <2>6 DEF AttemptInv, ForcedOnFailure, NothingLeft
    <2>11. QED
      BY <1>3, <2>3, <2>7, <2>8, <2>9, <2>10 DEF AttemptInv
  <1>6. QED
    BY <1>1, <1>3, <1>4, <1>5

\* Who is forced to stop is stopped by an attempt that has failed.
LEMMA ForceKeeps ==
    ASSUME MachineInv, SupervisedInv, AttemptInv, WaitForRoot \/ ForceOwned
    PROVE  CommandKeeps /\ AttemptInv'
  <1>1. CASE WaitForRoot
    <2>1. attempt.step = "wait" /\ CommandKeeps
      BY <1>1, StillKeeps DEF WaitForRoot, At
    <2>2. CASE attempt' = [attempt EXCEPT !.step = "final"]
      BY <2>1, <2>2, QuietKeeps DEF AttemptInv, AttemptTypes, EarlySteps, LastSteps
    <2>3. CASE attempt' = [attempt EXCEPT !.step = "force", !.failed = TRUE]
      <3>1. /\ attempt'.root = attempt.root /\ attempt'.failed = TRUE
            /\ attempt'.step = "force" /\ attempt'.loadedIn = attempt.loadedIn
            /\ attempt'.unloadedFrom = attempt.unloadedFrom
            /\ attempt'.facts = attempt.facts /\ AttemptTypes'
        BY <2>3 DEF AttemptInv, AttemptTypes
      <3>2. /\ attempt.root.born \in 0..births'
            /\ attempt.root # NoServiceRoot =>
                  \A p \in processes' : p.born = attempt.root.born => p \in Services'
            /\ RootAlive(attempt.root)' => RootAlive(attempt.root)
            /\ "load exit" \in attempt.facts =>
                  supervised'.exit = "zero" /\ (loaded' = 0 \/ loaded' = attempt.loadedIn)
        BY <2>1, <3>1, KnowledgeOutlivesTheMachine
      <3>3. "absent" \notin attempt.facts
        BY <2>1 DEF AttemptInv, NothingLeft, LastSteps
      <3>4. RootKnown' /\ FactsInOrder' /\ ForcedOnFailure' /\ NothingLeft'
        BY <3>1, <3>2, <3>3 DEF AttemptInv, RootKnown, FactsInOrder, ForcedOnFailure, NothingLeft,
           EarlySteps
      <3>5. ModelPlaced'
        BY <3>1, <3>2 DEF AttemptInv, ModelPlaced
      <3>6. QED
        BY <2>1, <3>1, <3>4, <3>5 DEF AttemptInv
    <2>4. QED
      BY <1>1, <2>1, <2>2, <2>3 DEF WaitForRoot
  <1>2. CASE ForceOwned
    <2>1. /\ attempt.step = "force" /\ attempt.failed /\ UNCHANGED supervised
          /\ \E ps : End(ps)
      BY <1>2 DEF ForceOwned, At, ForceStop, AttemptInv, ForcedOnFailure
    <2>2. CommandKeeps
      BY <2>1, EndKeeps, ControlKeeps
    <2>3. PICK owned, others :
             attempt' = [attempt EXCEPT !.step = "final", !.owned = owned, !.stoppedOthers = others]
      BY <1>2 DEF ForceOwned
    <2>4. /\ attempt'.root = attempt.root /\ attempt'.failed = attempt.failed
          /\ attempt'.step = "final" /\ attempt'.loadedIn = attempt.loadedIn
          /\ attempt'.unloadedFrom = attempt.unloadedFrom
          /\ attempt'.facts = attempt.facts /\ AttemptTypes'
      BY <2>3 DEF AttemptInv, AttemptTypes
    <2>5. /\ attempt.root.born \in 0..births'
          /\ attempt.root # NoServiceRoot =>
                \A p \in processes' : p.born = attempt.root.born => p \in Services'
          /\ RootAlive(attempt.root)' => RootAlive(attempt.root)
          /\ "load exit" \in attempt.facts =>
                supervised'.exit = "zero" /\ (loaded' = 0 \/ loaded' = attempt.loadedIn)
      BY <2>2, <2>4, KnowledgeOutlivesTheMachine
    <2>6. "absent" \notin attempt.facts
      BY <2>1 DEF AttemptInv, NothingLeft, LastSteps
    <2>7. RootKnown' /\ FactsInOrder' /\ ForcedOnFailure' /\ NothingLeft'
      BY <2>1, <2>4, <2>5, <2>6 DEF AttemptInv, RootKnown, FactsInOrder, ForcedOnFailure,
         NothingLeft, EarlySteps
    <2>8. ModelPlaced'
      BY <2>4, <2>5 DEF AttemptInv, ModelPlaced
    <2>9. QED
      BY <2>2, <2>4, <2>7, <2>8 DEF AttemptInv
  <1>3. QED
    BY <1>1, <1>2

\* The last look.
LEMMA FinalSnapshotKeeps ==
    ASSUME MachineInv, SupervisedInv, AttemptInv, FinalSnapshot
    PROVE  CommandKeeps /\ AttemptInv'
  <1>1. attempt.step = "final" /\ UNCHANGED <<hostVars, supervised>>
    BY DEF FinalSnapshot, At
  <1>2. CommandKeeps /\ UNCHANGED <<processes, births, loaded, supervised>>
    BY <1>1, StillKeeps DEF hostVars
  <1>3. CASE Fails("files")
    BY <1>2, <1>3, FailureKeeps
  <1>4. CASE Matching = {} /\ GoesOn("files", "absent")
    <2>1. /\ attempt'.root = attempt.root /\ attempt'.failed = attempt.failed
          /\ attempt'.step = "files" /\ attempt'.loadedIn = attempt.loadedIn
          /\ attempt'.unloadedFrom = attempt.unloadedFrom
          /\ attempt'.stoppedOthers = attempt.stoppedOthers
          /\ attempt'.facts = Learns("absent") /\ AttemptTypes'
      BY <1>4 DEF GoesOn, AttemptInv, AttemptTypes
    <2>2. /\ attempt.root.born \in 0..births'
          /\ attempt.root # NoServiceRoot =>
                \A p \in processes' : p.born = attempt.root.born => p \in Services'
          /\ RootAlive(attempt.root)' => RootAlive(attempt.root)
          /\ "load exit" \in attempt.facts =>
                supervised'.exit = "zero" /\ (loaded' = 0 \/ loaded' = attempt.loadedIn)
      BY <1>2, <2>1, KnowledgeOutlivesTheMachine
    <2>3. /\ \A f \in {"load exit", "identity", "samples", "unloaded"} :
                f \in attempt'.facts => f \in attempt.facts
          /\ attempt'.facts = {} \/ \A f \in attempt.facts : f \in attempt'.facts
      BY <2>1 DEF Learns
    <2>4. RootKnown' /\ FactsInOrder' /\ ForcedOnFailure'
      BY <2>1, <2>2, <2>3 DEF AttemptInv, RootKnown, FactsInOrder, ForcedOnFailure, EarlySteps
    <2>5. ModelPlaced'
      BY <2>1, <2>2, <2>3 DEF AttemptInv, ModelPlaced
    <2>6. NothingLeft'
      BY <1>2, <1>4, <2>1 DEF NothingLeft, Matching, LastSteps
    <2>7. QED
      BY <1>2, <2>1, <2>4, <2>5, <2>6 DEF AttemptInv
  <1>5. QED
    BY <1>2, <1>3, <1>4 DEF FinalSnapshot

\* Every step of an attempt keeps what it knows.
LEMMA AttemptKeeps ==
    ASSUME MachineInv, SupervisedInv, AttemptInv, Attempt
    PROVE  CommandKeeps /\ AttemptInv'
  BY GateFailureKeeps, QuietActionKeeps, DaemonUpKeeps, DownCommandKeeps, LoadCommandKeeps,
     CaptureKeeps, LoadReturnsKeeps, IdentityKeeps, SampleKeeps, FindRootKeeps, UnloadModelKeeps,
     ForceKeeps, FinalSnapshotKeeps DEF Attempt

-------------------------------------------------------------------------------
(* The result *)

\* The result is the last thing that happens.
ResultInv ==
    disk.result # "none" =>
        /\ attempt.step = "done" /\ disk.by \in Invokers /\ invoker[disk.by] = "ended"
        /\ disk.result = "accepted" => Accepted

LoadInv == MachineInv /\ SupervisedInv /\ ClaimInv /\ AttemptInv /\ ResultInv

\* Nothing is known before the first attempt.
LEMMA LoadStarts == HostInit /\ LoadHealthInit => LoadInv
  <1> SUFFICES ASSUME HostInit, LoadHealthInit PROVE LoadInv
    OBVIOUS
  <1>1. MachineInv /\ ClaimInv
    BY MachineStarts, ClaimStarts
  <1>2. SupervisedInv
    <2>1. supervised = [step |-> "idle", child |-> 0, large |-> FALSE, exit |-> "none", outcome |-> "none"]
      BY DEF LoadHealthInit, MonitorInit, Supervision0
    <2>2. births \in Nat
      BY <1>1 DEF MachineInv
    <2>3. QED
      BY <2>1, <2>2 DEF SupervisedInv
  <1>3. AttemptInv
    <2>1. attempt = [step |-> "none", root |-> NoServiceRoot, info |-> NoInfo, owned |-> {},
                     taken |-> 0, loadStarted |-> FALSE, facts |-> {}, failed |-> FALSE,
                     loadedIn |-> 0, unloadedFrom |-> 0, stoppedOthers |-> FALSE]
      BY DEF LoadHealthInit, NewAttempt
    <2>2. NoServiceRoot.born = 0 /\ births \in Nat
      BY <1>1 DEF NoServiceRoot, MachineInv
    <2>3. AttemptTypes
      BY <2>1 DEF AttemptTypes
    <2>4. /\ attempt.step = "none" /\ attempt.root = NoServiceRoot /\ attempt.facts = {}
          /\ attempt.failed = FALSE /\ attempt.stoppedOthers = FALSE
      BY <2>1
    <2>5. RootKnown
      <3>1. attempt.root.born \in 0..births /\ attempt.root = NoServiceRoot
        BY <2>2, <2>4
      <3>2. QED
        BY <2>4, <3>1 DEF RootKnown
    <2>6. FactsInOrder /\ ModelPlaced /\ ForcedOnFailure /\ NothingLeft
      BY <2>4 DEF FactsInOrder, ModelPlaced, ForcedOnFailure, NothingLeft
    <2>7. QED
      BY <2>3, <2>5, <2>6 DEF AttemptInv
  <1>4. ResultInv
    BY DEF LoadHealthInit, ResultInv
  <1>5. QED
    BY <1>1, <1>2, <1>3, <1>4 DEF LoadInv

\* Every step of an attempt is one of a phase, and none is after the result.
LEMMA AttemptIsNotDone ==
    ASSUME Attempt
    PROVE  attempt.step # "done"
  BY DEF Attempt, GateFails, Gates, Baseline, StageCli, DaemonUp, CaptureRoot, RequireStandalone,
         BeginLoad, RunLoop, MonitorLoad, Loading, LoadReturns, LoadedIdentity, SampleAfterLoad,
         SampleFails, FindRoot, LookForRoot, UnloadModel, RemainingModels, StatusBefore, DownCommand,
         PollStatus, WaitForRoot, ForceOwned, CleanupFails, FinalSnapshot, FinalFiles, At

\* What is known stays on a machine that is left alone.
LEMMA MachineIsLeft ==
    ASSUME MachineInv, SupervisedInv, AttemptInv, UNCHANGED <<hostVars, supervised, attempt>>
    PROVE  MachineInv' /\ SupervisedInv' /\ AttemptInv'
  <1>1. CommandKeeps /\ UNCHANGED processes
    BY StillKeeps DEF hostVars
  <1>2. AttemptInv'
    BY <1>1, AttemptStays
  <1>3. QED
    BY <1>1, <1>2 DEF CommandKeeps

\* Who claims leaves the machine, and may begin an attempt or end one.
LEMMA ClaimingKeeps ==
    ASSUME LoadInv, NEW i \in Invokers, Claiming(i), ClaimInv'
    PROVE  LoadInv'
  <1>1. UNCHANGED <<hostVars, supervised>>
    BY DEF Claiming, CheckClaim, MakeCache, WriteClaim, BeginAttempt, Crash
  <1>2. CommandKeeps /\ births' \in Nat
    BY <1>1, StillKeeps DEF LoadInv, CommandKeeps, MachineInv
  <1>3. AttemptInv'
    <2>1. CASE UNCHANGED attempt
      BY <1>1, <2>1, MachineIsLeft DEF LoadInv
    <2>2. CASE \E step \in {"baseline", "dead"} : attempt' = [NewAttempt EXCEPT !.step = step]
      BY <1>2, <2>2, NewAttemptKnowsNothing
    <2>3. QED
      BY <2>1, <2>2 DEF Claiming, CheckClaim, MakeCache, WriteClaim, BeginAttempt, Crash
  <1>4. ResultInv'
    <2>1. disk'.result = disk.result
      BY DEF Claiming, CheckClaim, MakeCache, WriteClaim, BeginAttempt, Crash, LoadInv, ClaimInv, Disks
    <2>2. CASE disk.result = "none"
      BY <2>1, <2>2 DEF ResultInv
    <2>3. CASE disk.result # "none"
      <3>1. /\ attempt.step = "done" /\ disk.by \in Invokers /\ invoker[disk.by] = "ended"
            /\ disk.result = "accepted" => Accepted
        BY <2>3 DEF LoadInv, ResultInv
      <3>2. disk.claim = "whole"
        BY <3>1 DEF LoadInv, ClaimInv
      <3>3. invoker[i] \notin {"claimed", "attempt", "ended"} \/ i = disk.by
        BY DEF LoadInv, ClaimInv
      <3>4. invoker[i] \notin {"claimed", "attempt", "ended"}
        BY <3>1, <3>3 DEF Claiming, CheckClaim, MakeCache, WriteClaim, BeginAttempt, Crash
      <3>5. UNCHANGED attempt
        BY <3>4 DEF Claiming, CheckClaim, MakeCache, WriteClaim, BeginAttempt, Crash
      <3>6. disk'.by = disk.by
        BY <3>2 DEF Claiming, CheckClaim, MakeCache, WriteClaim, BeginAttempt, Crash, LoadInv, ClaimInv,
               Disks
      <3>7. i # disk.by /\ invoker \in [Invokers -> {"check", "cache", "claim", "claimed", "attempt", "ended"}]
        BY <3>1, <3>4 DEF LoadInv, ClaimInv
      <3>8. \E step : invoker' = [invoker EXCEPT ![i] = step]
        BY DEF Claiming, CheckClaim, MakeCache, WriteClaim, BeginAttempt, Crash, InvokerGoesTo
      <3>9. invoker'[disk.by] = "ended"
        BY <3>1, <3>7, <3>8
      <3>10. Accepted' <=> Accepted
        BY <3>5 DEF Accepted
      <3>11. QED
        BY <2>1, <3>1, <3>5, <3>6, <3>9, <3>10 DEF ResultInv
    <2>4. QED
      BY <2>2, <2>3
  <1>5. QED
    BY <1>2, <1>3, <1>4 DEF LoadInv, CommandKeeps

\* The result is what the attempt knows, and the attempt is over.
LEMMA WriteResultKeeps ==
    ASSUME LoadInv, NEW i \in Invokers, WriteResult(i), ClaimInv'
    PROVE  LoadInv'
  <1>1. /\ UNCHANGED <<hostVars, supervised>> /\ attempt' = [attempt EXCEPT !.step = "done"]
        /\ invoker[i] = "attempt" /\ invoker' = [invoker EXCEPT ![i] = "ended"]
        /\ attempt.step \in {"result", "raised"}
        /\ disk' = disk \/ disk' = [disk EXCEPT !.result = IF Accepted THEN "accepted" ELSE "rejected"]
    BY DEF WriteResult, At, InvokerGoesTo
  <1>2. CommandKeeps /\ UNCHANGED processes
    BY <1>1, StillKeeps DEF LoadInv, hostVars
  <1>3. AttemptInv'
    BY <1>1, <1>2, QuietKeeps DEF LoadInv, AttemptInv, AttemptTypes, EarlySteps, LastSteps
  <1>4. disk.by = i /\ disk.result = "none"
    BY <1>1 DEF LoadInv, ClaimInv, ResultInv
  <1>5. invoker'[i] = "ended"
    BY <1>1 DEF LoadInv, ClaimInv
  <1>6. /\ attempt'.step = "done" /\ attempt'.facts = attempt.facts
        /\ attempt'.failed = attempt.failed
    BY <1>1 DEF LoadInv, AttemptInv, AttemptTypes
  <1>7. Accepted' <=> Accepted
    BY <1>6 DEF Accepted
  <1>8. disk'.by = i /\ (disk'.result = "accepted" => Accepted)
    BY <1>1, <1>4 DEF LoadInv, ClaimInv, Disks
  <1>9. ResultInv'
    BY <1>5, <1>6, <1>7, <1>8 DEF ResultInv
  <1>10. QED
    BY <1>2, <1>3, <1>9 DEF LoadInv, CommandKeeps

\* Each step of the load, of its command and of the user keeps all of it.
LEMMA LoadKept ==
    ASSUME LoadInv, HostNext
    PROVE  LoadInv'
  <1>1. ClaimInv'
    BY ClaimKept DEF LoadInv
  <1>2. ASSUME NEW i \in Invokers, Claiming(i) \/ WriteResult(i)
        PROVE  LoadInv'
    BY <1>1, <1>2, ClaimingKeeps, WriteResultKeeps
  <1>3. CASE Attempt
    <2>1. CommandKeeps /\ AttemptInv'
      BY <1>3, AttemptKeeps DEF LoadInv
    <2>2. disk.result = "none"
      BY <1>3, AttemptIsNotDone DEF LoadInv, ResultInv
    <2>3. disk' = disk \/ \E b \in BOOLEAN : disk' = [disk EXCEPT !.cli = b]
      BY <1>3, AttemptLeavesClaims
    <2>4. disk'.result = "none"
      BY <2>2, <2>3 DEF LoadInv, ClaimInv, Disks
    <2>5. QED
      BY <1>1, <2>1, <2>4 DEF LoadInv, CommandKeeps, ResultInv
  <1>4. ASSUME UnderWay, UNCHANGED <<invoker, disk, attempt>>, CommandKeeps
        PROVE  LoadInv'
    <2>1. attempt.step \notin LastSteps
      BY <1>4 DEF UnderWay, LastSteps
    <2>2. AttemptInv'
      BY <1>4, <2>1, AttemptStays DEF LoadInv
    <2>3. ResultInv'
      BY <1>4, <2>1 DEF LoadInv, ResultInv, LastSteps
    <2>4. QED
      BY <1>1, <1>4, <2>2, <2>3 DEF LoadInv, CommandKeeps
  <1>5. CASE UnderWay /\ Child /\ UNCHANGED <<invoker, disk, attempt>>
    BY <1>4, <1>5, ChildKeeps DEF LoadInv
  <1>6. CASE UnderWay /\ User /\ UNCHANGED loadHealthVars
    <2>1. CommandKeeps
      BY <1>6, UserKeeps, ControlKeeps DEF LoadInv, loadHealthVars
    <2>2. QED
      BY <1>4, <1>6, <2>1 DEF loadHealthVars
  <1>7. QED
    BY <1>2, <1>3, <1>5, <1>6 DEF HostNext, LoadHealthNext

\* A captured root that was alive after the load is where the model was, and is
\* gone when nothing is left.
LEMMA OneLifeByInvariant == LoadInv => AcceptedIsOneLife
  <1> SUFFICES ASSUME LoadInv, disk.result = "accepted"
               PROVE  /\ attempt.root # NoServiceRoot /\ ~RootAlive(attempt.root)
                      /\ attempt.loadedIn = attempt.root.born
                      /\ attempt.unloadedFrom = attempt.root.born
                      /\ supervised.exit = "zero" /\ ChildProcess = {}
                      /\ ~attempt.stoppedOthers
    BY DEF AcceptedIsOneLife
  <1>1. Accepted
    BY DEF LoadInv, ResultInv
  <1>2. ~attempt.failed /\ {"load exit", "samples", "unloaded", "absent"} \subseteq attempt.facts
    BY <1>1 DEF Accepted
  <1>3. attempt.root # NoServiceRoot /\ Matching = {}
    BY <1>2 DEF LoadInv, AttemptInv, RootKnown, NothingLeft
  <1>4. ~RootAlive(attempt.root)
    <2>1. ASSUME NEW p \in processes, RootOf(p) = attempt.root
          PROVE  FALSE
      <3>1. p.born = attempt.root.born
        BY <2>1 DEF RootOf
      <3>2. p \in Services
        BY <1>3, <3>1 DEF LoadInv, AttemptInv, RootKnown
      <3>3. QED
        BY <1>3, <3>2 DEF Services, Matching, ServiceRootNames, RuntimeNames
    <2>2. QED
      BY <2>1 DEF RootAlive
  <1>5. attempt.loadedIn = attempt.root.born /\ attempt.unloadedFrom = attempt.root.born
    BY <1>2 DEF LoadInv, AttemptInv, ModelPlaced
  <1>6. supervised.exit = "zero" /\ ChildProcess = {}
    BY <1>2 DEF LoadInv, AttemptInv, ModelPlaced, SupervisedInv
  <1>7. ~attempt.stoppedOthers
    BY <1>2 DEF LoadInv, AttemptInv, ForcedOnFailure
  <1>8. QED
    BY <1>3, <1>4, <1>5, <1>6, <1>7

-------------------------------------------------------------------------------
(* The probe *)

\* What stopped somebody's process has found some, and is not accepted.
ProbeInv ==
    /\ probe = [step |-> probe.step, failed |-> probe.failed, forced |-> probe.forced,
                helped |-> probe.helped, result |-> probe.result, stoppedOthers |-> probe.stoppedOthers]
    /\ probe.result = "accepted" => probe.step = "ended" /\ probe.helped /\ ~probe.forced
    /\ probe.stoppedOthers => probe.forced

\* At first the probe has stopped nothing.
LEMMA ProbeStarts == ProbeInit => ProbeInv
  BY DEF ProbeInit, ProbeInv

\* Each step of the probe keeps it.
LEMMA ProbeKept ==
    ASSUME ProbeInv, ProbeNext
    PROVE  ProbeInv'
  <1>1. CASE ProbeBaseline
    BY <1>1 DEF ProbeBaseline, ProbeInv, ProbeAt, ProbeGoesOn, ProbeFails
  <1>2. CASE ProbeHelp
    <2>1. \/ probe' = [probe EXCEPT !.step = "clear", !.helped = TRUE]
          \/ probe' = [probe EXCEPT !.step = "clear", !.failed = TRUE]
      BY <1>2 DEF ProbeHelp, ProbeFails
    <2>2. probe.step = "help"
      BY <1>2 DEF ProbeHelp, ProbeAt
    <2>3. QED
      BY <2>1, <2>2 DEF ProbeInv
  <1>3. CASE ProbeRaises
    BY <1>3 DEF ProbeRaises, ProbeInv, ProbeAt, ProbeGoesOn
  <1>4. CASE ProbeClears
    <2>1. PICK stopped \in SUBSET processes, success \in BOOLEAN :
             /\ TerminateTrees(ProbeMatching, stopped, success)
             /\ probe' = [probe EXCEPT !.step = "look", !.forced = ProbeMatching # {},
                            !.failed = @ \/ ~success,
                            !.stoppedOthers = \E p \in stopped : p.by = "user"]
      BY <1>4 DEF ProbeClears
    <2>2. ProbeMatching = {} => stopped = {}
      BY <2>1 DEF TerminateTrees
    <2> DEFINE others == \E p \in stopped : p.by = "user"
               forced == ProbeMatching # {}
               failed == probe.failed \/ ~success
    <2>3. others => forced
      BY <2>2
    <2>4. probe' = [probe EXCEPT !.step = "look", !.forced = forced, !.failed = failed,
                      !.stoppedOthers = others]
      BY <2>1
    <2> HIDE DEF others, forced, failed
    <2>5. /\ probe' = [step |-> "look", failed |-> failed, forced |-> forced,
                       helped |-> probe.helped, result |-> probe.result, stoppedOthers |-> others]
          /\ probe.result # "accepted"
      BY <1>4, <2>4 DEF ProbeInv, ProbeClears, ProbeAt
    <2>6. QED
      BY <2>3, <2>5 DEF ProbeInv
  <1>5. CASE ProbeLooksAgain
    BY <1>5 DEF ProbeLooksAgain, ProbeInv, ProbeAt, ProbeGoesOn, ProbeFails
  <1>6. CASE ProbeWritesResult
    <2> DEFINE result == IF ~probe.failed /\ probe.helped /\ ~probe.forced THEN "accepted" ELSE "rejected"
    <2>1. probe' = [probe EXCEPT !.step = "ended", !.result = result]
      BY <1>6 DEF ProbeWritesResult
    <2>2. result = "accepted" => probe.helped /\ ~probe.forced
      OBVIOUS
    <2> HIDE DEF result
    <2>3. QED
      BY <2>1, <2>2 DEF ProbeInv
  <1>7. QED
    BY <1>1, <1>2, <1>3, <1>4, <1>5, <1>6 DEF ProbeNext

\* Forced is not accepted.
LEMMA AloneByInvariant == ProbeInv => ProbeAcceptedAlone
  BY DEF ProbeInv, ProbeAcceptedAlone

-------------------------------------------------------------------------------
(* The schedule is spent once *)

PocSteps == {"idle", "ready", "writing start", "cell", "row", "writing row", "all", "writing all",
             "ended"}

PocRows == {Row(n, status, kept) :
               n \in Nat, status \in {"completed", "infrastructure_failure"}, kept \in BOOLEAN}

PocOutputs == [status : {"absent", "broken", "incomplete", "complete"}, rows : Seq(PocRows)]

PocTypes ==
    /\ pocRun \in [Launches -> PocSteps]
    /\ rows \in [Launches -> Seq(PocRows)]
    /\ calls \in [Launches -> SUBSET Nat]
    /\ seen \in [Launches -> SUBSET Launches]
    /\ output \in PocOutputs

\* Once a model may have been called there is a file, and it does not go away;
\* so whoever finds none can be told of no call.
FileBeforeCalls ==
    \A i \in Launches :
        /\ calls[i] # {} \/ pocRun[i] \notin {"idle", "ready", "ended"} => output # NoOutput
        /\ seen[i] = {}

\* How many rows an invocation has where it is.
RowsCounted ==
    \A i \in Launches :
        /\ pocRun[i] \in {"idle", "ready", "writing start"} => Len(rows[i]) = 0
        /\ pocRun[i] = "cell" => Len(rows[i]) < Cells
        /\ pocRun[i] \in {"row", "writing row"} => Len(rows[i]) <= Cells
        /\ pocRun[i] \in {"all", "writing all"} => Len(rows[i]) = Cells

RowsKept ==
    \A i \in Launches : \A n \in DOMAIN rows[i] :
        /\ rows[i][n].cell = Scheduled(n)
        /\ rows[i][n].record => <<i, n>> \in records

\* What the file shows was what some invocation had when it wrote.
FileShows ==
    /\ output.status = "complete" => Len(output.rows) = Cells
    /\ \E i \in Launches :
          /\ Len(output.rows) <= Len(rows[i])
          /\ \A n \in DOMAIN output.rows : output.rows[n] = rows[i][n]

PocInv == PocTypes /\ FileBeforeCalls /\ RowsCounted /\ RowsKept /\ FileShows

\* There is a cell at least.
LEMMA CellsCounted == Cells \in Nat /\ Cells > 0
  <1>1. Len(Tasks) \in Nat /\ Len(Tasks) > 0
    BY MinimumPocAssumption
  <1>2. QED
    BY <1>1 DEF Cells

\* A row is of its cell.
LEMMA RowTyped ==
    ASSUME NEW n \in Nat, NEW status \in {"completed", "infrastructure_failure"}, NEW kept \in BOOLEAN
    PROVE  /\ Row(n, status, kept) \in PocRows
           /\ Row(n, status, kept).cell = Scheduled(n) /\ Row(n, status, kept).record = kept
  BY DEF Row, PocRows

\* At first there is no file and nobody has called.
LEMMA ScheduleStarts == PocInit => PocInv
  <1> SUFFICES ASSUME PocInit PROVE PocInv
    OBVIOUS
  <1>1. NoOutput = [status |-> "absent", rows |-> <<>>]
    BY DEF NoOutput, Output
  <1>2. PocTypes
    BY <1>1 DEF PocInit, PocTypes, PocSteps, PocOutputs
  <1>3. FileBeforeCalls /\ RowsKept
    BY DEF PocInit, FileBeforeCalls, RowsKept
  <1>4. RowsCounted
    BY CellsCounted DEF PocInit, RowsCounted
  <1>5. FileShows
    BY <1>1, MinimumPocAssumption DEF PocInit, FileShows
  <1>6. QED
    BY <1>2, <1>3, <1>4, <1>5 DEF PocInv

\* No file that is there is the absent one.
LEMMA FilesDiffer ==
    ASSUME NEW s \in STRING, s # "absent", NEW content
    PROVE  [status |-> s, rows |-> content] # NoOutput
  <1>1. [status |-> s, rows |-> content].status = s /\ NoOutput.status = "absent"
    BY DEF NoOutput, Output
  <1>2. QED
    BY <1>1

\* A file that is cut short shows no row.
LEMMA BrokenFile ==
    /\ Broken # NoOutput /\ Broken \in PocOutputs
    /\ Broken.rows = <<>> /\ Broken.status = "broken"
  <1>1. Broken = [status |-> "broken", rows |-> <<>>]
    BY DEF Broken, Output
  <1>2. <<>> \in Seq(PocRows)
    OBVIOUS
  <1>3. Broken \in PocOutputs
    BY <1>1, <1>2 DEF PocOutputs
  <1>4. Broken # NoOutput
    <2>1. Broken.status = "broken" /\ NoOutput.status = "absent"
      BY DEF Broken, NoOutput, Output
    <2>2. QED
      BY <2>1
  <1>5. QED
    BY <1>1, <1>3, <1>4

\* What a file says that was written or broken off.
LEMMA FileWritten ==
    ASSUME NEW status \in {"incomplete", "complete"}, NEW i \in Launches,
           rows \in [Launches -> Seq(PocRows)], Holds(i, Output(status, rows[i]))
    PROVE  /\ output' \in PocOutputs /\ output' # NoOutput
           /\ output' = Broken \/ (output'.status = status /\ output'.rows = rows[i])
           /\ Broken.rows = <<>> /\ Broken.status = "broken"
  <1>1. /\ Output(status, rows[i]) \in PocOutputs /\ Output(status, rows[i]) # NoOutput
        /\ Output(status, rows[i]).status = status /\ Output(status, rows[i]).rows = rows[i]
    <2>1. rows[i] \in Seq(PocRows)
      OBVIOUS
    <2>2. QED
      BY <2>1, FilesDiffer DEF Output, NoOutput, PocOutputs
  <1>2. output' = Output(status, rows[i]) \/ output' = Broken
    BY DEF Holds
  <1>3. QED
    BY <1>1, <1>2, BrokenFile

\* A step that leaves calls, rows and file alone.
LEMMA OnlyGoes ==
    ASSUME PocInv, NEW i \in Launches, NEW step \in PocSteps, PocGoes(i, step),
           UNCHANGED <<rows, calls, seen, records, output>>,
           \/ step = "ended"
           \/ step = "ready" /\ PocAt(i, "idle")
    PROVE  PocInv'
  <1>1. PocTypes'
    BY DEF PocInv, PocTypes, PocGoes
  <1>2. \A j \in Launches : pocRun'[j] = IF j = i THEN step ELSE pocRun[j]
    BY DEF PocInv, PocTypes, PocGoes
  <1>3. FileBeforeCalls'
    BY <1>2 DEF PocInv, FileBeforeCalls
  <1>4. RowsCounted'
    BY <1>2 DEF PocInv, RowsCounted, PocAt
  <1>5. RowsKept' /\ FileShows'
    BY DEF PocInv, RowsKept, FileShows
  <1>6. QED
    BY <1>1, <1>3, <1>4, <1>5 DEF PocInv

\* Who looks for the file calls nothing.
LEMMA LooksKeeps ==
    ASSUME PocInv, NEW i \in Launches, Looks(i)
    PROVE  PocInv'
  <1>1. {j \in Launches : calls[j] # {}} = {}
    BY DEF PocInv, FileBeforeCalls, Looks
  <1>2. seen' = seen
    BY <1>1 DEF Looks, PocInv, PocTypes, FileBeforeCalls
  <1>3. QED
    BY <1>2, OnlyGoes DEF Looks, PocSteps

\* Who opens it has called nothing yet.
LEMMA OpensKeeps ==
    ASSUME PocInv, NEW i \in Launches, Opens(i)
    PROVE  PocInv'
  <1>1. PICK step \in PocSteps :
           /\ PocGoes(i, step)
           /\ \/ PocAt(i, "ready") /\ step = "writing start"
              \/ PocAt(i, "row") /\ step = "writing row"
              \/ PocAt(i, "all") /\ step = "writing all"
    BY DEF Opens, PocSteps
  <1>2. /\ output' = Broken /\ Broken # NoOutput /\ Broken \in PocOutputs
        /\ Broken.rows = <<>> /\ Broken.status = "broken"
        /\ UNCHANGED <<rows, calls, seen, records>>
    BY BrokenFile DEF Opens
  <1>3. PocTypes' /\ \A j \in Launches : pocRun'[j] = IF j = i THEN step ELSE pocRun[j]
    BY <1>1, <1>2 DEF PocInv, PocTypes, PocGoes
  <1>4. FileBeforeCalls'
    BY <1>2 DEF PocInv, FileBeforeCalls
  <1>5. RowsCounted'
    BY <1>1, <1>2, <1>3 DEF PocInv, RowsCounted, PocAt
  <1>6. RowsKept'
    BY <1>2 DEF PocInv, RowsKept
  <1>7. FileShows'
    <2>1. Len(rows'[i]) \in Nat
      BY <1>2 DEF PocInv, PocTypes
    <2>2. QED
      BY <1>2, <2>1 DEF FileShows
  <1>8. QED
    BY <1>3, <1>4, <1>5, <1>6, <1>7 DEF PocInv

\* Who writes it shows the rows he has.
LEMMA WritesKeeps ==
    ASSUME PocInv, NEW i \in Launches, Writes(i)
    PROVE  PocInv'
  <1>1. PICK step \in PocSteps, status \in {"incomplete", "complete"} :
           /\ PocGoes(i, step) /\ Holds(i, Output(status, rows[i]))
           /\ \/ PocAt(i, "writing start") /\ step = "cell" /\ status = "incomplete"
              \/ PocAt(i, "writing row") /\ Cell(i) <= Cells /\ step = "cell" /\ status = "incomplete"
              \/ PocAt(i, "writing row") /\ Cell(i) > Cells /\ step = "all" /\ status = "incomplete"
              \/ PocAt(i, "writing all") /\ step = "ended"
    BY DEF Writes, PocSteps
  <1>2. UNCHANGED <<rows, calls, seen, records>>
    BY DEF Writes
  <1>3. /\ output' \in PocOutputs /\ output' # NoOutput
        /\ output' = Broken \/ (output'.status = status /\ output'.rows = rows[i])
        /\ Broken.rows = <<>> /\ Broken.status = "broken"
    BY <1>1, FileWritten DEF PocInv, PocTypes
  <1>4. PocTypes' /\ \A j \in Launches : pocRun'[j] = IF j = i THEN step ELSE pocRun[j]
    BY <1>1, <1>2, <1>3 DEF PocInv, PocTypes, PocGoes
  <1>5. FileBeforeCalls'
    BY <1>2, <1>3 DEF PocInv, FileBeforeCalls
  <1>6. Len(rows[i]) \in Nat
    BY DEF PocInv, PocTypes
  <1>7. RowsCounted'
    <2>1. /\ step = "cell" => Len(rows[i]) < Cells
          /\ step = "all" => Len(rows[i]) = Cells
      <3>1. /\ PocAt(i, "writing start") => Len(rows[i]) = 0
            /\ PocAt(i, "writing row") => Len(rows[i]) <= Cells
        BY DEF PocInv, RowsCounted, PocAt
      <3>2. Cell(i) = Len(rows[i]) + 1
        BY DEF Cell
      <3>3. CASE step = "cell"
        <4>1. Len(rows[i]) = 0 \/ Len(rows[i]) + 1 <= Cells
          BY <1>1, <3>1, <3>2, <3>3
        <4>2. QED
          BY <1>6, <3>3, <4>1, CellsCounted
      <3>4. CASE step = "all"
        <4>1. Len(rows[i]) <= Cells /\ Len(rows[i]) + 1 > Cells
          BY <1>1, <3>1, <3>2, <3>4
        <4>2. QED
          BY <1>6, <3>4, <4>1, CellsCounted
      <3>5. QED
        BY <3>3, <3>4
    <2>2. step \in {"cell", "all", "ended"}
      BY <1>1
    <2>3. QED
      BY <1>2, <1>4, <2>1, <2>2 DEF PocInv, RowsCounted
  <1>8. RowsKept'
    BY <1>2 DEF PocInv, RowsKept
  <1>9. FileShows'
    <2>1. status = "complete" => Len(rows[i]) = Cells
      BY <1>1 DEF PocInv, RowsCounted, PocAt
    <2>2. QED
      BY <1>2, <1>3, <1>6, <2>1 DEF FileShows
  <1>10. QED
    BY <1>4, <1>5, <1>7, <1>8, <1>9 DEF PocInv

\* Who calls has a file there.
LEMMA CallsKeeps ==
    ASSUME PocInv, NEW i \in Launches, Calls(i)
    PROVE  PocInv'
  <1>1. PocTypes'
    BY DEF PocInv, PocTypes, Calls, Cell
  <1>2. FileBeforeCalls'
    BY DEF PocInv, PocTypes, FileBeforeCalls, Calls, PocAt
  <1>3. RowsCounted' /\ RowsKept' /\ FileShows'
    BY DEF PocInv, RowsCounted, RowsKept, FileShows, Calls
  <1>4. QED
    BY <1>1, <1>2, <1>3 DEF PocInv

\* A row that names its digest comes with the record.
LEMMA RowKeeps ==
    ASSUME PocInv, NEW i \in Launches, NEW status \in {"completed", "infrastructure_failure"},
           NEW kept \in BOOLEAN,
           PocAt(i, "cell"), Appended(i, Row(Cell(i), status, kept)),
           records \subseteq records', kept => <<i, Cell(i)>> \in records',
           UNCHANGED <<calls, seen, output>>
    PROVE  PocInv'
  <1> DEFINE row == Row(Cell(i), status, kept)
  <1>1. Len(rows[i]) \in Nat /\ Len(rows[i]) < Cells /\ rows[i] \in Seq(PocRows)
    <2>1. rows[i] \in Seq(PocRows)
      BY DEF PocInv, PocTypes
    <2>2. Len(rows[i]) < Cells
      BY DEF PocInv, RowsCounted, PocAt
    <2>3. QED
      BY <2>1, <2>2
  <1>2. Cell(i) = Len(rows[i]) + 1 /\ Cell(i) \in Nat
    BY <1>1 DEF Cell
  <1>3. row \in PocRows /\ row.cell = Scheduled(Cell(i)) /\ row.record = kept
    BY <1>2, RowTyped
  <1>4. rows' = [rows EXCEPT ![i] = Append(@, row)] /\ PocGoes(i, "row")
    BY DEF Appended
  <1> HIDE DEF row
  <1>5. rows' \in [Launches -> Seq(PocRows)]
    BY <1>1, <1>3, <1>4 DEF PocInv, PocTypes
  <1>6. \A j \in Launches : j # i => rows'[j] = rows[j]
    BY <1>4 DEF PocInv, PocTypes
  <1>7. /\ rows'[i] = Append(rows[i], row) /\ Len(rows'[i]) = Len(rows[i]) + 1
        /\ \A n \in 1..Len(rows[i]) : rows'[i][n] = rows[i][n]
        /\ rows'[i][Len(rows[i]) + 1] = row
    <2>1. rows'[i] = Append(rows[i], row)
      BY <1>4 DEF PocInv, PocTypes
    <2>2. QED
      BY <1>1, <1>3, <2>1
  <1>8. PocTypes' /\ \A j \in Launches : pocRun'[j] = IF j = i THEN "row" ELSE pocRun[j]
    BY <1>4, <1>5 DEF PocInv, PocTypes, PocGoes, PocSteps
  <1>9. FileBeforeCalls'
    BY <1>8 DEF PocInv, FileBeforeCalls, PocAt
  <1>10. RowsCounted'
    <2>1. Len(rows'[i]) <= Cells /\ pocRun'[i] = "row"
      BY <1>1, <1>7, <1>8, CellsCounted
    <2>2. \A j \in Launches : j # i => rows'[j] = rows[j] /\ pocRun'[j] = pocRun[j]
      BY <1>6, <1>8
    <2>3. QED
      BY <2>1, <2>2 DEF PocInv, RowsCounted
  <1>11. RowsKept'
    <2> SUFFICES ASSUME NEW j \in Launches, NEW n \in DOMAIN rows'[j]
                 PROVE  rows'[j][n].cell = Scheduled(n) /\ (rows'[j][n].record => <<j, n>> \in records')
      BY DEF RowsKept
    <2>1. CASE j # i
      BY <1>6, <2>1 DEF PocInv, RowsKept
    <2>2. CASE j = i
      <3>1. n \in 1..Len(rows[i]) \/ n = Cell(i)
        BY <1>1, <1>2, <1>5, <1>7, <2>2
      <3>2. CASE n \in 1..Len(rows[i])
        <4>1. n \in DOMAIN rows[i]
          BY <1>1, <3>2
        <4>2. rows[i][n].cell = Scheduled(n) /\ (rows[i][n].record => <<i, n>> \in records)
          BY <4>1 DEF PocInv, RowsKept
        <4>3. QED
          BY <1>7, <2>2, <3>2, <4>2
      <3>3. CASE n = Cell(i)
        BY <1>2, <1>3, <1>7, <2>2, <3>3
      <3>4. QED
        BY <3>1, <3>2, <3>3
    <2>3. QED
      BY <2>1, <2>2
  <1>12. FileShows'
    <2>1. PICK j \in Launches : /\ Len(output.rows) <= Len(rows[j])
                                /\ \A n \in DOMAIN output.rows : output.rows[n] = rows[j][n]
      BY DEF PocInv, FileShows
    <2>2. output.rows \in Seq(PocRows) /\ Len(output.rows) \in Nat /\ Len(rows[j]) \in Nat
      BY DEF PocInv, PocTypes, PocOutputs
    <2>3. Len(output.rows) <= Len(rows'[j]) /\ \A n \in DOMAIN output.rows : rows'[j][n] = rows[j][n]
      <3>1. \A n \in DOMAIN output.rows : n \in 1..Len(rows[j])
        BY <2>1, <2>2
      <3>2. CASE j = i
        BY <1>7, <2>1, <2>2, <3>1, <3>2
      <3>3. CASE j # i
        BY <1>6, <2>1, <3>3
      <3>4. QED
        BY <3>2, <3>3
    <2>4. output'.status = "complete" => Len(output'.rows) = Cells
      BY DEF PocInv, FileShows
    <2>5. QED
      BY <2>1, <2>3, <2>4 DEF FileShows
  <1>13. QED
    BY <1>8, <1>9, <1>10, <1>11, <1>12 DEF PocInv

\* Each step of each invocation keeps the schedule.
LEMMA ScheduleKept ==
    ASSUME PocInv, PocNext
    PROVE  PocInv'
  <1>1. PICK i \in Launches :
           \/ Blocked(i) \/ Looks(i) \/ Opens(i) \/ Writes(i) \/ Calls(i)
           \/ \E status \in {"completed", "infrastructure_failure"} : EndsRecorded(i, status)
           \/ EndsUnrecorded(i) \/ Dies(i)
    BY DEF PocNext
  <1>2. CASE Blocked(i) \/ Dies(i)
    BY <1>2, OnlyGoes DEF Blocked, Dies, PocSteps
  <1>3. CASE Looks(i)
    BY <1>3, LooksKeeps
  <1>4. CASE Opens(i)
    BY <1>4, OpensKeeps
  <1>5. CASE Writes(i)
    BY <1>5, WritesKeeps
  <1>6. CASE Calls(i)
    BY <1>6, CallsKeeps
  <1>7. ASSUME NEW status \in {"completed", "infrastructure_failure"}, EndsRecorded(i, status)
        PROVE  PocInv'
    <2>1. /\ PocAt(i, "cell") /\ Appended(i, Row(Cell(i), status, TRUE))
          /\ records' = records \cup {<<i, Cell(i)>>} /\ UNCHANGED <<calls, seen, output>>
      BY <1>7 DEF EndsRecorded, Stores
    <2>2. QED
      BY <2>1, RowKeeps
  <1>8. CASE EndsUnrecorded(i)
    <2>1. /\ PocAt(i, "cell") /\ Appended(i, Row(Cell(i), "infrastructure_failure", FALSE))
          /\ records' = records /\ UNCHANGED <<calls, seen, output>>
      BY <1>8 DEF EndsUnrecorded
    <2>2. QED
      BY <2>1, RowKeeps
  <1>9. QED
    BY <1>1, <1>2, <1>3, <1>4, <1>5, <1>6, <1>7, <1>8

\* A file that is there stops the next invocation.
LEMMA SpentOnceByInvariant == PocInv => ScheduleIsSpentOnce
  <1> SUFFICES ASSUME PocInv PROVE ScheduleIsSpentOnce
    OBVIOUS
  <1>1. PICK i \in Launches : /\ Len(output.rows) <= Len(rows[i])
                              /\ \A n \in DOMAIN output.rows : output.rows[n] = rows[i][n]
    BY DEF PocInv, FileShows
  <1>2. output.rows \in Seq(PocRows) /\ rows[i] \in Seq(PocRows)
    BY DEF PocInv, PocTypes, PocOutputs
  <1>3. \A n \in DOMAIN output.rows : n \in DOMAIN rows[i]
    BY <1>1, <1>2
  <1>4. \A n \in DOMAIN output.rows :
           /\ output.rows[n] = rows[i][n] /\ output.rows[n].cell = Scheduled(n)
           /\ output.rows[n].record => <<i, n>> \in records
    BY <1>1, <1>3 DEF PocInv, RowsKept
  <1>5. QED
    BY <1>1, <1>4 DEF PocInv, FileBeforeCalls, FileShows, ScheduleIsSpentOnce

-------------------------------------------------------------------------------
(* The proxy and what it has in hand *)

HandlerSteps == {"absent", "open", "checks", "upstream", "answer", "written", "refusing", "closed"}

ProxyInv ==
    /\ serving \in BOOLEAN /\ handler \in [Connections -> HandlerSteps]
    /\ accepted \in Nat

\* At first nothing was asked of the proxy.
LEMMA ProxyStarts == ProxyInit => ProxyInv
  <1>1. \A c \in Connections : "absent" \in HandlerSteps
    BY DEF HandlerSteps
  <1>2. QED
    BY <1>1, 0 \in Nat DEF ProxyInit, ProxyInv

\* A thread that moves comes into hand, leaves it or stays where it was.
LEMMA Moved ==
    ASSUME ProxyInv, NEW c \in Connections, NEW from, NEW to \in HandlerSteps, Handles(c, from, to)
    PROVE  /\ handler' \in [Connections -> HandlerSteps]
           /\ from \in {"upstream", "answer", "written"} \/ to \notin {"upstream", "answer", "written"}
                 => InHand' \subseteq InHand
           /\ from \in {"upstream", "answer", "written"} /\ to \notin {"upstream", "answer", "written"}
                 => c \in InHand /\ InHand' = InHand \ {c}
  <1>1. handler' \in [Connections -> HandlerSteps]
    BY DEF Handles, ProxyInv
  <1>2. \A d \in Connections : handler'[d] = IF d = c THEN to ELSE handler[d]
    BY DEF Handles, ProxyInv
  <1>3. handler[c] = from
    BY DEF Handles
  <1>4. QED
    BY <1>1, <1>2, <1>3 DEF InHand

\* What the threads have in hand is counted as accepted when it leaves the
\* hand, and nothing comes into it but by a request that is forwarded.
LEMMA ProxyKept ==
    ASSUME ProxyInv, NEW c \in Connections, NEW listening \in BOOLEAN, Handler(c, listening)
    PROVE  /\ ProxyInv' /\ serving' = serving
           /\ listening \/ /\ InHand' \subseteq InHand /\ accepted' = accepted
                        \/ /\ accepted' = accepted + 1
                           /\ c \in InHand /\ InHand' = InHand \ {c}
  <1>1. CASE RecordAccepted(c)
    <2>1. PICK to \in {"open", "closed"} : Handles(c, "written", to)
      BY <1>1 DEF RecordAccepted, RequestEnds
    <2>2. to \in HandlerSteps /\ to \notin {"upstream", "answer", "written"}
      BY DEF HandlerSteps
    <2>3. handler' \in [Connections -> HandlerSteps] /\ c \in InHand /\ InHand' = InHand \ {c}
      BY <2>1, <2>2, Moved
    <2>4. QED
      BY <1>1, <2>3 DEF RecordAccepted, ProxyInv
  <1>2. CASE Forward(c, listening)
    <2>1. "upstream" \in HandlerSteps
      BY DEF HandlerSteps
    <2>2. handler' \in [Connections -> HandlerSteps]
      BY <1>2, <2>1, Moved DEF Forward
    <2>3. QED
      BY <1>2, <2>2 DEF Forward, CountsNothing, ProxyInv
  <1>3. CASE Handler(c, listening) /\ ~RecordAccepted(c) /\ ~Forward(c, listening)
    <2>1. \E from \in HandlerSteps, to \in HandlerSteps :
             /\ Handles(c, from, to)
             /\ from \in {"upstream", "answer", "written"} \/ to \notin {"upstream", "answer", "written"}
      BY <1>3
         DEF Handler, HandlerSteps, RequestEnds, Connects, RequestComes, HangsUp, Deny, BodyLost,
             UpstreamFails, UpstreamAnswers, AnswerTooLarge, Refused, AnswerLost, AnswerWritten
    <2>2. handler' \in [Connections -> HandlerSteps] /\ InHand' \subseteq InHand
      BY <2>1, Moved
    <2>3. accepted' = accepted /\ serving' = serving
      BY <1>3
         DEF Handler, CountsNothing, RecordDenied, Connects, RequestComes, HangsUp, Deny, BodyLost,
             UpstreamFails, UpstreamAnswers, AnswerTooLarge, Refused, AnswerLost, AnswerWritten
    <2>4. QED
      BY <2>2, <2>3 DEF ProxyInv
  <1>4. QED
    BY <1>1, <1>2, <1>3

\* So, with nobody upstream, accepted and in hand together never grow.
LEMMA NoMoreIsAccepted ==
    ASSUME ProxyInv, NEW c \in Connections, Handler(c, FALSE)
    PROVE  accepted' + Cardinality(InHand') <= accepted + Cardinality(InHand)
  <1>1. IsFiniteSet(InHand) /\ Cardinality(InHand) \in Nat /\ accepted \in Nat
    <2>1. InHand \subseteq Connections
      BY DEF InHand
    <2>2. QED
      BY <2>1, ProxyAssumption, FS_Subset, FS_CardinalityType DEF ProxyInv
  <1>2. CASE InHand' \subseteq InHand /\ accepted' = accepted
    <2>1. Cardinality(InHand') <= Cardinality(InHand) /\ Cardinality(InHand') \in Nat
      BY <1>1, <1>2, FS_Subset, FS_CardinalityType
    <2>2. QED
      BY <1>1, <1>2, <2>1
  <1>3. CASE accepted' = accepted + 1 /\ c \in InHand /\ InHand' = InHand \ {c}
    <2>1. Cardinality(InHand') = Cardinality(InHand) - 1
      BY <1>1, <1>3, FS_RemoveElement
    <2>2. QED
      BY <1>1, <1>3, <2>1
  <1>4. QED
    BY <1>2, <1>3, ProxyKept

-------------------------------------------------------------------------------
(* The canary *)

Phases == {"start", "generate", "release", "final", "ended"}

Stages == 1..4

CanaryTypes ==
    canary \in [step : Nat, phase : Phases, acquired : SUBSET Stages, held : SUBSET Stages,
                asked : Seq(Stages), failed : BOOLEAN, cleanupFailed : BOOLEAN,
                observation : {"none", "accepted", "not accepted"},
                status : {"none", "passed", "infrastructure_failed", "task_failed"}]

\* Before the release nothing was asked to stop; in it what was asked lay above
\* all that is still to be asked; after it nothing is left to be asked.
ReleaseInOrder ==
    /\ canary.phase = "start" =>
          /\ canary.asked = <<>> /\ canary.acquired = {k \in Stages : k < canary.step}
          /\ canary.step \in 0..4
    /\ canary.phase = "generate" => canary.asked = <<>>
    /\ canary.phase = "release" => \A k \in AskedSet, j \in canary.acquired \ AskedSet : j < k
    /\ AskedSet \subseteq canary.acquired
    /\ canary.phase \in {"final", "ended"} => canary.acquired \subseteq AskedSet
    /\ \A m, n \in DOMAIN canary.asked : m < n => canary.asked[m] > canary.asked[n]

\* As long as nothing has gone wrong, what is there is what was started and not
\* yet stopped, and the proxy serves while it is there.
HeldIsKnown ==
    /\ canary.phase = "start" => ~canary.failed
    /\ ~canary.failed => canary.held = canary.acquired \ AskedSet /\ (serving <=> 4 \in canary.held)
    /\ NothingFailed => canary.phase = "ended" /\ ~canary.failed

CanaryInv == CanaryTypes /\ ReleaseInOrder /\ HeldIsKnown /\ ProxyInv

\* The proxy is the fourth and last that is started.
LEMMA FourResources ==
    /\ DOMAIN Resources = Stages /\ Len(Resources) = 4
    /\ \A k \in Stages : Resources[k] = "proxy" <=> k = 4
  BY DEF Resources, Stages

\* At first the canary holds nothing.
LEMMA CanaryStarts == CanaryInit /\ ProxyInit => CanaryInv
  <1> SUFFICES ASSUME CanaryInit, ProxyInit PROVE CanaryInv
    OBVIOUS
  <1>1. canary = [step |-> 0, phase |-> "start", acquired |-> {}, held |-> {}, asked |-> <<>>,
                  failed |-> FALSE, cleanupFailed |-> FALSE, observation |-> "none", status |-> "none"]
    BY DEF CanaryInit
  <1>2. CanaryTypes
    BY <1>1 DEF CanaryTypes, Phases
  <1>3. AskedSet = {} /\ canary.acquired = {k \in Stages : k < canary.step}
    BY <1>1 DEF AskedSet, Stages
  <1>4. ReleaseInOrder
    BY <1>1, <1>3 DEF ReleaseInOrder
  <1>5. HeldIsKnown
    BY <1>1, <1>3 DEF HeldIsKnown, ProxyInit, NothingFailed
  <1>6. QED
    BY <1>2, <1>4, <1>5, ProxyStarts DEF CanaryInv

\* Serving or not, the handlers stay where they are.
LEMMA ProxyStays ==
    ASSUME ProxyInv, UNCHANGED <<handler, accepted, denied>>, serving' \in BOOLEAN
    PROVE  ProxyInv'
  BY DEF ProxyInv

\* One more is asked, after those asked before.
LEMMA AskedTyped ==
    ASSUME CanaryTypes
    PROVE  /\ AskedSet \subseteq Stages /\ Len(canary.asked) \in Nat
           /\ DOMAIN canary.asked = 1..Len(canary.asked)
           /\ \A k \in Stages :
                 /\ Append(canary.asked, k) \in Seq(Stages)
                 /\ DOMAIN Append(canary.asked, k) = 1..(Len(canary.asked) + 1)
                 /\ Append(canary.asked, k)[Len(canary.asked) + 1] = k
                 /\ \A n \in 1..Len(canary.asked) : Append(canary.asked, k)[n] = canary.asked[n]
  <1>1. canary.asked \in Seq(Stages)
    BY DEF CanaryTypes
  <1>2. QED
    BY <1>1 DEF AskedSet

\* Whatever is acquired, something of it was acquired last.
LEMMA LastThere ==
    ASSUME NEW ks \in SUBSET Stages, ks # {}
    PROVE  Last(ks) \in ks /\ \A j \in ks : j <= Last(ks)
  <1>1. \E k \in ks : \A j \in ks : j <= k
    <2>1. CASE 4 \in ks
      BY <2>1 DEF Stages
    <2>2. CASE 4 \notin ks /\ 3 \in ks
      BY <2>2 DEF Stages
    <2>3. CASE 4 \notin ks /\ 3 \notin ks /\ 2 \in ks
      BY <2>3 DEF Stages
    <2>4. CASE 4 \notin ks /\ 3 \notin ks /\ 2 \notin ks
      <3>1. \A j \in ks : j = 1
        BY <2>4 DEF Stages
      <3>2. 1 \in ks
        BY <3>1
      <3>3. QED
        BY <3>1, <3>2
    <2>5. QED
      BY <2>1, <2>2, <2>3, <2>4
  <1>2. QED
    BY <1>1 DEF Last

\* A step that asks for no release, but for what it says of itself.
LEMMA AcquireKeeps ==
    ASSUME CanaryInv, NEW k \in Stages, AcquireResource(k)
    PROVE  CanaryInv'
  <1>1. /\ canary.phase = "start" /\ canary.step = k
        /\ canary' = [canary EXCEPT !.acquired = @ \cup {k}, !.held = @ \cup {k}, !.step = k + 1,
                        !.phase = IF k = 4 THEN "generate" ELSE "start"]
        /\ k = 4 => serving' = TRUE /\ UNCHANGED <<handler, accepted, denied>>
        /\ k # 4 => UNCHANGED proxyVars
    BY FourResources DEF AcquireResource, InPhase, Becomes, StartServing
  <1>2. CanaryTypes'
    <2>1. k + 1 \in Nat
      BY DEF Stages
    <2>2. canary.acquired \cup {k} \in SUBSET Stages /\ canary.held \cup {k} \in SUBSET Stages
      BY DEF CanaryInv, CanaryTypes
    <2>3. (IF k = 4 THEN "generate" ELSE "start") \in Phases
      BY DEF Phases
    <2>4. QED
      BY <1>1, <2>1, <2>2, <2>3 DEF CanaryInv, CanaryTypes
  <1>3. /\ canary'.asked = canary.asked /\ canary'.acquired = canary.acquired \cup {k}
        /\ canary'.held = canary.held \cup {k} /\ canary'.step = k + 1
        /\ canary'.phase = (IF k = 4 THEN "generate" ELSE "start")
        /\ canary'.failed = canary.failed /\ canary'.status = canary.status
    BY <1>1 DEF CanaryInv, CanaryTypes
  <1>4. /\ canary.asked = <<>> /\ canary.acquired = {j \in Stages : j < k}
        /\ canary.held = canary.acquired \ AskedSet /\ (serving <=> 4 \in canary.held)
        /\ ~canary.failed /\ ~NothingFailed
    BY <1>1 DEF CanaryInv, ReleaseInOrder, HeldIsKnown
  <1>5. AskedSet = {} /\ AskedSet' = {}
    BY <1>3, <1>4 DEF AskedSet
  <1>6. {j \in Stages : j < k} \cup {k} = {j \in Stages : j < k + 1}
    BY DEF Stages
  <1>7. ReleaseInOrder'
    <2>1. k # 4 => k + 1 \in 0..4
      BY DEF Stages
    <2>2. QED
      BY <1>3, <1>4, <1>5, <1>6, <2>1 DEF ReleaseInOrder
  <1>8. serving' <=> 4 \in canary'.held
    BY <1>1, <1>3, <1>4 DEF proxyVars
  <1>9. HeldIsKnown'
    BY <1>3, <1>4, <1>5, <1>8 DEF HeldIsKnown, NothingFailed
  <1>10. ProxyInv'
    BY <1>1, ProxyStays DEF CanaryInv, proxyVars, ProxyInv
  <1>11. QED
    BY <1>2, <1>7, <1>9, <1>10 DEF CanaryInv

\* A step that stops nothing and notes that something went wrong, or nothing did.
LEMMA StepKeeps ==
    ASSUME CanaryInv, CanaryTypes', ProxyInv',
           canary'.asked = canary.asked, canary'.acquired = canary.acquired,
           ~NothingFailed',
           \/ /\ canary.phase = "start" /\ canary'.phase = "start"
              /\ canary.step = 0 /\ canary'.step = 1
           \/ canary.phase \in {"start", "generate"} /\ canary'.phase = "release"
           \/ canary.phase = "release" /\ canary'.phase = "final" /\ ToRelease = {},
           \/ canary'.failed /\ canary'.phase # "start"
           \/ /\ canary'.failed = canary.failed /\ canary'.held = canary.held /\ serving' = serving
    PROVE  CanaryInv'
  <1>1. AskedSet' = AskedSet
    BY DEF AskedSet
  <1>2. canary.phase \in {"start", "generate"} => AskedSet = {}
    BY DEF CanaryInv, ReleaseInOrder, AskedSet
  <1>3. canary.step = 0 => {k \in Stages : k < canary.step} = {k \in Stages : k < 1}
    BY DEF Stages
  <1>4. canary.phase = "start" /\ canary.step = 0 =>
           canary'.acquired = {k \in Stages : k < 1} /\ canary'.asked = <<>>
    BY <1>3 DEF CanaryInv, ReleaseInOrder
  <1>5. canary.phase = "release" /\ ToRelease = {} => canary.acquired \subseteq AskedSet
    BY DEF ToRelease
  <1>6. ReleaseInOrder'
    BY <1>1, <1>2, <1>4, <1>5 DEF CanaryInv, ReleaseInOrder
  <1>7. HeldIsKnown'
    BY <1>1 DEF CanaryInv, HeldIsKnown
  <1>8. QED
    BY <1>6, <1>7 DEF CanaryInv

\* The next to be asked lies below all that were asked.
LEMMA ReleaseKeeps ==
    ASSUME CanaryInv, Release, ToRelease # {}
    PROVE  CanaryInv'
  <1> DEFINE k == Last(ToRelease)
  <1>1. ToRelease \in SUBSET Stages /\ AskedSet \subseteq Stages
    BY AskedTyped DEF ToRelease, CanaryInv, CanaryTypes
  <1>2. k \in ToRelease /\ \A j \in ToRelease : j <= k
    BY <1>1, LastThere
  <1> HIDE DEF k
  <1>3. canary.phase = "release" /\ (Released(k) \/ NotReleased(k))
    BY DEF Release, InPhase, k
  <1>4. k \in Stages /\ k \in canary.acquired /\ k \notin AskedSet
    BY <1>1, <1>2 DEF ToRelease
  <1>5. /\ canary'.asked = Append(canary.asked, k)
        /\ canary'.acquired = canary.acquired /\ canary'.phase = "release"
        /\ canary'.status = canary.status
        /\ \/ canary'.failed
           \/ /\ canary'.failed = canary.failed /\ canary'.held = canary.held \ {k}
              /\ k = 4 => serving' = FALSE
              /\ k # 4 => serving' = serving
    BY <1>3, <1>4, FourResources
       DEF CanaryInv, CanaryTypes, Released, NotReleased, Asks, Ceases, StopServing, proxyVars
  <1>6. CanaryTypes'
    <2>1. Append(canary.asked, k) \in Seq(Stages)
      BY <1>4, AskedTyped DEF CanaryInv
    <2>2. canary.held \ {k} \in SUBSET Stages
      BY DEF CanaryInv, CanaryTypes
    <2>3. QED
      BY <1>3, <2>1, <2>2 DEF Released, NotReleased, Asks, CanaryInv, CanaryTypes
  <1>7. ProxyInv'
    <2>1. UNCHANGED <<handler, accepted, denied>> /\ (serving' = FALSE \/ serving' = serving)
      BY <1>3 DEF Released, NotReleased, Ceases, StopServing, proxyVars
    <2>2. QED
      BY <2>1, ProxyStays DEF CanaryInv, ProxyInv
  <1>8. AskedSet' = AskedSet \cup {k}
    <2>1. AskedSet' = {Append(canary.asked, k)[n] : n \in DOMAIN Append(canary.asked, k)}
      BY <1>5 DEF AskedSet
    <2>2. DOMAIN Append(canary.asked, k) = DOMAIN canary.asked \cup {Len(canary.asked) + 1}
      BY <1>4, AskedTyped DEF CanaryInv
    <2>3. \A n \in DOMAIN canary.asked : Append(canary.asked, k)[n] = canary.asked[n]
      BY <1>4, AskedTyped DEF CanaryInv
    <2>4. Append(canary.asked, k)[Len(canary.asked) + 1] = k
      BY <1>4, AskedTyped DEF CanaryInv
    <2>5. AskedSet' \subseteq AskedSet \cup {k}
      BY <2>1, <2>2, <2>3, <2>4 DEF AskedSet
    <2>6. AskedSet \cup {k} \subseteq AskedSet'
      <3>1. AskedSet \subseteq AskedSet'
        BY <2>1, <2>2, <2>3 DEF AskedSet
      <3>2. k \in AskedSet'
        BY <2>1, <2>2, <2>4
      <3>3. QED
        BY <3>1, <3>2
    <2>7. QED
      BY <2>5, <2>6
  <1>9. ReleaseInOrder'
    <2>1. \A n \in DOMAIN canary.asked : canary.asked[n] > k
      <3>1. \A a \in AskedSet : k < a
        BY <1>3, <1>4 DEF CanaryInv, ReleaseInOrder
      <3>2. \A a \in AskedSet : a \in 1..4
        BY <1>1 DEF Stages
      <3>3. k \in 1..4
        BY <1>4 DEF Stages
      <3>4. \A a \in AskedSet : a > k
        BY <3>1, <3>2, <3>3
      <3>5. QED
        BY <3>4 DEF AskedSet
    <2>2. \A m, n \in DOMAIN canary'.asked : m < n => canary'.asked[m] > canary'.asked[n]
      <3> SUFFICES ASSUME NEW m \in DOMAIN canary'.asked, NEW n \in DOMAIN canary'.asked, m < n
                   PROVE  canary'.asked[m] > canary'.asked[n]
        OBVIOUS
      <3>1. /\ Len(canary.asked) \in Nat /\ DOMAIN canary'.asked = 1..(Len(canary.asked) + 1)
            /\ DOMAIN canary.asked = 1..Len(canary.asked)
        BY <1>4, <1>5, AskedTyped DEF CanaryInv
      <3>2. m \in 1..Len(canary.asked) /\ canary'.asked[m] = canary.asked[m]
        BY <1>4, <1>5, <3>1, AskedTyped DEF CanaryInv
      <3>3. CASE n = Len(canary.asked) + 1
        <4>1. canary'.asked[n] = k
          BY <1>4, <1>5, <3>3, AskedTyped DEF CanaryInv
        <4>2. QED
          BY <2>1, <3>1, <3>2, <4>1
      <3>4. CASE n \in 1..Len(canary.asked)
        <4>1. canary'.asked[n] = canary.asked[n]
          BY <1>4, <1>5, <3>4, AskedTyped DEF CanaryInv
        <4>2. QED
          BY <3>1, <3>2, <3>4, <4>1 DEF CanaryInv, ReleaseInOrder
      <3>5. QED
        BY <3>1, <3>3, <3>4
    <2>3. \A a \in AskedSet', j \in canary'.acquired \ AskedSet' : j < a
      <3>1. \A a \in AskedSet, j \in canary.acquired \ AskedSet : j < a
        BY <1>3 DEF CanaryInv, ReleaseInOrder
      <3>2. \A j \in canary'.acquired \ AskedSet' : j \in ToRelease /\ j # k
        BY <1>5, <1>8 DEF ToRelease
      <3>3. \A j \in ToRelease : j \in 1..4 /\ k \in 1..4
        BY <1>1, <1>4 DEF Stages
      <3>4. \A j \in canary'.acquired \ AskedSet' : j < k
        BY <1>2, <3>2, <3>3
      <3>5. QED
        BY <1>5, <1>8, <3>1, <3>4
    <2>4. AskedSet' \subseteq canary'.acquired
      BY <1>4, <1>5, <1>8 DEF CanaryInv, ReleaseInOrder
    <2>5. QED
      BY <1>5, <2>2, <2>3, <2>4 DEF ReleaseInOrder
  <1>10. HeldIsKnown'
    <2>1. ~NothingFailed
      BY <1>3 DEF CanaryInv, HeldIsKnown
    <2>2. ASSUME ~canary'.failed
          PROVE  canary'.held = canary'.acquired \ AskedSet' /\ (serving' <=> 4 \in canary'.held)
      <3>1. /\ ~canary.failed /\ canary'.held = canary.held \ {k}
            /\ k = 4 => serving' = FALSE
            /\ k # 4 => serving' = serving
        BY <1>5, <2>2
      <3>2. canary.held = canary.acquired \ AskedSet /\ (serving <=> 4 \in canary.held)
        BY <3>1 DEF CanaryInv, HeldIsKnown
      <3>3. QED
        BY <1>5, <1>8, <3>1, <3>2
    <2>3. QED
      BY <1>5, <2>1, <2>2 DEF HeldIsKnown, NothingFailed
  <1>11. QED
    BY <1>6, <1>7, <1>9, <1>10 DEF CanaryInv

\* The verdict notes a failure of any step.
LEMMA FinalCheckKeeps ==
    ASSUME CanaryInv, FinalCheck
    PROVE  CanaryInv'
  <1>1. PICK passed \in BOOLEAN : LET failed == canary.failed \/ ~passed IN
           canary' = [canary EXCEPT !.phase = "ended", !.failed = failed,
                        !.cleanupFailed = @ \/ ~passed,
                        !.status = CASE failed -> "infrastructure_failed"
                                     [] ~failed /\ canary.observation = "accepted" -> "passed"
                                     [] OTHER -> "task_failed"]
    BY DEF FinalCheck
  <1> DEFINE failed == canary.failed \/ ~passed
             status == CASE failed -> "infrastructure_failed"
                         [] ~failed /\ canary.observation = "accepted" -> "passed"
                         [] OTHER -> "task_failed"
  <1>2. canary.phase = "final" /\ UNCHANGED proxyVars
    BY DEF FinalCheck, InPhase
  <1>3. /\ failed \in BOOLEAN /\ (canary.cleanupFailed \/ ~passed) \in BOOLEAN
        /\ status \in {"passed", "infrastructure_failed", "task_failed"}
        /\ status \in {"passed", "task_failed"} => ~failed
    BY DEF CanaryInv, CanaryTypes
  <1>4. /\ canary'.phase = "ended" /\ canary'.failed = failed /\ canary'.status = status
        /\ canary'.asked = canary.asked /\ canary'.acquired = canary.acquired
        /\ canary'.held = canary.held
    BY <1>1 DEF CanaryInv, CanaryTypes
  <1>5. CanaryTypes'
    <2> DEFINE cleanup == canary.cleanupFailed \/ ~passed
    <2>1. cleanup \in BOOLEAN
      BY DEF CanaryInv, CanaryTypes
    <2>2. canary' = [canary EXCEPT !.phase = "ended", !.failed = failed, !.cleanupFailed = cleanup,
                       !.status = status]
      BY <1>1
    <2> HIDE DEF cleanup, failed, status
    <2>3. QED
      BY <1>3, <2>1, <2>2 DEF CanaryInv, CanaryTypes, Phases
  <1>6. failed => canary.failed \/ ~passed
    OBVIOUS
  <1>7. ~failed => ~canary.failed
    OBVIOUS
  <1> HIDE DEF failed, status
  <1>8. AskedSet' = AskedSet
    BY <1>4 DEF AskedSet
  <1>9. ReleaseInOrder'
    BY <1>2, <1>4, <1>8 DEF CanaryInv, ReleaseInOrder
  <1>10. HeldIsKnown'
    BY <1>2, <1>3, <1>4, <1>7, <1>8 DEF CanaryInv, HeldIsKnown, proxyVars, NothingFailed
  <1>11. ProxyInv'
    BY <1>2, ProxyStays DEF CanaryInv, proxyVars, ProxyInv
  <1>12. QED
    BY <1>5, <1>9, <1>10, <1>11 DEF CanaryInv

\* Each step of the canary and of the handlers keeps it.
LEMMA CanaryKept ==
    ASSUME CanaryInv, CanaryNext
    PROVE  CanaryInv'
  <1>1. CASE Preflight
    <2>1. /\ canary.phase = "start" /\ canary.step = 0 /\ UNCHANGED proxyVars
          /\ canary' = [canary EXCEPT !.step = 1]
      BY <1>1 DEF Preflight, InPhase
    <2>2. CanaryTypes'
      BY <2>1 DEF CanaryInv, CanaryTypes
    <2>3. ProxyInv'
      BY <2>1, ProxyStays DEF CanaryInv, proxyVars, ProxyInv
    <2>4. /\ canary'.asked = canary.asked /\ canary'.acquired = canary.acquired
          /\ canary'.status = canary.status /\ canary'.failed = canary.failed
          /\ canary'.held = canary.held /\ canary'.phase = canary.phase /\ canary'.step = 1
      BY <2>1 DEF CanaryInv, CanaryTypes
    <2>5. ~NothingFailed
      BY <2>1 DEF CanaryInv, HeldIsKnown
    <2>6. QED
      BY <2>1, <2>2, <2>3, <2>4, <2>5, StepKeeps DEF proxyVars, NothingFailed
  <1>2. CASE RaiseInStart
    <2>1. canary.phase = "start"
      BY <1>2 DEF RaiseInStart, InPhase
    <2>2. ~NothingFailed
      BY <2>1 DEF CanaryInv, HeldIsKnown
    <2>3. CASE /\ UNCHANGED proxyVars
               /\ canary' = [canary EXCEPT !.phase = "release", !.failed = TRUE]
      <3>1. CanaryTypes'
        BY <2>3 DEF CanaryInv, CanaryTypes, Phases
      <3>2. ProxyInv'
        BY <2>3, ProxyStays DEF CanaryInv, proxyVars, ProxyInv
      <3>3. /\ canary'.asked = canary.asked /\ canary'.acquired = canary.acquired
            /\ canary'.status = canary.status /\ canary'.failed /\ canary'.phase = "release"
        BY <2>3 DEF CanaryInv, CanaryTypes
      <3>4. QED
        BY <2>1, <2>2, <3>1, <3>2, <3>3, StepKeeps DEF NothingFailed
    <2>4. CASE /\ canary.step > 0 /\ Becomes(canary.step)
               /\ canary' = [canary EXCEPT !.phase = "release", !.failed = TRUE,
                               !.held = @ \cup {canary.step}]
      <3>1. UNCHANGED <<handler, accepted, denied>> /\ serving' \in BOOLEAN
        BY <2>4 DEF Becomes, StartServing, proxyVars, CanaryInv, ProxyInv
      <3>2. canary.held \cup {canary.step} \in SUBSET Stages
        <4>1. canary.step \in Stages
          BY <2>1, <2>4 DEF CanaryInv, ReleaseInOrder, Stages
        <4>2. QED
          BY <4>1 DEF CanaryInv, CanaryTypes
      <3>3. CanaryTypes'
        BY <2>4, <3>2 DEF CanaryInv, CanaryTypes, Phases
      <3>4. ProxyInv'
        BY <3>1, ProxyStays DEF CanaryInv
      <3>5. /\ canary'.asked = canary.asked /\ canary'.acquired = canary.acquired
            /\ canary'.status = canary.status /\ canary'.failed /\ canary'.phase = "release"
        BY <2>4 DEF CanaryInv, CanaryTypes
      <3>6. QED
        BY <2>1, <2>2, <3>3, <3>4, <3>5, StepKeeps DEF NothingFailed
    <2>5. QED
      BY <1>2, <2>3, <2>4 DEF RaiseInStart
  <1>3. CASE Generate
    <2>1. canary.phase = "generate" /\ UNCHANGED proxyVars
      BY <1>3 DEF Generate, InPhase
    <2>2. ~NothingFailed
      BY <2>1 DEF CanaryInv, HeldIsKnown
    <2>3. /\ CanaryTypes'
          /\ canary'.asked = canary.asked /\ canary'.acquired = canary.acquired
          /\ canary'.status = canary.status /\ canary'.phase = "release"
          /\ canary'.failed \/ (canary'.failed = canary.failed /\ canary'.held = canary.held)
      <3>1. CASE \E noted \in {"accepted", "not accepted"} :
                    canary' = [canary EXCEPT !.phase = "release", !.observation = noted]
        BY <3>1 DEF CanaryInv, CanaryTypes, Phases
      <3>2. CASE canary' = [canary EXCEPT !.phase = "release", !.failed = TRUE]
        BY <3>2 DEF CanaryInv, CanaryTypes, Phases
      <3>3. QED
        BY <1>3, <3>1, <3>2 DEF Generate
    <2>4. ProxyInv'
      BY <2>1, ProxyStays DEF CanaryInv, proxyVars, ProxyInv
    <2>5. QED
      BY <2>1, <2>2, <2>3, <2>4, StepKeeps DEF proxyVars, NothingFailed
  <1>4. CASE Release /\ ToRelease = {}
    <2>1. /\ canary.phase = "release" /\ UNCHANGED proxyVars
          /\ canary' = [canary EXCEPT !.phase = "final"]
      BY <1>4 DEF Release, InPhase
    <2>2. CanaryTypes'
      BY <2>1 DEF CanaryInv, CanaryTypes, Phases
    <2>3. ProxyInv'
      BY <2>1, ProxyStays DEF CanaryInv, proxyVars, ProxyInv
    <2>4. /\ canary'.asked = canary.asked /\ canary'.acquired = canary.acquired
          /\ canary'.status = canary.status /\ canary'.failed = canary.failed
          /\ canary'.held = canary.held /\ canary'.phase = "final"
      BY <2>1 DEF CanaryInv, CanaryTypes
    <2>5. ~NothingFailed
      BY <2>1 DEF CanaryInv, HeldIsKnown
    <2>6. QED
      BY <1>4, <2>1, <2>2, <2>3, <2>4, <2>5, StepKeeps DEF proxyVars, NothingFailed
  <1>5. CASE Release /\ ToRelease # {}
    BY <1>5, ReleaseKeeps
  <1>6. CASE FinalCheck
    BY <1>6, FinalCheckKeeps
  <1>7. ASSUME NEW k \in DOMAIN Resources, AcquireResource(k)
        PROVE  CanaryInv'
    BY <1>7, AcquireKeeps, FourResources
  <1>8. ASSUME NEW c \in Connections, Handler(c, Listening), UNCHANGED canary
        PROVE  CanaryInv'
    <2>1. ProxyInv' /\ serving' = serving
      <3>1. Listening \in BOOLEAN
        BY DEF Listening
      <3>2. QED
        BY <1>8, <3>1, ProxyKept DEF CanaryInv
    <2>2. canary' = canary /\ AskedSet' = AskedSet
      BY <1>8 DEF AskedSet
    <2>3. CanaryTypes' /\ ReleaseInOrder' /\ HeldIsKnown'
      BY <2>1, <2>2 DEF CanaryInv, CanaryTypes, ReleaseInOrder, HeldIsKnown, NothingFailed
    <2>4. QED
      BY <2>1, <2>3 DEF CanaryInv
  <1>9. QED
    BY <1>1, <1>2, <1>3, <1>4, <1>5, <1>6, <1>7, <1>8 DEF CanaryNext

\* At the end all was asked, and what failed was not passed.
LEMMA ReleasesByInvariant == CanaryInv => ReleasedAtTheEnd
  <1> SUFFICES ASSUME CanaryInv PROVE ReleasedAtTheEnd
    OBVIOUS
  <1>1. canary.phase = "ended" => AskedSet = canary.acquired
    BY DEF CanaryInv, ReleaseInOrder
  <1>2. \A m, n \in DOMAIN canary.asked : m < n => canary.asked[m] > canary.asked[n]
    BY DEF CanaryInv, ReleaseInOrder
  <1>3. NothingFailed => canary.held = {} /\ ~serving
    BY <1>1 DEF CanaryInv, HeldIsKnown, NothingFailed
  <1>4. QED
    BY <1>1, <1>2, <1>3 DEF ReleasedAtTheEnd

\* After a run that notes no failure nobody listens upstream.
LEMMA HandOnlyEmpties ==
    ASSUME CanaryInv, CanaryNext \/ UNCHANGED canaryVars, NothingFailed
    PROVE  accepted' + Cardinality(InHand') <= accepted + Cardinality(InHand)
  <1>1. canary.phase = "ended" /\ canary.held = {}
    BY ReleasesByInvariant DEF CanaryInv, HeldIsKnown, NothingFailed, ReleasedAtTheEnd
  <1>2. ~Listening
    BY <1>1 DEF Listening
  <1>3. CASE UNCHANGED canaryVars
    <2>1. InHand' = InHand /\ accepted' = accepted
      BY <1>3 DEF canaryVars, proxyVars, InHand
    <2>2. InHand \subseteq Connections
      BY DEF InHand
    <2>3. accepted \in Nat /\ Cardinality(InHand) \in Nat
      BY <2>2, ProxyAssumption, FS_Subset, FS_CardinalityType DEF CanaryInv, ProxyInv
    <2>4. QED
      BY <2>1, <2>3
  <1>4. CASE CanaryNext
    <2>1. \E c \in Connections : Handler(c, Listening)
      BY <1>1, <1>4
         DEF CanaryNext, Preflight, RaiseInStart, Generate, Release, FinalCheck, AcquireResource, InPhase
    <2>2. PICK c \in Connections : Handler(c, FALSE)
      <3>1. Listening = FALSE
        BY <1>2 DEF Listening
      <3>2. QED
        BY <2>1, <3>1
    <2>3. QED
      BY <2>2, NoMoreIsAccepted DEF CanaryInv
  <1>5. QED
    BY <1>3, <1>4

-------------------------------------------------------------------------------
(* The ledger of the candidates *)

EventIds == {"none", "registered", "reviewed"} \X Nat

EventLines == [candidate : CandidateIds, action : {"registered", "reviewed"}, instance : Instances,
               sound : BOOLEAN, id : EventIds, sequence : Nat, supersedes : EventIds]

LedgerFileTypes ==
    /\ lines \in Seq(EventLines)
    /\ basis \in Seq(Nat) /\ Len(basis) = Len(lines)
    /\ read \in [Authors -> Nat \cup {NotReading}]

\* What a review supersedes is what its author took for the latest event when
\* he read the file.
ReviewsWhatWasRead ==
    /\ \A a \in Authors : read[a] = NotReading \/ read[a] \in 0..Len(lines)
    /\ \A n \in DOMAIN lines :
          /\ basis[n] \in 0..(n - 1)
          /\ lines[n].action = "reviewed" =>
                \E k \in 1..basis[n] :
                   /\ lines[k].candidate = lines[n].candidate
                   /\ lines[n].supersedes = lines[k].id
                   /\ \A m \in 1..basis[n] : lines[m].candidate = lines[n].candidate => m <= k

LedgerFileInv == LedgerFileTypes /\ ReviewsWhatWasRead

\* At first the file is empty and nobody has read it.
LEMMA LedgerFileStarts == LedgerFileInit => LedgerFileInv
  <1> SUFFICES ASSUME LedgerFileInit PROVE LedgerFileInv
    OBVIOUS
  <1>1. lines = <<>> /\ basis = <<>> /\ read = [a \in Authors |-> NotReading]
    BY DEF LedgerFileInit
  <1>2. LedgerFileTypes
    BY <1>1 DEF LedgerFileTypes
  <1>3. ReviewsWhatWasRead
    BY <1>1 DEF ReviewsWhatWasRead
  <1>4. QED
    BY <1>2, <1>3 DEF LedgerFileInv

\* A non-empty set of lines has a last one.
LEMMA LastLineExists ==
    ASSUME NEW n \in Nat, NEW S \in SUBSET (1..n), S # {}
    PROVE  LastIn(S) \in S /\ \A j \in S : j <= LastIn(S)
  <1> DEFINE T == {n - i : i \in S}
  <1>1. T \subseteq Nat /\ T # {}
    <2>1. \A i \in S : i \in Int /\ n - i \in Nat
      OBVIOUS
    <2>2. \E i \in S : n - i \in T
      OBVIOUS
    <2>3. QED
      BY <2>1, <2>2
  <1>2. PICK x \in T : \A y \in T : ~(<<y, x>> \in OpToRel(<, Nat))
    <2> HIDE DEF T
    <2>1. QED
      BY <1>1, WFMin, NatLessThanWellFounded
  <1>3. \A y \in T : ~(y < x)
    <2> HIDE DEF T
    <2>1. QED
      BY <1>1, <1>2 DEF OpToRel
  <1>4. PICK i \in S : x = n - i
    OBVIOUS
  <1>5. \A j \in S : j <= i
    BY <1>3, <1>4
  <1>6. QED
    BY <1>5 DEF LastIn

\* What is known of a candidate is what its last line says.
LEMMA LatestIsALine ==
    ASSUME NEW events \in Seq(EventLines), NEW c \in Known(events)
    PROVE  /\ LastIn(Of(events, c)) \in DOMAIN events
           /\ \A m \in Of(events, c) : m <= LastIn(Of(events, c))
           /\ Latest(events, c) = events[LastIn(Of(events, c))]
           /\ Latest(events, c) \in EventLines /\ Latest(events, c).candidate = c
  <1>1. Len(events) \in Nat /\ Of(events, c) \in SUBSET (1..Len(events)) /\ Of(events, c) # {}
    BY DEF Known, Of
  <1>2. /\ LastIn(Of(events, c)) \in Of(events, c)
        /\ \A m \in Of(events, c) : m <= LastIn(Of(events, c))
    BY <1>1, LastLineExists
  <1>3. QED
    BY <1>2 DEF Latest, Of

\* The first lines are lines.
LEMMA FirstLines ==
    ASSUME NEW events \in Seq(EventLines), NEW k \in 0..Len(events)
    PROVE  /\ SubSeq(events, 1, k) \in Seq(EventLines)
           /\ Len(SubSeq(events, 1, k)) = k /\ DOMAIN SubSeq(events, 1, k) = 1..k
           /\ \A n \in 1..k : SubSeq(events, 1, k)[n] = events[n]
  <1>1. \A i \in 1..k : events[i] \in EventLines
    OBVIOUS
  <1>2. /\ SubSeq(events, 1, k) \in Seq(EventLines)
        /\ Len(SubSeq(events, 1, k)) = IF 1 <= k THEN k - 1 + 1 ELSE 0
        /\ \A i \in 1..(k - 1 + 1) : SubSeq(events, 1, k)[i] = events[1 + i - 1]
    BY <1>1, SubSeqProperties
  <1> DEFINE first == SubSeq(events, 1, k)
  <1>3. first \in Seq(EventLines) /\ Len(first) = k
        /\ \A i \in 1..k : first[i] = events[i]
    BY <1>2
  <1> HIDE DEF first
  <1>4. DOMAIN first = 1..k
    BY <1>3
  <1>5. QED
    BY <1>3, <1>4 DEF first

\* Whatever is added, the first lines stay what they were.
LEMMA FirstLinesStay ==
    ASSUME NEW events \in Seq(EventLines), NEW e \in EventLines, NEW k \in 0..Len(events)
    PROVE  SubSeq(Append(events, e), 1, k) = SubSeq(events, 1, k)
  <1> DEFINE longer == Append(events, e)
  <1>1. longer \in Seq(EventLines) /\ k \in 0..Len(longer) /\ \A n \in 1..k : longer[n] = events[n]
    OBVIOUS
  <1> HIDE DEF longer
  <1> DEFINE f == SubSeq(longer, 1, k)
             g == SubSeq(events, 1, k)
  <1>2. /\ f \in Seq(EventLines) /\ g \in Seq(EventLines) /\ Len(f) = k /\ Len(g) = k
        /\ \A n \in 1..k : f[n] = g[n]
    BY <1>1, FirstLines
  <1> HIDE DEF f, g
  <1>3. f = g
    BY <1>2
  <1>4. QED
    BY <1>3 DEF f, g, longer

\* What an author writes is an event.
LEMMA EventTyped ==
    ASSUME NEW c \in CandidateIds, NEW i \in Instances, NEW sound \in BOOLEAN,
           NEW copy \in Seq(EventLines), NEW numbered \in Seq(EventLines)
    PROVE  Event(c, i, sound, copy, numbered) \in EventLines
  <1>1. \A action \in {"registered", "reviewed"} : EventId(action, numbered) \in EventIds
    <2> SUFFICES ASSUME NEW action \in {"registered", "reviewed"}
                 PROVE  EventId(action, numbered) \in EventIds
      OBVIOUS
    <2> DEFINE alike == {n \in DOMAIN numbered : numbered[n].action = action}
    <2>1. IsFiniteSet(1..Len(numbered)) /\ DOMAIN numbered = 1..Len(numbered)
      BY FS_Interval
    <2>2. IsFiniteSet(alike)
      BY <2>1, FS_Subset
    <2>3. Cardinality(alike) \in Nat
      BY <2>2, FS_CardinalityType
    <2>4. 1 + Cardinality(alike) \in Nat
      BY <2>3
    <2>5. QED
      BY <2>4 DEF EventId, EventIds
  <1>2. NoEvent \in EventIds
    BY DEF NoEvent, EventIds
  <1>3. c \in Known(copy) => Latest(copy, c).id \in EventIds
    BY LatestIsALine DEF EventLines
  <1>4. Len(numbered) + 1 \in Nat
    OBVIOUS
  <1>5. QED
    BY <1>1, <1>2, <1>3, <1>4 DEF Event, EventLines

\* A line that is merged supersedes what its author had read last.
LEMMA LineKeeps ==
    ASSUME LedgerFileInv, NEW c \in CandidateIds, NEW i \in Instances, NEW sound \in BOOLEAN,
           NEW k \in 0..Len(lines), NEW numbered \in Seq(EventLines),
           lines' = Append(lines, Event(c, i, sound, Prefix(k), numbered)),
           basis' = Append(basis, k),
           read' \in [Authors -> Nat \cup {NotReading}],
           \A a \in Authors : read'[a] = NotReading \/ read'[a] = read[a]
    PROVE  LedgerFileInv' /\ \E e \in EventLines : lines' = Append(lines, e)
  <1> DEFINE copy == Prefix(k)
             e == Event(c, i, sound, copy, numbered)
             last == Len(lines) + 1
  <1>1. /\ copy \in Seq(EventLines) /\ Len(copy) = k /\ DOMAIN copy = 1..k
        /\ \A n \in 1..k : copy[n] = lines[n]
    BY FirstLines DEF LedgerFileInv, LedgerFileTypes, Prefix
  <1>2. e \in EventLines
    BY <1>1, EventTyped
  <1>3. /\ e.candidate = c
        /\ e.action = "reviewed" => c \in Known(copy) /\ e.supersedes = Latest(copy, c).id
    BY DEF Event
  <1> HIDE DEF e, copy
  <1>4. lines \in Seq(EventLines) /\ basis \in Seq(Nat) /\ Len(basis) = Len(lines) /\ k \in Nat
    BY DEF LedgerFileInv, LedgerFileTypes
  <1>5. lines' = Append(lines, e)
    BY DEF e, copy
  <1>6. LedgerFileTypes'
    BY <1>2, <1>4, <1>5 DEF LedgerFileTypes, NotReading
  <1>7. /\ Len(lines') = last /\ DOMAIN lines' = 1..last /\ DOMAIN lines = 1..Len(lines)
        /\ lines'[last] = e /\ basis'[last] = k
        /\ \A n \in 1..Len(lines) : lines'[n] = lines[n] /\ basis'[n] = basis[n]
    BY <1>2, <1>4, <1>5
  <1>8. \A a \in Authors : read'[a] = NotReading \/ read'[a] \in 0..Len(lines')
    BY <1>7 DEF LedgerFileInv, ReviewsWhatWasRead
  <1>9. ASSUME NEW n \in 1..Len(lines)
        PROVE  /\ basis'[n] \in 0..(n - 1)
               /\ lines'[n].action = "reviewed" =>
                     \E j \in 1..basis'[n] :
                        /\ lines'[j].candidate = lines'[n].candidate
                        /\ lines'[n].supersedes = lines'[j].id
                        /\ \A m \in 1..basis'[n] : lines'[m].candidate = lines'[n].candidate => m <= j
    <2>1. /\ basis[n] \in 0..(n - 1)
          /\ lines[n].action = "reviewed" =>
                \E j \in 1..basis[n] :
                   /\ lines[j].candidate = lines[n].candidate
                   /\ lines[n].supersedes = lines[j].id
                   /\ \A m \in 1..basis[n] : lines[m].candidate = lines[n].candidate => m <= j
      BY <1>7 DEF LedgerFileInv, ReviewsWhatWasRead
    <2>2. basis'[n] = basis[n] /\ lines'[n] = lines[n]
      BY <1>7
    <2>3. \A m \in 1..basis[n] : m \in 1..Len(lines)
      BY <2>1
    <2>4. \A m \in 1..basis[n] : lines'[m] = lines[m]
      BY <1>7, <2>3
    <2>5. QED
      BY <2>1, <2>2, <2>4
  <1>10. /\ k \in 0..(last - 1)
         /\ e.action = "reviewed" =>
               \E j \in 1..k :
                  /\ lines'[j].candidate = e.candidate
                  /\ e.supersedes = lines'[j].id
                  /\ \A m \in 1..k : lines'[m].candidate = e.candidate => m <= j
    <2>1. ASSUME e.action = "reviewed"
          PROVE  \E j \in 1..k :
                    /\ lines'[j].candidate = e.candidate
                    /\ e.supersedes = lines'[j].id
                    /\ \A m \in 1..k : lines'[m].candidate = e.candidate => m <= j
      <3> DEFINE j == LastIn(Of(copy, c))
      <3>1. /\ j \in 1..k /\ Latest(copy, c) = copy[j] /\ Latest(copy, c).candidate = c
            /\ \A m \in Of(copy, c) : m <= j
        BY <1>1, <1>3, <2>1, LatestIsALine
      <3>2. \A m \in 1..k : lines'[m] = copy[m]
        BY <1>1, <1>7
      <3>3. \A m \in 1..k : lines'[m].candidate = c => m \in Of(copy, c)
        BY <1>1, <3>2 DEF Of
      <3> HIDE DEF j
      <3>4. QED
        BY <1>3, <2>1, <3>1, <3>2, <3>3
    <2>2. QED
      BY <1>4, <2>1
  <1>11. ReviewsWhatWasRead'
    <2>1. ASSUME NEW n \in DOMAIN lines'
          PROVE  /\ basis'[n] \in 0..(n - 1)
                 /\ lines'[n].action = "reviewed" =>
                       \E j \in 1..basis'[n] :
                          /\ lines'[j].candidate = lines'[n].candidate
                          /\ lines'[n].supersedes = lines'[j].id
                          /\ \A m \in 1..basis'[n] :
                                lines'[m].candidate = lines'[n].candidate => m <= j
      <3>1. n \in 1..Len(lines) \/ n = last
        BY <1>4, <1>7
      <3>2. CASE n \in 1..Len(lines)
        BY <1>9, <3>2
      <3>3. CASE n = last
        <4>1. lines'[n] = e /\ basis'[n] = k
          BY <1>7, <3>3
        <4> HIDE DEF last
        <4>2. QED
          BY <1>10, <3>3, <4>1
      <3>4. QED
        BY <3>1, <3>2, <3>3
    <2>2. QED
      BY <1>8, <2>1 DEF ReviewsWhatWasRead, NotReading
  <1>12. QED
    BY <1>2, <1>5, <1>6, <1>11 DEF LedgerFileInv

\* Whoever reads or adds keeps it, and lines are only added.
LEMMA AuthorKeeps ==
    ASSUME LedgerFileInv, AuthorNext
    PROVE  LedgerFileInv' /\ (lines' = lines \/ \E e \in EventLines : lines' = Append(lines, e))
  <1>1. PICK a \in Authors :
           \/ ReadsFile(a)
           \/ \E c \in CandidateIds, i \in Instances, sound, renumbered \in BOOLEAN :
                 AddsLine(a, c, i, sound, renumbered)
    BY DEF AuthorNext
  <1>2. /\ lines \in Seq(EventLines) /\ Len(lines) \in Nat
        /\ read \in [Authors -> Nat \cup {NotReading}]
    BY DEF LedgerFileInv, LedgerFileTypes
  <1>3. CASE ReadsFile(a)
    <2>1. /\ read' = [read EXCEPT ![a] = Len(lines)] /\ UNCHANGED <<lines, basis>>
          /\ NotReading' = NotReading
      BY <1>3 DEF ReadsFile, NotReading
    <2>2. LedgerFileTypes'
      BY <1>2, <2>1 DEF LedgerFileInv, LedgerFileTypes
    <2>3. \A b \in Authors : read'[b] = NotReading \/ read'[b] \in 0..Len(lines)
      BY <1>2, <2>1 DEF LedgerFileInv, ReviewsWhatWasRead
    <2>4. QED
      BY <2>1, <2>2, <2>3 DEF LedgerFileInv, ReviewsWhatWasRead
  <1>4. ASSUME NEW c \in CandidateIds, NEW i \in Instances, NEW sound \in BOOLEAN,
               NEW renumbered \in BOOLEAN, AddsLine(a, c, i, sound, renumbered)
        PROVE  LedgerFileInv' /\ \E e \in EventLines : lines' = Append(lines, e)
    <2> DEFINE numbered == IF renumbered THEN lines ELSE Prefix(read[a])
    <2>1. /\ read[a] \in 0..Len(lines)
          /\ lines' = Append(lines, Event(c, i, sound, Prefix(read[a]), numbered))
          /\ basis' = Append(basis, read[a])
          /\ read' = [read EXCEPT ![a] = NotReading]
      BY <1>4 DEF AddsLine, LedgerFileInv, ReviewsWhatWasRead
    <2>2. numbered \in Seq(EventLines)
      BY <1>2, <2>1, FirstLines DEF Prefix
    <2>3. /\ read' \in [Authors -> Nat \cup {NotReading}]
          /\ \A b \in Authors : read'[b] = NotReading \/ read'[b] = read[b]
      BY <1>2, <2>1
    <2> HIDE DEF numbered
    <2>4. QED
      BY <2>1, <2>2, <2>3, LineKeeps
  <1>5. QED
    BY <1>1, <1>3, <1>4

\* So does an author who has just read the file.
LEMMA GrowsKeeps ==
    ASSUME LedgerFileInv, NEW c \in CandidateIds, NEW i \in Instances, Grows(c, i)
    PROVE  LedgerFileInv' /\ \E e \in EventLines : lines' = Append(lines, e)
  <1>1. /\ lines \in Seq(EventLines) /\ Len(lines) \in Nat
        /\ read \in [Authors -> Nat \cup {NotReading}]
    BY DEF LedgerFileInv, LedgerFileTypes
  <1>2. Prefix(Len(lines)) = lines
    BY <1>1, SubSeqFull DEF Prefix
  <1>3. /\ lines' = Append(lines, Event(c, i, TRUE, Prefix(Len(lines)), lines))
        /\ basis' = Append(basis, Len(lines)) /\ read' = read
    BY <1>2 DEF Grows
  <1>4. TRUE \in BOOLEAN /\ Len(lines) \in 0..Len(lines)
    BY <1>1
  <1>5. \A a \in Authors : read'[a] = NotReading \/ read'[a] = read[a]
    BY <1>3
  <1>6. read' \in [Authors -> Nat \cup {NotReading}]
    BY <1>1, <1>3
  <1>7. QED
    BY <1>1, <1>3, <1>4, <1>5, <1>6, LineKeeps

\* The numbers of a ledger that is accepted are those of one line each, so what
\* a review supersedes is the line its author meant.
LEMMA InformedByInvariant == LedgerFileInv => ReviewsAreInformed
  <1> SUFFICES ASSUME LedgerFileInv, Valid(lines),
                      NEW n \in DOMAIN lines, NEW m \in 1..(n - 1),
                      lines[m].candidate = lines[n].candidate
               PROVE  m <= basis[n]
    BY DEF ReviewsAreInformed
  <1> DEFINE before == Of(SubSeq(lines, 1, n - 1), lines[n].candidate)
  <1>1. /\ lines \in Seq(EventLines) /\ Len(lines) \in Nat /\ n \in 1..Len(lines)
        /\ m \in Nat /\ n \in Nat /\ n - 1 \in 0..Len(lines)
    BY DEF LedgerFileInv, LedgerFileTypes
  <1>2. before = {j \in 1..(n - 1) : lines[j].candidate = lines[n].candidate}
    <2> DEFINE events == SubSeq(lines, 1, n - 1)
    <2>1. DOMAIN events = 1..(n - 1) /\ \A j \in 1..(n - 1) : events[j] = lines[j]
      BY <1>1, FirstLines
    <2> HIDE DEF events
    <2>2. Of(events, lines[n].candidate) = {j \in 1..(n - 1) : lines[j].candidate = lines[n].candidate}
      BY <2>1 DEF Of
    <2>3. QED
      BY <2>2 DEF events
  <1>3. FollowsLatest(lines, n) /\ \A j, k \in 1..(n - 1) : j < k => lines[j].id # lines[k].id
    <2>1. \A k \in DOMAIN lines : \A j \in 1..(k - 1) : lines[j].id # lines[k].id
      BY DEF Valid
    <2>2. \A j, k \in 1..(n - 1) : j < k => k \in DOMAIN lines /\ j \in 1..(k - 1)
      BY <1>1
    <2>3. QED
      BY <2>1, <2>2 DEF Valid
  <1> HIDE DEF before
  <1>4. m \in before
    BY <1>2
  <1>5. lines[n].action = "reviewed" /\ lines[n].supersedes = lines[LastIn(before)].id
    <2>1. lines[n].action \in {"registered", "reviewed"}
      <3>1. lines[n] \in EventLines
        BY <1>1
      <3>2. QED
        BY <3>1 DEF EventLines
    <2>2. QED
      BY <1>3, <1>4, <2>1 DEF FollowsLatest, before
  <1>6. PICK k \in 1..basis[n] :
           /\ lines[k].candidate = lines[n].candidate
           /\ lines[n].supersedes = lines[k].id
           /\ \A j \in 1..basis[n] : lines[j].candidate = lines[n].candidate => j <= k
    BY <1>5 DEF LedgerFileInv, ReviewsWhatWasRead
  <1>7. basis[n] \in 0..(n - 1)
    BY DEF LedgerFileInv, ReviewsWhatWasRead
  <1>8. LastIn(before) \in 1..(n - 1) /\ m <= LastIn(before)
    <2>1. before \in SUBSET (1..(n - 1)) /\ before # {} /\ n - 1 \in Nat
      BY <1>1, <1>2, <1>4
    <2>2. QED
      BY <1>4, <2>1, LastLineExists
  <1>9. k = LastIn(before)
    <2>1. lines[k].id = lines[LastIn(before)].id /\ k \in 1..(n - 1)
      BY <1>1, <1>5, <1>6, <1>7
    <2>2. ~(k < LastIn(before)) /\ ~(LastIn(before) < k)
      BY <1>3, <1>8, <2>1
    <2>3. QED
      BY <1>1, <1>8, <2>1, <2>2
  <1>10. QED
    BY <1>1, <1>6, <1>7, <1>8, <1>9

-------------------------------------------------------------------------------
(* Reviews and captures *)

ReviewCases == [candidate : CandidateIds, instance : Instances]

CaptureCases == [candidate : CandidateIds, instance : Instances, image : Images]

\* The first lines that a review or a capture took are still the first lines,
\* and tell of each of its cases what it noted.
CasesStand(through, cases) ==
    /\ cases \in Seq(CaptureCases)
    /\ through \in 0..Len(lines)
    /\ \A n \in DOMAIN cases :
          /\ cases[n].candidate \in Known(Prefix(through))
          /\ cases[n].instance = Latest(Prefix(through), cases[n].candidate).instance

ReviewStands(r, p) ==
    /\ r.candidate \in Known(Prefix(p))
    /\ r.instance = Latest(Prefix(p), r.candidate).instance
    /\ \A other \in Known(Prefix(p)) \ {r.candidate} : Latest(Prefix(p), other).instance # r.instance

EvidenceInv ==
    /\ replay \in ReplayFiles
    /\ capture.from = <<>> \/ capture.from \in ReplayFiles
    /\ capture = Idle \/ capture.from \in ReplayFiles
    /\ capture = [through |-> capture.through, todo |-> capture.todo,
                  from |-> capture.from, cases |-> capture.cases]
    /\ capture.todo \subseteq Known(Prefix(capture.through))
    /\ CasesStand(capture.through, capture.cases)
    /\ CasesStand(captured.through, captured.cases)
    /\ reviews \subseteq ReviewCases
    /\ \A r \in reviews : \E p \in 0..Len(lines) : ReviewStands(r, p)

CandidatesInv == LedgerFileInv /\ EvidenceInv

\* No cases stand on any lines.
LEMMA NothingKnownAtFirst ==
    ASSUME lines \in Seq(EventLines)
    PROVE  CasesStand(0, <<>>)
  BY DEF CasesStand

\* At first nothing was reviewed or captured.
LEMMA CandidatesStart == CandidatesInit => CandidatesInv
  <1> SUFFICES ASSUME CandidatesInit PROVE CandidatesInv
    OBVIOUS
  <1>1. LedgerFileInv
    BY LedgerFileStarts DEF CandidatesInit
  <1>2. CasesStand(0, <<>>)
    BY <1>1, NothingKnownAtFirst DEF LedgerFileInv, LedgerFileTypes
  <1>3. replay \in ReplayFiles
    <2>1. PICK i \in Instances, image \in Images : TRUE
      BY EvidenceAssumption
    <2> DEFINE g == [c \in CandidateIds |-> [instance |-> i, image |-> image]]
    <2>2. g \in ReplayFiles /\ \A c, d \in CandidateIds : g[c] = g[d]
      BY DEF ReplayFiles
    <2> HIDE DEF g
    <2>3. \E f \in ReplayFiles : \A c, d \in CandidateIds : f[c] = f[d]
      BY <2>2
    <2>4. replay = CHOOSE f \in ReplayFiles : \A c, d \in CandidateIds : f[c] = f[d]
      BY DEF CandidatesInit
    <2>5. QED
      BY <2>3, <2>4
  <1>4. EvidenceInv
    BY <1>2, <1>3 DEF CandidatesInit, EvidenceInv, Idle, NoRecord
  <1>5. QED
    BY <1>1, <1>4 DEF CandidatesInv

\* A line more, and what was noted of the first ones stands.
LEMMA EvidenceOutlivesLines ==
    ASSUME CandidatesInv, NEW e \in EventLines, lines' = Append(lines, e), LedgerFileInv',
           UNCHANGED <<replay, replaced, capture, captured, reviews>>
    PROVE  EvidenceInv'
  <1>1. lines \in Seq(EventLines) /\ Len(lines) \in Nat /\ Len(lines') = Len(lines) + 1
    BY DEF CandidatesInv, LedgerFileInv, LedgerFileTypes
  <1>2. \A k \in 0..Len(lines) : k \in 0..Len(lines') /\ Prefix(k)' = Prefix(k)
    <2>1. \A k \in 0..Len(lines) : SubSeq(lines', 1, k) = SubSeq(lines, 1, k)
      BY <1>1, FirstLinesStay
    <2>2. QED
      BY <1>1, <2>1 DEF Prefix
  <1>3. \A r \in reviews, p \in 0..Len(lines) : ReviewStands(r, p) => ReviewStands(r, p)'
    BY <1>2 DEF ReviewStands
  <1>4. CasesStand(capture.through, capture.cases)' /\ CasesStand(captured.through, captured.cases)'
    <2>1. capture.through \in 0..Len(lines) /\ captured.through \in 0..Len(lines)
      BY DEF CandidatesInv, EvidenceInv, CasesStand
    <2>2. /\ Prefix(capture.through)' = Prefix(capture.through)
          /\ Prefix(captured.through)' = Prefix(captured.through)
          /\ capture' = capture /\ captured' = captured
      BY <1>2, <2>1 DEF Prefix
    <2>3. QED
      BY <1>2, <2>1, <2>2 DEF CandidatesInv, EvidenceInv, CasesStand
  <1>5. \A r \in reviews' : \E p \in 0..Len(lines') : ReviewStands(r, p)'
    BY <1>2, <1>3 DEF CandidatesInv, EvidenceInv
  <1>6. capture'.todo \subseteq Known(Prefix(capture.through))'
    BY <1>2 DEF CandidatesInv, EvidenceInv, CasesStand
  <1>7. QED
    BY <1>4, <1>5, <1>6 DEF CandidatesInv, EvidenceInv

\* A review compares what it passes with all that its lines know.
LEMMA ReviewKeeps ==
    ASSUME CandidatesInv, NEW through \in 1..MaxLines, NEW chosen \in SUBSET CandidateIds,
           ReviewOf(through, chosen)
    PROVE  EvidenceInv'
  <1> DEFINE events == Prefix(through)
             passed == {[candidate |-> c, instance |-> Latest(events, c).instance] : c \in chosen}
  <1>1. /\ through \in 0..Len(lines) /\ chosen \subseteq Known(events)
        /\ \A c \in chosen : ~Conflicts(events, c, chosen)
        /\ reviews' = reviews \cup passed /\ lines' = lines
        /\ UNCHANGED <<replay, capture, captured>>
    BY DEF ReviewOf, ledgerFile, CandidatesInv, LedgerFileInv, LedgerFileTypes
  <1>2. events \in Seq(EventLines)
    BY <1>1, FirstLines DEF CandidatesInv, LedgerFileInv, LedgerFileTypes, Prefix
  <1> HIDE DEF events
  <1>3. \A c \in chosen : Latest(events, c) \in EventLines
    BY <1>1, <1>2, LatestIsALine
  <1>4. passed \subseteq ReviewCases
    BY <1>3 DEF ReviewCases, EventLines
  <1>5. ASSUME NEW r \in passed
        PROVE  ReviewStands(r, through)
    <2>1. PICK c \in chosen : r = [candidate |-> c, instance |-> Latest(events, c).instance]
      OBVIOUS
    <2>2. r.candidate = c /\ r.instance = Latest(events, c).instance
      BY <2>1
    <2>3. \A other \in Known(events) \ {c} : Latest(events, other).instance # Latest(events, c).instance
      BY <1>1 DEF Conflicts, Inventory
    <2>4. QED
      BY <1>1, <2>2, <2>3 DEF ReviewStands, events
  <1> HIDE DEF passed
  <1>6. \A r \in reviews' : \E p \in 0..Len(lines) : ReviewStands(r, p)
    BY <1>1, <1>5 DEF CandidatesInv, EvidenceInv
  <1>7. \A r, p : ReviewStands(r, p)' <=> ReviewStands(r, p)
    BY <1>1 DEF ReviewStands, Prefix
  <1>8. \A r \in reviews' : \E p \in 0..Len(lines') : ReviewStands(r, p)'
    BY <1>1, <1>6, <1>7
  <1>9. QED
    BY <1>1, <1>4, <1>8 DEF CandidatesInv, EvidenceInv, CasesStand, Prefix

\* What a review has passed stands on lines that stay.
LEMMA ReviewsStay ==
    ASSUME EvidenceInv, UNCHANGED <<lines, reviews>>
    PROVE  \A r \in reviews' : \E p \in 0..Len(lines') : ReviewStands(r, p)'
  <1>1. \A r \in reviews, p \in 0..Len(lines) : ReviewStands(r, p)' <=> ReviewStands(r, p)
    BY DEF ReviewStands, Prefix
  <1>2. QED
    BY <1>1 DEF EvidenceInv

\* A capture begins with no cases.
LEMMA CaptureStartKeeps ==
    ASSUME CandidatesInv, NEW through \in 1..MaxLines, NEW chosen \in SUBSET CandidateIds,
           CaptureStarts(through, chosen)
    PROVE  EvidenceInv'
  <1>1. /\ through \in 0..Len(lines) /\ chosen \subseteq Known(Prefix(through))
        /\ capture' = [through |-> through, todo |-> chosen, from |-> replay, cases |-> <<>>]
        /\ UNCHANGED <<lines, replay, captured, reviews>>
    BY DEF CaptureStarts, ledgerFile, CandidatesInv, LedgerFileInv, LedgerFileTypes
  <1>2. CasesStand(through, <<>>)
    BY <1>1 DEF CasesStand
  <1>3. QED
    BY <1>1, <1>2 DEF CandidatesInv, EvidenceInv, CasesStand, ReviewStands, Prefix

\* The case that is added says what the first lines say.
LEMMA ProbeImageKeeps ==
    ASSUME CandidatesInv, NEW c \in CandidateIds, ProbeImage(c)
    PROVE  EvidenceInv'
  <1> DEFINE through == capture.through
             event == Latest(Prefix(through), c)
             case == [candidate |-> c, instance |-> event.instance, image |-> capture.from[c].image]
             longer == Append(capture.cases, case)
  <1>1. /\ c \in capture.todo
        /\ capture' = [capture EXCEPT !.todo = @ \ {c}, !.cases = longer]
        /\ UNCHANGED <<lines, replay, captured, reviews>>
    BY DEF ProbeImage, ledgerFile
  <1>2. capture' = [through |-> through, todo |-> capture.todo \ {c}, from |-> capture.from,
                    cases |-> longer]
    BY <1>1 DEF CandidatesInv, EvidenceInv
  <1>3. through \in 0..Len(lines) /\ c \in Known(Prefix(through)) /\ capture.cases \in Seq(CaptureCases)
    BY <1>1 DEF CandidatesInv, EvidenceInv, CasesStand
  <1>4. Prefix(through) \in Seq(EventLines)
    BY <1>3, FirstLines DEF CandidatesInv, LedgerFileInv, LedgerFileTypes, Prefix
  <1>5. event \in EventLines
    BY <1>3, <1>4, LatestIsALine
  <1>6. capture.from \in ReplayFiles
    <2>1. capture # Idle
      BY <1>1 DEF Idle
    <2>2. QED
      BY <2>1 DEF CandidatesInv, EvidenceInv
  <1>7. case \in CaptureCases
    BY <1>5, <1>6 DEF CaptureCases, EventLines, ReplayFiles
  <1>8. case.candidate = c /\ case.instance = event.instance
    OBVIOUS
  <1> HIDE DEF case
  <1>9. /\ longer \in Seq(CaptureCases) /\ DOMAIN longer = 1..(Len(capture.cases) + 1)
        /\ DOMAIN capture.cases = 1..Len(capture.cases) /\ Len(capture.cases) \in Nat
        /\ longer[Len(capture.cases) + 1] = case
        /\ \A n \in 1..Len(capture.cases) : longer[n] = capture.cases[n]
    BY <1>3, <1>7
  <1> HIDE DEF longer
  <1>10. \A n \in DOMAIN longer : longer[n] = case \/ \E m \in DOMAIN capture.cases : longer[n] = capture.cases[m]
    BY <1>9
  <1>11. CasesStand(through, longer)
    BY <1>3, <1>8, <1>9, <1>10 DEF CandidatesInv, EvidenceInv, CasesStand
  <1>12. /\ capture'.through = through /\ capture'.todo = capture.todo \ {c}
         /\ capture'.from = capture.from /\ capture'.cases = longer
    BY <1>2
  <1> HIDE DEF through, event
  <1>13. CasesStand(capture.through, capture.cases)' /\ CasesStand(captured.through, captured.cases)'
    BY <1>1, <1>11, <1>12 DEF CandidatesInv, EvidenceInv, CasesStand, Prefix
  <1>14. capture'.todo \subseteq Known(Prefix(capture.through))'
    BY <1>1, <1>12 DEF CandidatesInv, EvidenceInv, Prefix, through
  <1>15. \A r \in reviews' : \E p \in 0..Len(lines') : ReviewStands(r, p)'
    BY <1>1, ReviewsStay DEF CandidatesInv
  <1>16. QED
    BY <1>1, <1>2, <1>6, <1>12, <1>13, <1>14, <1>15 DEF CandidatesInv, EvidenceInv

\* The record is what the capture noted; or there is none.
LEMMA CaptureOverKeeps ==
    ASSUME CandidatesInv, CaptureFails \/ CaptureEnds
    PROVE  EvidenceInv'
  <1>1. /\ capture' = Idle /\ UNCHANGED <<lines, replay, reviews>>
        /\ \/ captured' = captured
           \/ captured' = [through |-> capture.through, replay |-> replay, cases |-> capture.cases]
    BY DEF CaptureFails, CaptureEnds, ledgerFile
  <1>2. CasesStand(captured.through, captured.cases)'
    <2>1. CASE captured' = captured
      BY <1>1, <2>1 DEF CandidatesInv, EvidenceInv, CasesStand, Prefix
    <2>2. CASE captured' = [through |-> capture.through, replay |-> replay, cases |-> capture.cases]
      <3>1. captured'.through = capture.through /\ captured'.cases = capture.cases
        BY <2>2
      <3>2. QED
        BY <1>1, <3>1 DEF CandidatesInv, EvidenceInv, CasesStand, Prefix
    <2>3. QED
      BY <1>1, <2>1, <2>2
  <1>3. CasesStand(0, <<>>)
    BY NothingKnownAtFirst DEF CandidatesInv, LedgerFileInv, LedgerFileTypes
  <1>4. /\ capture'.through = 0 /\ capture'.cases = <<>> /\ capture'.todo = {} /\ capture'.from = <<>>
    BY <1>1 DEF Idle
  <1>5. CasesStand(capture.through, capture.cases)'
    BY <1>1, <1>3, <1>4 DEF CasesStand, Prefix
  <1>6. \A r \in reviews' : \E p \in 0..Len(lines') : ReviewStands(r, p)'
    BY <1>1, ReviewsStay DEF CandidatesInv
  <1>7. QED
    BY <1>1, <1>2, <1>4, <1>5, <1>6 DEF CandidatesInv, EvidenceInv, Idle

\* Replay evidence that is replaced changes no case.
LEMMA ReplaceKeeps ==
    ASSUME CandidatesInv, NEW c \in CandidateIds, NEW i \in Instances, NEW image \in Images,
           ReplaysAgain(c, i, image)
    PROVE  EvidenceInv'
  <1>1. /\ replay' = [replay EXCEPT ![c] = [instance |-> i, image |-> image]]
        /\ UNCHANGED <<lines, capture, captured, reviews>>
    BY DEF ReplaysAgain, ledgerFile
  <1>2. replay' \in ReplayFiles
    BY <1>1 DEF CandidatesInv, EvidenceInv, ReplayFiles
  <1>3. QED
    BY <1>1, <1>2 DEF CandidatesInv, EvidenceInv, CasesStand, ReviewStands, Prefix

\* A file that is left alone stays what it was.
LEMMA LedgerStays ==
    ASSUME LedgerFileInv, UNCHANGED ledgerFile
    PROVE  LedgerFileInv'
  BY DEF ledgerFile, LedgerFileInv, LedgerFileTypes, ReviewsWhatWasRead, NotReading

\* Each step of authors, reviews and captures keeps all of it.
LEMMA CandidatesKept ==
    ASSUME CandidatesInv, ReviewNext \/ CaptureNext \/ UNCHANGED candidateVars
    PROVE  CandidatesInv'
  <1>1. ASSUME LedgerFileInv', lines' = lines \/ \E e \in EventLines : lines' = Append(lines, e),
               UNCHANGED <<replay, replaced, capture, captured, reviews>>
        PROVE  CandidatesInv'
    <2>1. CASE lines' = lines
      <3>1. EvidenceInv'
        BY <1>1, <2>1 DEF CandidatesInv, EvidenceInv, CasesStand, ReviewStands, Prefix
      <3>2. QED
        BY <1>1, <3>1 DEF CandidatesInv
    <2>2. QED
      BY <1>1, <2>1, EvidenceOutlivesLines DEF CandidatesInv
  <1>2. CASE UNCHANGED candidateVars
    BY <1>2 DEF candidateVars, ledgerFile, CandidatesInv, EvidenceInv, CasesStand, ReviewStands,
           Prefix, LedgerFileInv, LedgerFileTypes, ReviewsWhatWasRead, NotReading
  <1>3. CASE ReviewNext
    <2>1. CASE AuthorNext /\ UNCHANGED <<replay, replaced, capture, captured, reviews>>
      BY <1>1, <2>1, AuthorKeeps DEF CandidatesInv
    <2>2. ASSUME NEW n \in 1..MaxLines, NEW chosen \in SUBSET CandidateIds, ReviewOf(n, chosen)
          PROVE  CandidatesInv'
      <3>1. EvidenceInv' /\ UNCHANGED ledgerFile
        BY <2>2, ReviewKeeps DEF ReviewOf
      <3>2. QED
        BY <3>1, LedgerStays DEF CandidatesInv
    <2>3. QED
      BY <1>3, <2>1, <2>2 DEF ReviewNext
  <1>4. CASE CaptureNext
    <2>1. ASSUME NEW c \in CandidateIds, NEW i \in Instances, Grows(c, i),
                 UNCHANGED <<replay, replaced, capture, captured, reviews>>
          PROVE  CandidatesInv'
      BY <1>1, <2>1, GrowsKeeps DEF CandidatesInv
    <2>2. ASSUME NEW n \in 1..MaxLines, NEW chosen \in SUBSET CandidateIds, CaptureStarts(n, chosen)
          PROVE  CandidatesInv'
      <3>1. EvidenceInv' /\ UNCHANGED ledgerFile
        BY <2>2, CaptureStartKeeps DEF CaptureStarts
      <3>2. QED
        BY <3>1, LedgerStays DEF CandidatesInv
    <2>3. ASSUME NEW c \in CandidateIds, ProbeImage(c)
          PROVE  CandidatesInv'
      <3>1. EvidenceInv' /\ UNCHANGED ledgerFile
        BY <2>3, ProbeImageKeeps DEF ProbeImage
      <3>2. QED
        BY <3>1, LedgerStays DEF CandidatesInv
    <2>4. CASE CaptureFails \/ CaptureEnds
      <3>1. EvidenceInv' /\ UNCHANGED ledgerFile
        BY <2>4, CaptureOverKeeps DEF CaptureFails, CaptureEnds
      <3>2. QED
        BY <3>1, LedgerStays DEF CandidatesInv
    <2>5. ASSUME NEW c \in CandidateIds, NEW i \in Instances, NEW image \in Images,
                 ReplaysAgain(c, i, image)
          PROVE  CandidatesInv'
      <3>1. EvidenceInv' /\ UNCHANGED ledgerFile
        BY <2>5, ReplaceKeeps DEF ReplaysAgain
      <3>2. QED
        BY <3>1, LedgerStays DEF CandidatesInv
    <2>6. QED
      BY <1>4, <2>1, <2>2, <2>3, <2>4, <2>5 DEF CaptureNext
  <1>5. QED
    BY <1>2, <1>3, <1>4

\* Of two reviews the one that read more lines knew the other's candidate: the
\* two have the same instance only if an event in between gave it another one.
LEMMA LaterReviewKnows ==
    ASSUME CandidatesInv, NEW r \in reviews, NEW s \in reviews,
           NEW p \in 0..Len(lines), NEW q \in 0..Len(lines), p <= q,
           ReviewStands(r, p), ReviewStands(s, q),
           r.candidate # s.candidate, r.instance = s.instance
    PROVE  Renamed(r.candidate)
  <1> DEFINE c == r.candidate
             early == Prefix(p)
             late == Prefix(q)
  <1>1. lines \in Seq(EventLines) /\ Len(lines) \in Nat
    BY DEF CandidatesInv, LedgerFileInv, LedgerFileTypes
  <1>2. /\ early \in Seq(EventLines) /\ DOMAIN early = 1..p /\ \A n \in 1..p : early[n] = lines[n]
        /\ late \in Seq(EventLines) /\ DOMAIN late = 1..q /\ \A n \in 1..q : late[n] = lines[n]
    BY <1>1, FirstLines DEF Prefix
  <1>3. c \in Known(early) /\ r.instance = Latest(early, c).instance
    BY DEF ReviewStands
  <1>4. /\ s.instance = Latest(late, s.candidate).instance
        /\ \A other \in Known(late) \ {s.candidate} : Latest(late, other).instance # s.instance
    BY DEF ReviewStands
  <1> HIDE DEF early, late
  <1>5. PICK m \in 1..p : early[m].candidate = c /\ Latest(early, c) = early[m]
    <2>1. /\ LastIn(Of(early, c)) \in DOMAIN early
          /\ Latest(early, c) = early[LastIn(Of(early, c))] /\ Latest(early, c).candidate = c
      BY <1>2, <1>3, LatestIsALine
    <2>2. QED
      BY <1>2, <2>1
  <1>6. m \in 1..q /\ m \in DOMAIN lines /\ late[m] = lines[m] /\ early[m] = lines[m]
    BY <1>1, <1>2
  <1>7. c \in Known(late)
    BY <1>2, <1>5, <1>6 DEF Known
  <1>8. PICK n \in 1..q : late[n].candidate = c /\ Latest(late, c) = late[n]
    <2>1. /\ LastIn(Of(late, c)) \in DOMAIN late
          /\ Latest(late, c) = late[LastIn(Of(late, c))] /\ Latest(late, c).candidate = c
      BY <1>2, <1>7, LatestIsALine
    <2>2. QED
      BY <1>2, <2>1
  <1>9. n \in DOMAIN lines /\ late[n] = lines[n]
    BY <1>1, <1>2
  <1>10. lines[m].instance # lines[n].instance
    <2>1. Latest(late, c).instance # s.instance
      BY <1>4, <1>7
    <2>2. Latest(early, c).instance = s.instance
      BY <1>3
    <2>3. QED
      BY <1>5, <1>6, <1>8, <1>9, <2>1, <2>2
  <1>11. QED
    BY <1>5, <1>6, <1>8, <1>9, <1>10 DEF Renamed, Of

\* Of any two reviews one has read no fewer lines than the other.
LEMMA StandsByInvariant == CandidatesInv => EvidenceStands
  <1> SUFFICES ASSUME CandidatesInv PROVE EvidenceStands
    OBVIOUS
  <1>1. ASSUME NEW r \in reviews, NEW s \in reviews,
               r.candidate # s.candidate, r.instance = s.instance
        PROVE  Renamed(r.candidate) \/ Renamed(s.candidate)
    <2>1. PICK p \in 0..Len(lines) : ReviewStands(r, p)
      BY DEF CandidatesInv, EvidenceInv
    <2>2. PICK q \in 0..Len(lines) : ReviewStands(s, q)
      BY DEF CandidatesInv, EvidenceInv
    <2>3. p <= q \/ q <= p
      OBVIOUS
    <2>4. QED
      BY <1>1, <2>1, <2>2, <2>3, LaterReviewKnows
  <1>2. ASSUME CaptureValid(captured), NEW n \in DOMAIN captured.cases
        PROVE  LET case == captured.cases[n] IN
                  /\ case.image = captured.replay[case.candidate].image
                  /\ case.instance = Latest(Prefix(captured.through), case.candidate).instance
    BY <1>2 DEF CandidatesInv, EvidenceInv, CasesStand, CaptureValid, CaseAgrees
  <1>3. QED
    BY <1>1, <1>2 DEF EvidenceStands

-------------------------------------------------------------------------------
(* Among the other scripts *)

\* Phase 6 does nothing to the archive that the pipeline does not do.
LEMMA PhaseRunsThePipeline == PhaseSpec => Spec
  <1>1. PhaseInit => Init
    BY DEF PhaseInit
  <1>2. [PhaseNext]_phaseVars => [Next]_vars
    BY DEF PhaseNext, phaseVars, Archive, Load, Probe, Canary, Schedule, Candidacy
  <1>3. QED
    BY <1>1, <1>2, PTL DEF PhaseSpec, Spec

\* So all three hold of the scripts of Phase 6 together.
THEOREM ArchiveOfPhase6 ==
    PhaseSpec => [](AcquiredIsWhole /\ StagedIsThePinnedArchive /\ ClassifiedIsGenuine)
  BY PhaseRunsThePipeline, WholeArchive, StagedArchive, GenuineReview, PTL

-------------------------------------------------------------------------------
(* Each on its occasion *)

\* What stays of each while others have the occasion.
LEMMA ClaimStays == ClaimInv /\ UNCHANGED loadHealthVars => ClaimInv'
  BY DEF ClaimInv, loadHealthVars

\* A step of another script leaves host and attempts as they are.
LEMMA LoadStays == LoadInv /\ UNCHANGED <<hostVars, loadHealthVars>> => LoadInv'
  <1> SUFFICES ASSUME LoadInv, UNCHANGED <<hostVars, loadHealthVars>> PROVE LoadInv'
    OBVIOUS
  <1>1. MachineInv' /\ SupervisedInv' /\ AttemptInv'
    BY MachineIsLeft DEF LoadInv, loadHealthVars
  <1>2. ClaimInv' /\ ResultInv'
    BY ClaimStays DEF LoadInv, loadHealthVars, ResultInv, Accepted
  <1>3. QED
    BY <1>1, <1>2 DEF LoadInv

\* A step of another script leaves the probe as it is.
LEMMA ProbeStays == ProbeInv /\ UNCHANGED probe => ProbeInv'
  BY DEF ProbeInv

\* A step of another script leaves the canary as it is.
LEMMA CanaryStays == CanaryInv /\ UNCHANGED canaryVars => CanaryInv'
  <1> SUFFICES ASSUME CanaryInv, UNCHANGED canaryVars PROVE CanaryInv'
    OBVIOUS
  <1>1. UNCHANGED <<canary, serving, handler, accepted, denied>>
    BY DEF canaryVars, proxyVars
  <1>2. AskedSet' = AskedSet
    BY <1>1 DEF AskedSet
  <1>3. CanaryTypes' /\ ReleaseInOrder' /\ HeldIsKnown'
    BY <1>1, <1>2 DEF CanaryInv, CanaryTypes, ReleaseInOrder, HeldIsKnown, NothingFailed
  <1>4. ProxyInv'
    BY <1>1 DEF CanaryInv, ProxyInv
  <1>5. QED
    BY <1>3, <1>4 DEF CanaryInv

\* A step of another script leaves the schedule as it is.
LEMMA ScheduleStays == PocInv /\ UNCHANGED pocVars => PocInv'
  <1> SUFFICES ASSUME PocInv, UNCHANGED pocVars PROVE PocInv'
    OBVIOUS
  <1>1. UNCHANGED <<pocRun, rows, calls, seen, records, output>>
    BY DEF pocVars
  <1>2. PocTypes' /\ FileBeforeCalls'
    BY <1>1 DEF PocInv, PocTypes, FileBeforeCalls
  <1>3. RowsCounted' /\ RowsKept'
    BY <1>1 DEF PocInv, RowsCounted, RowsKept
  <1>4. FileShows'
    BY <1>1 DEF PocInv, FileShows
  <1>5. QED
    BY <1>2, <1>3, <1>4 DEF PocInv

\* Each script keeps its own; the machine is that of the load on its occasion
\* only, and on another one nothing is ever loaded.
PhaseInv ==
    /\ occasion = "load" => LoadInv
    /\ occasion # "load" => disk.result = "none"
    /\ ClaimInv /\ ProbeInv /\ CanaryInv /\ PocInv /\ CandidatesInv

\* All of it holds at first.
LEMMA PhaseStarts == PhaseInit => PhaseInv
  <1> SUFFICES ASSUME PhaseInit PROVE PhaseInv
    OBVIOUS
  <1>1. LoadInv /\ disk.result = "none"
    BY LoadStarts DEF PhaseInit, LoadHealthInit
  <1>2. ProbeInv /\ CanaryInv /\ PocInv /\ CandidatesInv
    BY ProbeStarts, CanaryStarts, ScheduleStarts, CandidatesStart DEF PhaseInit
  <1>3. QED
    BY <1>1, <1>2 DEF PhaseInv, LoadInv

\* Each occasion keeps its own and leaves the others.
LEMMA PhaseKept == PhaseInv /\ [PhaseNext]_phaseVars => PhaseInv'
  <1> SUFFICES ASSUME PhaseInv, [PhaseNext]_phaseVars PROVE PhaseInv'
    OBVIOUS
  <1>1. occasion' = occasion
    BY DEF PhaseNext, phaseVars
  <1>2. ProbeInv'
    BY ProbeKept, ProbeStays
       DEF PhaseInv, PhaseNext, phaseVars, Archive, Load, Probe, Canary, Schedule, Candidacy
  <1>3. CanaryInv'
    BY CanaryKept, CanaryStays
       DEF PhaseInv, PhaseNext, phaseVars, Archive, Load, Probe, Canary, Schedule, Candidacy
  <1>4. PocInv'
    BY ScheduleKept, ScheduleStays
       DEF PhaseInv, PhaseNext, phaseVars, Archive, Load, Probe, Canary, Schedule, Candidacy
  <1>5. CandidatesInv'
    BY CandidatesKept
       DEF PhaseInv, PhaseNext, phaseVars, Archive, Load, Probe, Canary, Schedule, Candidacy
  <1>6. CASE occasion = "load"
    <2>1. HostNext \/ UNCHANGED <<hostVars, loadHealthVars>>
      BY <1>6 DEF PhaseNext, phaseVars, Load
    <2>2. LoadInv'
      BY <1>6, <2>1, LoadKept, LoadStays DEF PhaseInv
    <2>3. QED
      BY <1>1, <1>2, <1>3, <1>4, <1>5, <1>6, <2>2 DEF PhaseInv, LoadInv
  <1>7. CASE occasion # "load"
    <2>1. UNCHANGED loadHealthVars
      BY <1>7 DEF PhaseNext, phaseVars, Archive, Probe, Canary, Schedule, Candidacy
    <2>2. ClaimInv' /\ disk'.result = "none"
      BY <1>7, <2>1, ClaimStays DEF PhaseInv, loadHealthVars
    <2>3. QED
      BY <1>1, <1>2, <1>3, <1>4, <1>5, <1>7, <2>2 DEF PhaseInv
  <1>8. QED
    BY <1>6, <1>7

\* So it holds in every state.
LEMMA PhaseHolds == PhaseSpec => []PhaseInv
  BY PhaseStarts, PhaseKept, PTL DEF PhaseSpec

\* An accepted load is about one life of one daemon, however many die and come
\* up again under its pid between two looks, and an accepted probe has stopped
\* nobody's process (run_local_model_load_health.py, run_cli_exit_probe.py).
THEOREM AcceptanceIsItsOwn == PhaseSpec => []AcceptedOnItsOwn
  <1>1. PhaseInv => AcceptedOnItsOwn
    <2> SUFFICES ASSUME PhaseInv PROVE AcceptedOnItsOwn
      OBVIOUS
    <2>1. AcceptedIsOneLife
      <3>1. CASE occasion = "load"
        BY <3>1, OneLifeByInvariant DEF PhaseInv
      <3>2. CASE occasion # "load"
        BY <3>2 DEF PhaseInv, AcceptedIsOneLife
      <3>3. QED
        BY <3>1, <3>2
    <2>2. QED
      BY <2>1, AloneByInvariant DEF PhaseInv, AcceptedOnItsOwn
  <1>2. QED
    BY <1>1, PhaseHolds, PTL

\* For any number of invocations, any of which may crash at any step: at most
\* one comes to the machine, claimed before; and a schedule of any length is
\* spent once (make_claim, phase6_minimum_poc.py).
THEOREM OneShotsSpentOnce == PhaseSpec => []OneShotsAreSpentOnce
  <1>1. PhaseInv => OneShotsAreSpentOnce
    BY SpentOnceByInvariant DEF PhaseInv, ClaimInv, ClaimedBeforeContact, OneShotsAreSpentOnce
  <1>2. QED
    BY <1>1, PhaseHolds, PTL

\* Whatever step of the canary raises and whatever stops fail, it asks all it
\* acquired to stop, the last first; and after a run that notes no failure the
\* threads of the proxy may go on taking requests, for any number of
\* connections, but accept none beyond those in hand (execute_canary,
\* LocalModelProxy.stop).
THEOREM CanaryAlwaysReleases == PhaseSpec => CanaryReleases
  <1>1. PhaseInv => ReleasedAtTheEnd
    BY ReleasesByInvariant DEF PhaseInv
  <1>2. PhaseInv /\ [PhaseNext]_phaseVars =>
           [NothingFailed =>
               accepted' + Cardinality(InHand') <= accepted + Cardinality(InHand)]_canaryVars
    <2>1. [PhaseNext]_phaseVars => CanaryNext \/ UNCHANGED canaryVars
      BY DEF PhaseNext, phaseVars, Archive, Load, Probe, Canary, Schedule, Candidacy
    <2>2. QED
      BY <2>1, HandOnlyEmpties DEF PhaseInv
  <1>3. QED
    BY <1>1, <1>2, PhaseHolds, PTL DEF PhaseSpec, CanaryReleases

\* For any authors, candidates and length of the ledger, in whatever order the
\* lines were merged (load_and_validate of validate_candidate_events.py).
THEOREM ReviewersAreInformed == PhaseSpec => []ReviewsAreInformed
  <1>1. PhaseInv => ReviewsAreInformed
    BY InformedByInvariant DEF PhaseInv, CandidatesInv
  <1>2. QED
    BY <1>1, PhaseHolds, PTL

\* For any prefixes that reviews and captures took, and any replacements of the
\* replay evidence (review_candidate_artifacts.py, capture_source_snapshots.py).
THEOREM EvidenceAlwaysStands == PhaseSpec => []EvidenceStands
  <1>1. PhaseInv => EvidenceStands
    BY StandsByInvariant DEF PhaseInv
  <1>2. QED
    BY <1>1, PhaseHolds, PTL
===============================================================================
