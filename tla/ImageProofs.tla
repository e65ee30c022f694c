---------------------------- MODULE ImageProofs ----------------------------
(***************************************************************************)
(* Proofs about image jobs, for any jobs, processes, contents, losses,     *)
(* budgets, grants, answers of the page and behaviour of persons: first    *)
(* that every stored, published, received and receipted original of a job  *)
(* is the one that was recorded first; then that a job costs one           *)
(* generation at most, that a conversation holds one unsettled generation  *)
(* at a time, that records name their own turns, and that a cancel holds.  *)
(***************************************************************************)
EXTENDS ImageArtifacts, TLAPS, SequenceTheorems, FiniteSetTheorems

-----------------------------------------------------------------------------
(* Originals. *)

\* Places of a command that holds a content or may come to hold one.
Working == {"export", "fetch", "intent", "bytes", "publish", "copy", "receipt"}
CommandFields == {"pc", "job", "n", "rev", "base", "obs", "late"}
Content == Hashes \cup {None}

Shape == DOMAIN proc = Procs /\ \A p \in Procs : DOMAIN proc[p] = CommandFields

\* Files and outputs hold contents.
ArtifactTypes ==
    /\ record \in [Jobs -> Content] /\ bytes \in [Jobs -> Content]
    /\ output \in [Jobs -> Content] /\ lateOutput \in [Jobs -> Content]
    /\ copied \in [Jobs -> Content] /\ receipt \in [Jobs -> Content]

\* What a command carries is what was recorded, or for a receiver what was published.
Carried(c) ==
    /\ c.pc \in Working => c.job \in Jobs
    /\ c.pc = "fetch" => c.obs \in {None, record[c.job]}
    /\ c.pc = "intent" => c.obs \in Hashes
    /\ c.pc \in {"bytes", "publish"} => c.obs # None /\ c.obs = record[c.job]
    /\ c.pc \in {"copy", "receipt"} => c.obs # None /\ c.obs \in {output[c.job], lateOutput[c.job]}

Backed ==
    \A j \in Jobs : /\ receipt[j] # None => receipt[j] \in {output[j], lateOutput[j]}
                    /\ copied[j] # None => copied[j] \in {output[j], lateOutput[j]}

ArtifactInv == ArtifactTypes /\ Shape /\ (\A p \in Procs : Carried(proc[p])) /\ OneOriginal /\ Backed

-----------------------------------------------------------------------------
(* The records of commands. *)

\* A command that the process begins, or the idle one, replaces the whole record.
LEMMA Replaced ==
    ASSUME Shape, NEW p \in Procs, NEW c, DOMAIN c = CommandFields, proc' = [proc EXCEPT ![p] = c]
    PROVE  Shape' /\ proc'[p] = c /\ \A q \in Procs \ {p} : proc'[q] = proc[q]
  BY DEF Shape

\* A new place and a new content leave the job as it is.
LEMMA Advanced ==
    ASSUME Shape, NEW p \in Procs, NEW pc, NEW h, proc' = [proc EXCEPT ![p].pc = pc, ![p].obs = h]
    PROVE  /\ Shape' /\ proc'[p].pc = pc /\ proc'[p].obs = h /\ proc'[p].job = proc[p].job
           /\ \A q \in Procs \ {p} : proc'[q] = proc[q]
  BY DEF Shape, CommandFields

\* So does a new place alone.
LEMMA Moved ==
    ASSUME Shape, NEW p \in Procs, NEW pc, proc' = [proc EXCEPT ![p].pc = pc]
    PROVE  /\ Shape' /\ proc'[p].pc = pc /\ proc'[p].obs = proc[p].obs /\ proc'[p].job = proc[p].job
           /\ \A q \in Procs \ {p} : proc'[q] = proc[q]
  BY DEF Shape, CommandFields

\* The idle command carries nothing.
LEMMA IdleShape == DOMAIN Idle = CommandFields /\ Idle.pc = "idle"
  BY DEF Idle, CommandFields

-----------------------------------------------------------------------------
(* The steps of ImageJob. *)

\* They touch neither what a working command carries nor its place, except that an export begins.
Outside(q) ==
    \/ proc'[q] = proc[q]
    \/ proc'[q].pc \notin Working
    \/ proc'[q].pc = "export" /\ proc'[q].job \in Jobs

LEMMA EnterOutside ==
    ASSUME Shape, NEW p \in Procs, NEW c, DOMAIN c = CommandFields, Enter(p, c),
           c.pc \notin Working \/ (c.pc = "export" /\ c.job \in Jobs)
    PROVE  Shape' /\ \A q \in Procs : Outside(q)
  <1>1. Shape' /\ proc'[p] = c /\ \A q \in Procs \ {p} : proc'[q] = proc[q]
    BY Replaced DEF Enter
  <1> QED BY <1>1 DEF Outside

LEMMA EndOutside ==
    ASSUME Shape, NEW p \in Procs, End(p)
    PROVE  Shape' /\ \A q \in Procs : Outside(q)
  <1>1. Shape' /\ proc'[p] = Idle /\ \A q \in Procs \ {p} : proc'[q] = proc[q]
    BY Replaced, IdleShape DEF End
  <1> QED BY <1>1, IdleShape DEF Outside, Working

LEMMA GoOutside ==
    ASSUME Shape, NEW p \in Procs, NEW pc, pc \notin Working, Go(p, pc)
    PROVE  Shape' /\ \A q \in Procs : Outside(q)
  <1>1. Shape' /\ proc'[p].pc = pc /\ \A q \in Procs \ {p} : proc'[q] = proc[q]
    BY Moved DEF Go
  <1> QED BY <1>1 DEF Outside

LEMMA KeptOutside ==
    ASSUME Shape, UNCHANGED proc
    PROVE  Shape' /\ \A q \in Procs : Outside(q)
  BY DEF Shape, Outside

LEMMA JobStepOutside ==
    ASSUME Shape, JobStep
    PROVE  Shape' /\ \A q \in Procs : Outside(q)
  <1>1. ASSUME NEW p \in Procs, Command(p)
        PROVE  Shape' /\ \A q \in Procs : Outside(q)
    <2>1. ASSUME NEW j \in Jobs, Start(p, j) \/ Reconcile(p, j) \/ Attest(p, j) \/ Export(p, j)
          PROVE  Shape' /\ \A q \in Procs : Outside(q)
      <3>1. CASE Start(p, j)
        <4> DEFINE c == [Idle EXCEPT !.pc = "start", !.job = j, !.n = Last(j) + 1,
                                     !.rev = job[j].rev, !.base = Len(chat)]
        <4>1. DOMAIN c = CommandFields /\ c.pc = "start" BY DEF Idle, CommandFields
        <4>2. Enter(p, c) BY <3>1 DEF Start
        <4> HIDE DEF c
        <4> QED BY <4>1, <4>2, EnterOutside DEF Working
      <3>2. CASE Reconcile(p, j)
        <4> DEFINE c == [Idle EXCEPT !.pc = "look", !.job = j, !.n = Last(j), !.rev = job[j].rev]
        <4>1. DOMAIN c = CommandFields /\ c.pc = "look" BY DEF Idle, CommandFields
        <4>2. Enter(p, c) BY <3>2 DEF Reconcile
        <4> HIDE DEF c
        <4> QED BY <4>1, <4>2, EnterOutside DEF Working
      <3>3. CASE Attest(p, j)
        <4> DEFINE c == [Idle EXCEPT !.pc = "attest", !.job = j, !.n = Last(j),
                                     !.obs = Classify(j, Last(j)), !.late = ~IOAllowed(j)]
        <4>1. DOMAIN c = CommandFields /\ c.pc = "attest" BY DEF Idle, CommandFields
        <4>2. Enter(p, c) BY <3>3 DEF Attest
        <4> HIDE DEF c
        <4> QED BY <4>1, <4>2, EnterOutside DEF Working
      <3>4. CASE Export(p, j)
        <4> DEFINE c == [Idle EXCEPT !.pc = "export", !.job = j, !.n = Last(j), !.late = ~IOAllowed(j)]
        <4>1. DOMAIN c = CommandFields /\ c.pc = "export" /\ c.job = j BY DEF Idle, CommandFields
        <4>2. Enter(p, c) BY <3>4 DEF Export
        <4> HIDE DEF c
        <4> QED BY <4>1, <4>2, EnterOutside
      <3> QED BY <2>1, <3>1, <3>2, <3>3, <3>4
    <2>2. ASSUME Begin(p)
          PROVE  Shape' /\ \A q \in Procs : Outside(q)
      <3>1. CASE BeginAllowed(J(p), proc[p].rev)
        <4>1. PICK pc \in {"hand", "fill"} :
                 proc' = [proc EXCEPT ![p].rev = @ + 1, ![p].pc = pc]
          BY <2>2, <3>1 DEF Begin
        <4>2. Shape' /\ proc'[p].pc = pc /\ \A q \in Procs \ {p} : proc'[q] = proc[q]
          BY <4>1 DEF Shape, CommandFields
        <4> QED BY <4>2 DEF Outside, Working
      <3>2. CASE ~BeginAllowed(J(p), proc[p].rev)
        BY <2>2, <3>2, EndOutside DEF Begin
      <3> QED BY <3>1, <3>2
    <2>3. CASE Hand(p) \/ Unsent(p) \/ Record(p) \/ Crash(p)
      BY <2>3, EndOutside DEF Hand, Unsent, Record, Crash
    <2>4. CASE Fill(p) \/ Final(p) \/ Admit(p) \/ Click(p) \/ Fail(p)
      <3>1. PICK pc \in {"final", "admit", "click", "look", "unsent"} : Go(p, pc)
        BY <2>4 DEF Fill, Final, Admit, Click, Fail
      <3> QED BY <3>1, GoOutside DEF Working
    <2>5. CASE Look(p)
      <3>1. CASE End(p) BY <3>1, EndOutside
      <3>2. CASE \E o : proc' = [proc EXCEPT ![p].pc = "record", ![p].obs = o]
        <4>1. Shape' /\ proc'[p].pc = "record" /\ \A q \in Procs \ {p} : proc'[q] = proc[q]
          BY <3>2, Advanced
        <4> QED BY <4>1 DEF Outside, Working
      <3> QED BY <2>5, <3>1, <3>2 DEF Look
    <2>6. CASE AttestNow(p)
      <3>1. proc' = [proc EXCEPT ![p].pc = "record", ![p].rev = job[J(p)].rev]
        BY <2>6 DEF AttestNow
      <3>2. Shape' /\ proc'[p].pc = "record" /\ \A q \in Procs \ {p} : proc'[q] = proc[q]
        BY <3>1 DEF Shape, CommandFields
      <3> QED BY <3>2 DEF Outside, Working
    <2> QED BY <1>1, <2>1, <2>2, <2>3, <2>4, <2>5, <2>6 DEF Command
  <1>2. CASE World
    <2>1. UNCHANGED proc
      BY <1>2 DEF World, Cancel, Expire, Overrun, ManualSend, Land, Type, Clear, Reply, Settle
    <2> QED BY <2>1, KeptOutside
  <1> QED BY <1>1, <1>2 DEF JobStep

-----------------------------------------------------------------------------
(* What a command carries outlives the steps of others. *)

\* A content that is there stays the same one.
Stays(old, new) == \A j \in Jobs : old[j] # None => new[j] = old[j]

LEMMA CarriedStays ==
    ASSUME NEW q \in Procs, Carried(proc[q]), Outside(q),
           Stays(record, record'), Stays(output, output'), Stays(lateOutput, lateOutput')
    PROVE  Carried(proc[q])'
  <1>1. CASE proc'[q] = proc[q]
    BY <1>1 DEF Carried, Stays, Working
  <1>2. CASE proc'[q].pc \notin Working
    BY <1>2 DEF Carried, Working
  <1>3. CASE proc'[q].pc = "export" /\ proc'[q].job \in Jobs
    BY <1>3 DEF Carried, Working
  <1> QED BY <1>1, <1>2, <1>3 DEF Outside

\* A step that changes no file needs to be looked at for its own command only.
LEMMA FilesKept ==
    ASSUME ArtifactInv, UNCHANGED <<store, outputs, receiver>>, Shape',
           \A q \in Procs : Outside(q) \/ Carried(proc[q])'
    PROVE  ArtifactInv'
  <1>1. Stays(record, record') /\ Stays(output, output') /\ Stays(lateOutput, lateOutput')
    BY DEF store, outputs, Stays
  <1>2. \A q \in Procs : Carried(proc[q])'
    BY <1>1, CarriedStays DEF ArtifactInv
  <1> QED BY <1>2 DEF ArtifactInv, ArtifactTypes, OneOriginal, Backed, store, outputs, receiver

LEMMA JobStepKeeps == ArtifactInv /\ JobStep => ArtifactInv'
  BY JobStepOutside, FilesKept DEF ArtifactInv, JobStep

LEMMA StutterKeeps == ArtifactInv /\ UNCHANGED allVars => ArtifactInv'
  BY KeptOutside, FilesKept DEF ArtifactInv, allVars, vars

-----------------------------------------------------------------------------
(* The exporter. *)

LEMMA ReadStoreKeeps ==
    ASSUME ArtifactInv, NEW p \in Procs, ReadStore(p)
    PROVE  ArtifactInv'
  <1> USE DEF J, At
  <1>1. Carried(proc[p]) /\ proc[p].job \in Jobs
    BY DEF ArtifactInv, Carried, ReadStore, Working
  <1>2. UNCHANGED <<store, outputs, receiver>>
    BY DEF ReadStore
  <1>3. CASE bytes[J(p)] = None
    <2>1. Step(p, "fetch", record[J(p)]) BY <1>3 DEF ReadStore
    <2>2. /\ Shape' /\ proc'[p].pc = "fetch" /\ proc'[p].obs = record[J(p)] /\ proc'[p].job = proc[p].job
          /\ \A q \in Procs \ {p} : proc'[q] = proc[q]
      BY <2>1, Advanced DEF Step, ArtifactInv
    <2>3. Carried(proc[p])' BY <1>1, <1>2, <2>2 DEF Carried, Working, store
    <2> QED BY <1>2, <2>2, <2>3, FilesKept DEF Outside
  <1>4. CASE bytes[J(p)] # None /\ bytes[J(p)] = record[J(p)]
    <2>1. Step(p, "publish", bytes[J(p)]) BY <1>4 DEF ReadStore
    <2>2. /\ Shape' /\ proc'[p].pc = "publish" /\ proc'[p].obs = bytes[J(p)] /\ proc'[p].job = proc[p].job
          /\ \A q \in Procs \ {p} : proc'[q] = proc[q]
      BY <2>1, Advanced DEF Step, ArtifactInv
    <2>3. Carried(proc[p])' BY <1>1, <1>2, <1>4, <2>2 DEF Carried, Working, store
    <2> QED BY <1>2, <2>2, <2>3, FilesKept DEF Outside
  <1>5. CASE bytes[J(p)] # None /\ bytes[J(p)] # record[J(p)]
    BY <1>2, <1>5, EndOutside, FilesKept DEF ReadStore, ArtifactInv
  <1> QED BY <1>3, <1>4, <1>5

LEMMA FetchKeeps ==
    ASSUME ArtifactInv, NEW p \in Procs, NEW h \in Hashes, Fetch(p, h)
    PROVE  ArtifactInv'
  <1> USE DEF J, At
  <1>1. Carried(proc[p]) /\ proc[p].job \in Jobs /\ h # None /\ proc[p].obs \in {None, record[J(p)]}
    BY HashesAssumption DEF ArtifactInv, Carried, Fetch, Working
  <1>2. UNCHANGED <<store, outputs, receiver>>
    BY DEF Fetch
  <1>3. CASE proc[p].obs = None
    <2>1. Step(p, "intent", h) BY <1>3 DEF Fetch
    <2>2. /\ Shape' /\ proc'[p].pc = "intent" /\ proc'[p].obs = h /\ proc'[p].job = proc[p].job
          /\ \A q \in Procs \ {p} : proc'[q] = proc[q]
      BY <2>1, Advanced DEF Step, ArtifactInv
    <2>3. Carried(proc[p])' BY <1>1, <2>2 DEF Carried, Working
    <2> QED BY <1>2, <2>2, <2>3, FilesKept DEF Outside
  <1>4. CASE proc[p].obs # None /\ proc[p].obs = h
    <2>1. Step(p, "bytes", h) BY <1>4 DEF Fetch
    <2>2. /\ Shape' /\ proc'[p].pc = "bytes" /\ proc'[p].obs = h /\ proc'[p].job = proc[p].job
          /\ \A q \in Procs \ {p} : proc'[q] = proc[q]
      BY <2>1, Advanced DEF Step, ArtifactInv
    <2>3. Carried(proc[p])' BY <1>1, <1>2, <1>4, <2>2 DEF Carried, Working, store
    <2> QED BY <1>2, <2>2, <2>3, FilesKept DEF Outside
  <1>5. CASE proc[p].obs # None /\ proc[p].obs # h
    BY <1>2, <1>5, EndOutside, FilesKept DEF Fetch, ArtifactInv
  <1> QED BY <1>3, <1>4, <1>5

\* The record of a job is written once, and an equal content may write it again.
LEMMA PutRecordKeeps ==
    ASSUME ArtifactInv, NEW p \in Procs, PutRecord(p)
    PROVE  ArtifactInv'
  <1> USE DEF J, At
  <1>1. Carried(proc[p]) /\ proc[p].job \in Jobs /\ proc[p].obs \in Hashes /\ proc[p].obs # None
    BY HashesAssumption DEF ArtifactInv, Carried, PutRecord, Working
  <1>2. UNCHANGED <<bytes, outputs, receiver>>
    BY DEF PutRecord
  <1>3. CASE Fits(record[J(p)], proc[p].obs)
    <2>1. Step(p, "bytes", proc[p].obs) /\ record' = [record EXCEPT ![J(p)] = proc[p].obs]
      BY <1>3 DEF PutRecord
    <2>2. /\ Shape' /\ proc'[p].pc = "bytes" /\ proc'[p].obs = proc[p].obs /\ proc'[p].job = proc[p].job
          /\ \A q \in Procs \ {p} : proc'[q] = proc[q]
      BY <2>1, Advanced DEF Step, ArtifactInv
    <2>3. record' \in [Jobs -> Content] /\ Stays(record, record')
      BY <1>1, <1>3, <2>1 DEF ArtifactInv, ArtifactTypes, Content, Stays, Fits
    <2>4. record'[J(p)] = proc[p].obs
      BY <1>1, <2>1 DEF ArtifactInv, ArtifactTypes
    <2>5. Carried(proc[p])' BY <1>1, <2>2, <2>4 DEF Carried, Working
    <2>6. Stays(output, output') /\ Stays(lateOutput, lateOutput')
      BY <1>2 DEF outputs, Stays
    <2>7. \A q \in Procs : Carried(proc[q])'
      BY <2>2, <2>3, <2>5, <2>6, CarriedStays DEF ArtifactInv, Outside
    <2>8. ArtifactTypes' /\ Backed'
      BY <1>2, <2>3 DEF ArtifactInv, ArtifactTypes, Backed, outputs, receiver
    <2>9. OneOriginal'
      BY <1>2, <2>3 DEF ArtifactInv, OneOriginal, Stays, outputs
    <2> QED BY <2>2, <2>7, <2>8, <2>9 DEF ArtifactInv
  <1>4. CASE ~Fits(record[J(p)], proc[p].obs)
    BY <1>2, <1>4, EndOutside, FilesKept DEF PutRecord, ArtifactInv, store
  <1> QED BY <1>3, <1>4

LEMMA PutBytesKeeps ==
    ASSUME ArtifactInv, NEW p \in Procs, PutBytes(p)
    PROVE  ArtifactInv'
  <1> USE DEF J, At
  <1>1. Carried(proc[p]) /\ proc[p].job \in Jobs /\ proc[p].obs # None /\ proc[p].obs = record[J(p)]
    BY DEF ArtifactInv, Carried, PutBytes, Working
  <1>2. UNCHANGED <<record, outputs, receiver>>
    BY DEF PutBytes
  <1>3. CASE Fits(bytes[J(p)], proc[p].obs)
    <2>1. Step(p, "publish", proc[p].obs) /\ bytes' = [bytes EXCEPT ![J(p)] = proc[p].obs]
      BY <1>3 DEF PutBytes
    <2>2. /\ Shape' /\ proc'[p].pc = "publish" /\ proc'[p].obs = proc[p].obs /\ proc'[p].job = proc[p].job
          /\ \A q \in Procs \ {p} : proc'[q] = proc[q]
      BY <2>1, Advanced DEF Step, ArtifactInv
    <2>3. Carried(proc[p])' BY <1>1, <1>2, <2>2 DEF Carried, Working
    <2>4. Stays(record, record') /\ Stays(output, output') /\ Stays(lateOutput, lateOutput')
      BY <1>2 DEF outputs, Stays
    <2>5. \A q \in Procs : Carried(proc[q])'
      BY <2>2, <2>3, <2>4, CarriedStays DEF ArtifactInv, Outside
    <2>6. ArtifactTypes'
      BY <1>1, <1>2, <2>1 DEF ArtifactInv, ArtifactTypes, outputs, receiver
    <2>7. Backed'
      BY <1>2 DEF ArtifactInv, Backed, outputs, receiver
    <2>8. OneOriginal'
      BY <1>1, <1>2, <2>1 DEF ArtifactInv, ArtifactTypes, OneOriginal, outputs
    <2> QED BY <2>2, <2>5, <2>6, <2>7, <2>8 DEF ArtifactInv
  <1>4. CASE ~Fits(bytes[J(p)], proc[p].obs)
    BY <1>2, <1>4, EndOutside, FilesKept DEF PutBytes, ArtifactInv, store
  <1> QED BY <1>3, <1>4

\* What is published is the record; a published output is published again only as it was.
LEMMA PublishKeeps ==
    ASSUME ArtifactInv, NEW p \in Procs, PublishOriginal(p)
    PROVE  ArtifactInv'
  <1> USE DEF J, At
  <1> DEFINE j == proc[p].job
             h == proc[p].obs
  <1>1. j \in Jobs /\ h # None /\ h = record[j] /\ h \in Content
    BY DEF ArtifactInv, ArtifactTypes, Carried, PublishOriginal, Working
  <1>2. UNCHANGED <<store, receiver>> /\ End(p)
    BY DEF PublishOriginal
  <1>3. Shape' /\ \A q \in Procs : Outside(q)
    BY <1>2, EndOutside DEF ArtifactInv
  <1>4. \/ UNCHANGED outputs
        \/ output' = [output EXCEPT ![j] = h] /\ output[j] \in {None, h} /\ UNCHANGED lateOutput
        \/ lateOutput' = [lateOutput EXCEPT ![j] = h] /\ lateOutput[j] \in {None, h} /\ UNCHANGED output
    BY DEF PublishOriginal, Merge, Fits
  <1> HIDE DEF j, h
  <1>5. /\ output' \in [Jobs -> Content] /\ lateOutput' \in [Jobs -> Content]
        /\ Stays(output, output') /\ Stays(lateOutput, lateOutput')
        /\ \A k \in Jobs : {output'[k], lateOutput'[k]} \subseteq {None, record[k]}
    BY <1>1, <1>4 DEF ArtifactInv, ArtifactTypes, OneOriginal, Stays, outputs
  <1>6. Stays(record, record') BY <1>2 DEF store, Stays
  <1>7. \A q \in Procs : Carried(proc[q])'
    BY <1>3, <1>5, <1>6, CarriedStays DEF ArtifactInv
  <1>8. ArtifactTypes' /\ OneOriginal'
    BY <1>2, <1>5 DEF ArtifactInv, ArtifactTypes, OneOriginal, store, receiver
  <1>9. Backed'
    BY <1>2, <1>5 DEF ArtifactInv, Backed, Stays, receiver
  <1> QED BY <1>3, <1>7, <1>8, <1>9 DEF ArtifactInv

-----------------------------------------------------------------------------
(* The receiver, and the loss of files. *)

LEMMA ReceiveKeeps ==
    ASSUME ArtifactInv, NEW p \in Procs, NEW j \in Jobs, NEW late \in BOOLEAN, Receive(p, j, late)
    PROVE  ArtifactInv'
  <1> DEFINE h == IF late THEN lateOutput[j] ELSE output[j]
             c == [Idle EXCEPT !.pc = "copy", !.job = j, !.obs = h, !.late = late]
  <1>1. UNCHANGED <<store, outputs, receiver>> BY DEF Receive
  <1>2. Enter(p, c) BY DEF Receive
  <1>3. DOMAIN c = CommandFields /\ c.pc = "copy" /\ c.job = j /\ c.obs = h
    BY DEF Idle, CommandFields
  <1>4. h # None /\ h \in {output[j], lateOutput[j]} BY DEF Receive, Deliverable
  <1> HIDE DEF c, h
  <1>5. Shape' /\ proc'[p] = c /\ \A q \in Procs \ {p} : proc'[q] = proc[q]
    BY <1>2, <1>3, Replaced DEF Enter, ArtifactInv
  <1>6. Carried(proc[p])' BY <1>1, <1>3, <1>4, <1>5 DEF Carried, Working, outputs
  <1> QED BY <1>1, <1>5, <1>6, FilesKept DEF Outside

LEMMA PutCopyKeeps ==
    ASSUME ArtifactInv, NEW p \in Procs, PutCopy(p)
    PROVE  ArtifactInv'
  <1> USE DEF J, At
  <1>1. /\ proc[p].job \in Jobs /\ proc[p].obs # None
        /\ proc[p].obs \in {output[J(p)], lateOutput[J(p)]} /\ proc[p].obs \in Content
    BY DEF ArtifactInv, ArtifactTypes, Carried, PutCopy, Working
  <1>2. UNCHANGED <<store, outputs, receipt>> BY DEF PutCopy
  <1>3. CASE copied' = [copied EXCEPT ![J(p)] = proc[p].obs] /\ Go(p, "receipt")
    <2>1. /\ Shape' /\ proc'[p].pc = "receipt" /\ proc'[p].obs = proc[p].obs /\ proc'[p].job = proc[p].job
          /\ \A q \in Procs \ {p} : proc'[q] = proc[q]
      BY <1>3, Moved DEF Go, ArtifactInv
    <2>2. Carried(proc[p])' BY <1>1, <1>2, <2>1 DEF Carried, Working, outputs
    <2>3. Stays(record, record') /\ Stays(output, output') /\ Stays(lateOutput, lateOutput')
      BY <1>2 DEF store, outputs, Stays
    <2>4. \A q \in Procs : Carried(proc[q])'
      BY <2>1, <2>2, <2>3, CarriedStays DEF ArtifactInv, Outside
    <2>5. ArtifactTypes' /\ OneOriginal'
      BY <1>1, <1>2, <1>3 DEF ArtifactInv, ArtifactTypes, OneOriginal, store, outputs
    <2>6. Backed'
      BY <1>1, <1>2, <1>3 DEF ArtifactInv, ArtifactTypes, Backed, outputs
    <2> QED BY <2>1, <2>4, <2>5, <2>6 DEF ArtifactInv
  <1>4. CASE UNCHANGED copied /\ End(p)
    BY <1>2, <1>4, EndOutside, FilesKept DEF ArtifactInv, receiver
  <1> QED BY <1>3, <1>4 DEF PutCopy

LEMMA PutReceiptKeeps ==
    ASSUME ArtifactInv, NEW p \in Procs, PutReceipt(p)
    PROVE  ArtifactInv'
  <1> USE DEF J, At
  <1>1. /\ proc[p].job \in Jobs /\ proc[p].obs # None
        /\ proc[p].obs \in {output[J(p)], lateOutput[J(p)]} /\ proc[p].obs \in Content
    BY DEF ArtifactInv, ArtifactTypes, Carried, PutReceipt, Working
  <1>2. UNCHANGED <<store, outputs, copied>> /\ End(p) BY DEF PutReceipt
  <1>3. Shape' /\ \A q \in Procs : Outside(q)
    BY <1>2, EndOutside DEF ArtifactInv
  <1>4. \A q \in Procs : Carried(proc[q])'
    BY <1>2, <1>3, CarriedStays DEF ArtifactInv, Stays, store, outputs
  <1>5. ArtifactTypes' /\ Backed'
    BY <1>1, <1>2 DEF PutReceipt, ArtifactInv, ArtifactTypes, Backed, store, outputs
  <1>6. OneOriginal' BY <1>2 DEF ArtifactInv, OneOriginal, store, outputs
  <1> QED BY <1>3, <1>4, <1>5, <1>6 DEF ArtifactInv

\* The record outlives the bytes, and the receipt the copy.
LEMMA LoseKeeps ==
    ASSUME ArtifactInv, NEW j \in Jobs, Lose(j)
    PROVE  ArtifactInv'
  <1>1. UNCHANGED <<proc, record, outputs, receipt>> BY DEF Lose, vars
  <1>2. \/ bytes' = [bytes EXCEPT ![j] = None] /\ UNCHANGED copied
        \/ copied' = [copied EXCEPT ![j] = None] /\ UNCHANGED bytes
    BY DEF Lose
  <1>3. Shape' /\ \A q \in Procs : Outside(q)
    BY <1>1, KeptOutside DEF ArtifactInv
  <1>4. \A q \in Procs : Carried(proc[q])'
    BY <1>1, <1>3, CarriedStays DEF ArtifactInv, Stays, outputs
  <1>5. ArtifactTypes'
    BY <1>1, <1>2 DEF ArtifactInv, ArtifactTypes, Content, outputs
  <1>6. OneOriginal' /\ Backed'
    BY <1>1, <1>2 DEF ArtifactInv, ArtifactTypes, OneOriginal, Backed, outputs
  <1> QED BY <1>3, <1>4, <1>5, <1>6 DEF ArtifactInv

-----------------------------------------------------------------------------
(* The theorem. *)

LEMMA InitArtifacts == AInit => ArtifactInv
  <1> SUFFICES ASSUME AInit PROVE ArtifactInv OBVIOUS
  <1>1. proc = [p \in Procs |-> Idle] BY DEF AInit, Init
  <1>2. Shape /\ \A p \in Procs : Carried(proc[p])
    BY <1>1, IdleShape DEF Shape, Carried, Working
  <1>3. ArtifactTypes /\ OneOriginal /\ Backed
    BY DEF AInit, Nothing, ArtifactTypes, Content, OneOriginal, Backed
  <1> QED BY <1>2, <1>3 DEF ArtifactInv

LEMMA NextArtifacts == ArtifactInv /\ [ANext]_allVars => ArtifactInv'
  <1> SUFFICES ASSUME ArtifactInv, [ANext]_allVars PROVE ArtifactInv' OBVIOUS
  <1>1. ASSUME NEW p \in Procs, Artifact(p) PROVE ArtifactInv'
    <2>1. CASE ReadStore(p) BY <2>1, ReadStoreKeeps
    <2>2. CASE \E h \in Hashes : Fetch(p, h) BY <2>2, FetchKeeps
    <2>3. CASE PutRecord(p) BY <2>3, PutRecordKeeps
    <2>4. CASE PutBytes(p) BY <2>4, PutBytesKeeps
    <2>5. CASE PublishOriginal(p) BY <2>5, PublishKeeps
    <2>6. CASE \E j \in Jobs, late \in BOOLEAN : Receive(p, j, late) BY <2>6, ReceiveKeeps
    <2>7. CASE PutCopy(p) BY <2>7, PutCopyKeeps
    <2>8. CASE PutReceipt(p) BY <2>8, PutReceiptKeeps
    <2> QED BY <1>1, <2>1, <2>2, <2>3, <2>4, <2>5, <2>6, <2>7, <2>8 DEF Artifact
  <1>2. CASE JobStep BY <1>2, JobStepKeeps
  <1>3. CASE \E j \in Jobs : Lose(j) BY <1>3, LoseKeeps
  <1>4. CASE UNCHANGED allVars BY <1>4, StutterKeeps
  <1> QED BY <1>1, <1>2, <1>3, <1>4 DEF ANext

\* Copy and receipt name published outputs, and all of these are the one record.
LEMMA ArtifactsGoBack == ArtifactInv => Provenance
  <1> SUFFICES ASSUME ArtifactInv PROVE Provenance OBVIOUS
  <1>1. ASSUME NEW j \in Jobs PROVE Evidence(j) # "CORRUPT"
    <2>1. copied[j] \in {None, record[j]} /\ receipt[j] \in {None, record[j]}
      BY DEF ArtifactInv, OneOriginal, Backed
    <2>2. receipt[j] = None \/ copied[j] = None \/ copied[j] = receipt[j] BY <2>1
    <2> QED BY <2>2 DEF Evidence
  <1> QED BY <1>1 DEF ArtifactInv, Provenance, ReceiptBacked, Backed

\* Every copy and every receipt goes back to the one original of its job, whatever is lost and
\* read again, and whoever races or stops (exporter.js:176, manifest.js:165).
THEOREM ProvenanceCorrect == ASpec => []Provenance
  <1>1. ASpec => []ArtifactInv
    BY InitArtifacts, NextArtifacts, PTL DEF ASpec
  <1> QED BY <1>1, ArtifactsGoBack, PTL

-----------------------------------------------------------------------------
(* Types. *)

AttemptStatuses == {"SUBMISSION_UNKNOWN", "FAILED_PRE_SEND", "GENERATING", "GENERATED", "FAILED"}
JobStatuses == AttemptStatuses \cup
    {"SUBMITTED", "BLOCKED", "TECHNICALLY_VALIDATED", "CANCEL_REQUESTED", "CANCELLED"}

AttemptType == [status : AttemptStatuses, base : Nat, user : Nat, turn : Nat, out : BOOLEAN]
JobType == [rev : Nat, status : JobStatuses, cancel : BOOLEAN, attempts : Seq(AttemptType),
            output : BOOLEAN, lateOutput : BOOLEAN]
Fates == {"flying", "landed", "lost"}
MessageType == [role : {"user", "assistant"}, of : {None} \cup (Jobs \X Nat), parent : Nat,
                state : {"said", "pending", "image", "text", "refused"}]
PressType == [job : Jobs, n : Nat, fate : Fates]

JobTypes ==
    /\ job \in [Jobs -> JobType] /\ chat \in Seq(MessageType) /\ sent \in Seq(PressType)
    /\ prompted \subseteq Jobs \X Nat
    /\ Shape
    /\ \A p \in Procs : proc[p].n \in Nat /\ proc[p].rev \in Nat /\ proc[p].base \in Nat

-----------------------------------------------------------------------------
(* The inductive invariant. *)

PressedFor(j, n) == \E i \in DOMAIN sent : sent[i].job = j /\ sent[i].n = n
Said(u, j, n) == u \in DOMAIN chat /\ chat[u].of = <<j, n>>
Answers(t, u) == t \in DOMAIN chat /\ chat[t].parent = u

\* The places at which a command may still send its attempt, or say that it never will.
Pending == {"hand", "fill", "final", "admit", "click", "unsent"}

\* An attempt names its own message and the reply to it; all but the last were never sent.
BoundAttempt(j, n) ==
    LET a == job[j].attempts[n] IN
    /\ a.user # 0 => Said(a.user, j, n)
    /\ a.turn # 0 => a.user # 0 /\ Answers(a.turn, a.user)

JobSound(j) ==
    /\ \A n \in Attempts(j) : BoundAttempt(j, n) /\ (n # Last(j) => n \notin Unproven(j))
    /\ job[j].cancel => job[j].status \in {"CANCELLED", "CANCEL_REQUESTED"}
    /\ job[j].status = "CANCELLED" => job[j].cancel /\ Unproven(j) = {}

\* An attempt that may still be sent: it is not disproved and was not pressed.
Sendable(j, n) == j \in Jobs /\ n \in Unproven(j) /\ ~PressedFor(j, n)

\* What a command knows: the next attempt, if the job has not changed; an open attempt that
\* no other command and no operator holds; an observation of the conversation.
Knows(p) ==
    LET c == proc[p] IN
    /\ c.pc \in Pending \cup {"start", "look", "record", "attest"} => c.job \in Jobs
    /\ c.pc = "start" => /\ c.rev <= job[c.job].rev
                         /\ c.rev = job[c.job].rev => c.n = Last(c.job) + 1
    /\ c.pc \in Pending => /\ Sendable(c.job, c.n) /\ <<c.job, c.n>> \notin prompted
                           /\ \A q \in Procs \ {p} : proc[q].pc \in Pending =>
                                 <<proc[q].job, proc[q].n>> # <<c.job, c.n>>
    /\ c.pc \in {"record", "attest"} =>
          /\ c.obs.n \in Nat /\ c.obs.user \in Nat /\ c.obs.turn \in Nat
          /\ c.obs.status \in {"GENERATING", "GENERATED", "FAILED"}
          /\ Said(c.obs.user, c.job, c.obs.n)
          /\ c.obs.turn # 0 => Answers(c.obs.turn, c.obs.user)

Presses ==
    /\ \A i \in DOMAIN sent : sent[i].n \in Unproven(sent[i].job)
    /\ \A a \in prompted : Sendable(a[1], a[2])
    /\ \A i \in DOMAIN chat, j \in Jobs, n \in Nat : chat[i].of = <<j, n>> => PressedFor(j, n)

OneReserved == \A j, k \in Reserved : j = k

JobInv ==
    /\ JobTypes /\ (\A j \in Jobs : JobSound(j)) /\ (\A p \in Procs : Knows(p))
    /\ Presses /\ SentOnce /\ OneReserved /\ OneInFlight

-----------------------------------------------------------------------------
(* The invariant implies the properties. *)

LEMMA InvGivesOneGeneration == JobInv => OneGeneration
  <1> SUFFICES ASSUME JobInv PROVE UnsentProof BY DEF JobInv, OneGeneration
  <1>1. ASSUME NEW j \in Jobs PROVE \A n \in Pressed(j) : n \in Unproven(j)
    BY DEF JobInv, Presses, Pressed
  <1>2. ASSUME NEW j \in Jobs, job[j].status = "CANCELLED" \/ j \in Proposed PROVE Unproven(j) = {}
    BY <1>2 DEF JobInv, JobSound, Proposed, Action, Beginnable
  <1> QED BY <1>1, <1>2 DEF UnsentProof

LEMMA InvGivesBound == JobInv => BoundToOwnTurn
  BY DEF JobInv, JobSound, BoundAttempt, Said, Answers, BoundToOwnTurn

-----------------------------------------------------------------------------
(* Steps by what they change.  First, those of one command only. *)

Attentive == Pending \cup {"start", "look", "record", "attest"}
Counters(p) == proc[p].n \in Nat /\ proc[p].rev \in Nat /\ proc[p].base \in Nat

LEMMA CommandMoves ==
    ASSUME JobInv, UNCHANGED <<job, chat, sent, prompted>>, NEW p \in Procs, Shape',
           \A q \in Procs \ {p} : proc'[q] = proc[q], Counters(p)', Knows(p)'
    PROVE  JobInv'
  <1>1. JobTypes' BY DEF JobInv, JobTypes, Counters
  <1>2. ASSUME NEW q \in Procs PROVE Knows(q)'
    <2>1. CASE q = p BY <2>1
    <2>2. CASE q # p
      <3>1. proc'[q] = proc[q] /\ Knows(q) BY <2>2 DEF JobInv
      <3>2. ASSUME proc'[q].pc \in Pending, NEW r \in Procs \ {q}, proc'[r].pc \in Pending
            PROVE  <<proc'[r].job, proc'[r].n>> # <<proc'[q].job, proc'[q].n>>
        <4>1. CASE r = p BY <3>2, <4>1, <2>2 DEF Knows
        <4>2. CASE r # p BY <3>1, <3>2, <4>2 DEF Knows
        <4> QED BY <4>1, <4>2
      <3> QED BY <3>1, <3>2 DEF Knows, Sendable, PressedFor, Said, Answers, Unproven, Attempts, Last
    <2> QED BY <2>1, <2>2
  <1>3. (\A j \in Jobs : JobSound(j))'
    BY DEF JobInv, JobSound, BoundAttempt, Said, Answers, Unproven, Attempts, Last
  <1>4. Presses' BY DEF JobInv, Presses, Sendable, PressedFor, Unproven, Attempts
  <1>5. SentOnce' /\ OneReserved' /\ OneInFlight'
    BY DEF JobInv, SentOnce, OneReserved, Reserved, OneInFlight, Unproven, Attempts
  <1> QED BY <1>1, <1>2, <1>3, <1>4, <1>5 DEF JobInv

\* Grants, time, the composer and files are of no account.
LEMMA NobodyMoves ==
    ASSUME JobInv, UNCHANGED <<job, chat, sent, prompted, proc>>
    PROVE  JobInv'
  <1>1. JobTypes' BY DEF JobInv, JobTypes, Shape
  <1>2. (\A p \in Procs : Knows(p))'
    BY DEF JobInv, Knows, Sendable, PressedFor, Said, Answers, Unproven, Attempts, Last
  <1>3. (\A j \in Jobs : JobSound(j))'
    BY DEF JobInv, JobSound, BoundAttempt, Said, Answers, Unproven, Attempts, Last
  <1>4. Presses' BY DEF JobInv, Presses, Sendable, PressedFor, Unproven, Attempts
  <1>5. SentOnce' /\ OneReserved' /\ OneInFlight'
    BY DEF JobInv, SentOnce, OneReserved, Reserved, OneInFlight, Unproven, Attempts
  <1> QED BY <1>1, <1>2, <1>3, <1>4, <1>5 DEF JobInv

\* A command that ends, or goes where it holds nothing any more.
LEMMA CommandRests ==
    ASSUME JobInv, UNCHANGED <<job, chat, sent, prompted>>, NEW p \in Procs, Shape',
           \A q \in Procs \ {p} : proc'[q] = proc[q], Counters(p)', proc'[p].pc \notin Attentive
    PROVE  JobInv'
  <1>1. Knows(p)' BY DEF Knows, Attentive, Pending
  <1> QED BY <1>1, CommandMoves

-----------------------------------------------------------------------------
(* Steps that change the record of a job. *)

\* Only attempt n of job j may become disproved; nothing that was observed is taken back.
JobEvolves(j, n) ==
    /\ job' \in [Jobs -> JobType] /\ \A k \in Jobs \ {j} : job'[k] = job[k]
    /\ job'[j].rev > job[j].rev \/ job'[j] = job[j]
    /\ Attempts(j)' = Attempts(j) /\ Last(j)' = Last(j)
    /\ \A m \in Attempts(j) :
          /\ BoundAttempt(j, m)'
          /\ m \in Unproven(j)' => m \in Unproven(j)
          /\ m \in Unproven(j) /\ m # n => m \in Unproven(j)'
          /\ Complete(job[j].attempts[m]) => Complete(job'[j].attempts[m])
    /\ job'[j].cancel => job'[j].status \in {"CANCELLED", "CANCEL_REQUESTED"}
    /\ job'[j].status = "CANCELLED" => job'[j].cancel /\ Unproven(j)' = {}

LEMMA JobMoves ==
    ASSUME JobInv, NEW j \in Jobs, NEW n, JobEvolves(j, n), UNCHANGED <<chat, sent, prompted>>,
           Shape', \A q \in Procs : proc'[q] = proc[q] \/ (proc'[q].pc \notin Attentive /\ Counters(q)'),
           ~PressedFor(j, n), <<j, n>> \notin prompted,
           \A q \in Procs : proc'[q].pc \in Pending => <<proc'[q].job, proc'[q].n>> # <<j, n>>
    PROVE  JobInv'
  <1>1. JobTypes' BY DEF JobInv, JobTypes, Counters, JobEvolves
  <1>2. ASSUME NEW k \in Jobs, NEW m, m \in Unproven(k), <<k, m>> # <<j, n>>
        PROVE  m \in Unproven(k)'
    BY <1>2 DEF JobEvolves, Unproven, Attempts
  <1>3. ASSUME NEW k \in Jobs, NEW m, m \in Unproven(k)'
        PROVE  m \in Unproven(k)
    BY <1>3 DEF JobEvolves, Unproven, Attempts
  <1>4. ASSUME NEW q \in Procs PROVE Knows(q)'
    <2>1. CASE proc'[q].pc \notin Attentive BY <2>1 DEF Knows, Attentive, Pending
    <2>2. CASE proc'[q].pc \in Attentive
      <3>1. proc'[q] = proc[q] /\ Knows(q) BY <2>2 DEF JobInv
      <3>2. PICK k \in Jobs, m \in {proc[q].n} : proc[q].job = k /\ proc[q].n = m
        BY <2>2, <3>1 DEF Knows, Attentive
      <3>3. proc'[q].job = k /\ proc'[q].n = m BY <3>1, <3>2
      <3>4. ASSUME proc'[q].pc = "start"
            PROVE  proc'[q].rev <= job'[k].rev /\ (proc'[q].rev = job'[k].rev => m = Last(k)' + 1)
        <4>1. proc[q].rev <= job[k].rev /\ (proc[q].rev = job[k].rev => m = Last(k) + 1)
          BY <3>1, <3>2, <3>4 DEF Knows
        <4>2. proc[q].rev \in Nat /\ job[k].rev \in Nat /\ job'[k].rev \in Nat
          BY <1>1 DEF JobInv, JobTypes, JobType
        <4>3. job'[k].rev > job[k].rev \/ job'[k] = job[k] BY DEF JobEvolves
        <4> QED BY <3>1, <4>1, <4>2, <4>3 DEF Last
      <3>5. ASSUME proc'[q].pc \in Pending
            PROVE  /\ m \in Unproven(k)' /\ ~PressedFor(k, m)' /\ <<k, m>> \notin prompted'
                   /\ \A r \in Procs \ {q} : proc'[r].pc \in Pending => <<proc'[r].job, proc'[r].n>> # <<k, m>>
        <4>1. /\ Sendable(k, m) /\ <<k, m>> \notin prompted /\ <<k, m>> # <<j, n>>
              /\ \A r \in Procs \ {q} : proc[r].pc \in Pending => <<proc[r].job, proc[r].n>> # <<k, m>>
          BY <3>1, <3>2, <3>5 DEF Knows
        <4>2. m \in Unproven(k)' BY <1>2, <4>1 DEF Sendable
        <4>3. \A r \in Procs \ {q} : proc'[r].pc \in Pending => proc'[r] = proc[r]
          BY DEF Attentive
        <4> QED BY <4>1, <4>2, <4>3 DEF Sendable, PressedFor
      <3>6. ASSUME proc'[q].pc \in {"record", "attest"}
            PROVE  /\ proc'[q].obs.n \in Nat /\ proc'[q].obs.user \in Nat /\ proc'[q].obs.turn \in Nat
                   /\ proc'[q].obs.status \in {"GENERATING", "GENERATED", "FAILED"}
                   /\ Said(proc[q].obs.user, proc[q].job, proc[q].obs.n)'
                   /\ proc'[q].obs.turn # 0 => Answers(proc[q].obs.turn, proc[q].obs.user)'
        BY <3>1, <3>6 DEF Knows, Said, Answers
      <3> QED BY <3>2, <3>3, <3>4, <3>5, <3>6 DEF Knows, Sendable
    <2> QED BY <2>1, <2>2
  <1>5. ASSUME NEW k \in Jobs PROVE JobSound(k)'
    <2>1. CASE k = j
      <3>1. \A m \in Attempts(j)' : m # Last(j)' => m \notin Unproven(j)'
        BY DEF JobEvolves, JobInv, JobSound
      <3> QED BY <2>1, <3>1 DEF JobEvolves, JobSound
    <2>2. CASE k # j
      <3>1. job'[k] = job[k] BY <2>2 DEF JobEvolves
      <3> QED BY <3>1 DEF JobInv, JobSound, BoundAttempt, Said, Answers, Unproven, Attempts, Last
    <2> QED BY <2>1, <2>2
  <1>6. Presses'
    <2>1. ASSUME NEW i \in DOMAIN sent PROVE sent[i].n \in Unproven(sent[i].job)'
      <3>1. sent[i] \in PressType BY DEF JobInv, JobTypes
      <3>2. sent[i].job \in Jobs /\ <<sent[i].job, sent[i].n>> # <<j, n>> BY <3>1 DEF PressedFor, PressType
      <3> QED BY <1>2, <3>2 DEF JobInv, Presses
    <2>2. ASSUME NEW a \in prompted PROVE Sendable(a[1], a[2])'
      <3>1. a \in Jobs \X Nat BY DEF JobInv, JobTypes
      <3>2. a = <<a[1], a[2]>> /\ a[1] \in Jobs BY <3>1
      <3>3. <<a[1], a[2]>> # <<j, n>> /\ Sendable(a[1], a[2]) BY <3>2 DEF JobInv, Presses
      <3> QED BY <1>2, <3>2, <3>3 DEF Sendable, PressedFor
    <2> QED BY <2>1, <2>2 DEF JobInv, Presses, PressedFor
  <1>7. ASSUME NEW k \in Jobs, NEW m, m \in Attempts(k), Complete(job[k].attempts[m])
        PROVE  Complete(job'[k].attempts[m])
    BY <1>7 DEF JobEvolves
  <1>8. OneReserved'
    <2>1. \A k \in Reserved' : k \in Reserved
      BY <1>3, <1>7 DEF Reserved, Unproven, Attempts
    <2> QED BY <2>1 DEF JobInv, OneReserved
  <1>9. SentOnce' /\ OneInFlight'
    <2>1. \A i \in DOMAIN sent : sent[i] \in PressType BY DEF JobInv, JobTypes
    <2>2. \A i \in DOMAIN sent : sent[i].job \in Jobs /\ sent[i].n \in Attempts(sent[i].job)
      BY <2>1 DEF JobInv, PressType, Presses, Unproven
    <2> QED BY <1>7, <2>2 DEF JobInv, SentOnce, OneInFlight
  <1> QED BY <1>1, <1>4, <1>5, <1>6, <1>8, <1>9 DEF JobInv

-----------------------------------------------------------------------------
(* The reducer. *)

\* Attempts are numbered from one, so that 0 is none.
LEMMA Numbered ==
    ASSUME JobInv
    PROVE  /\ \A j \in Jobs : Attempts(j) = 1..Last(j) /\ Last(j) \in Nat /\ 0 \notin Unproven(j)
           /\ \A j \in Jobs : ~PressedFor(j, 0) /\ <<j, 0>> \notin prompted
           /\ \A q \in Procs, j \in Jobs : proc[q].pc \in Pending => <<proc[q].job, proc[q].n>> # <<j, 0>>
  <1>1. ASSUME NEW j \in Jobs
        PROVE  Attempts(j) = 1..Last(j) /\ Last(j) \in Nat /\ 0 \notin Unproven(j)
    <2>1. job[j].attempts \in Seq(AttemptType) BY DEF JobInv, JobTypes, JobType
    <2> QED BY <2>1 DEF Attempts, Last, Unproven
  <1>2. ASSUME NEW j \in Jobs PROVE ~PressedFor(j, 0) BY <1>1 DEF JobInv, Presses, PressedFor
  <1>3. ASSUME NEW j \in Jobs PROVE <<j, 0>> \notin prompted BY <1>1 DEF JobInv, Presses, Sendable
  <1>4. ASSUME NEW q \in Procs, NEW j \in Jobs, proc[q].pc \in Pending
        PROVE  <<proc[q].job, proc[q].n>> # <<j, 0>>
    BY <1>1, <1>4 DEF JobInv, Knows, Sendable
  <1> QED BY <1>1, <1>2, <1>3, <1>4

\* The records that the reducer rewrites.
LEMMA AttemptBinds ==
    ASSUME NEW a \in AttemptType, NEW o, o.user \in Nat, o.turn \in Nat, o.status \in AttemptStatuses
    PROVE  /\ Bind(a, o) \in AttemptType /\ Bind(a, o).status = o.status
           /\ o.status \in {"GENERATING", "GENERATED"} =>
                 Bind(a, o).user = o.user /\ Bind(a, o).turn = IF o.turn = 0 THEN a.turn ELSE o.turn
           /\ o.status \notin {"GENERATING", "GENERATED"} =>
                 Bind(a, o).user = a.user /\ Bind(a, o).turn = a.turn
           /\ Complete(a) => Complete(Bind(a, o))
  <1>1. CASE o.status \notin {"GENERATING", "GENERATED"}
    <2>1. Bind(a, o) = [a EXCEPT !.status = o.status] BY <1>1 DEF Bind
    <2> QED BY <1>1, <2>1 DEF AttemptType, Complete
  <1>2. CASE o.status \in {"GENERATING", "GENERATED"}
    <2> DEFINE t == IF o.turn = 0 THEN a.turn ELSE o.turn
               x == a.out \/ o.status = "GENERATED"
               b == [a EXCEPT !.status = o.status, !.user = o.user, !.turn = t, !.out = x]
    <2>1. Bind(a, o) = b BY <1>2 DEF Bind
    <2>2. t \in Nat /\ x \in BOOLEAN /\ (a.out => x) /\ (a.turn # 0 => t # 0) BY DEF AttemptType
    <2> HIDE DEF t, x
    <2>3. b \in AttemptType /\ b.status = o.status /\ b.user = o.user /\ b.turn = t /\ b.out = x
      BY <2>2 DEF AttemptType
    <2> QED BY <1>2, <2>1, <2>2, <2>3 DEF Complete, t
  <1> QED BY <1>1, <1>2

LEMMA JobMade ==
    ASSUME NEW n \in Nat, NEW st \in JobStatuses, NEW c \in BOOLEAN, NEW as \in Seq(AttemptType),
           NEW x \in BOOLEAN, NEW y \in BOOLEAN
    PROVE  [rev |-> n, status |-> st, cancel |-> c, attempts |-> as, output |-> x, lateOutput |-> y]
              \in JobType
  BY DEF JobType

Rewritten(r, as, st) == [r EXCEPT !.rev = @ + 1, !.attempts = as, !.status = st]

LEMMA JobRewritten ==
    ASSUME NEW r \in JobType, NEW as \in Seq(AttemptType), NEW st \in JobStatuses
    PROVE  LET s == Rewritten(r, as, st)
           IN  /\ s \in JobType /\ s.rev > r.rev
               /\ s.attempts = as /\ s.status = st /\ s.cancel = r.cancel
  <1>1. /\ r.rev \in Nat /\ r.cancel \in BOOLEAN /\ r.output \in BOOLEAN /\ r.lateOutput \in BOOLEAN
        /\ r.rev + 1 \in Nat /\ r.rev + 1 > r.rev
    BY DEF JobType
  <1>2. PICK s : s = Rewritten(r, as, st) OBVIOUS
  <1>3. s = [rev |-> r.rev + 1, status |-> st, cancel |-> r.cancel, attempts |-> as,
             output |-> r.output, lateOutput |-> r.lateOutput]
    BY <1>2 DEF JobType, Rewritten
  <1>4. s \in JobType BY <1>1, <1>3, JobMade
  <1> QED BY <1>1, <1>2, <1>3, <1>4

\* A new attempt b in the place of attempt i, and a new status of the job.
Replacing(r, i, b, st) == Rewritten(r, [r.attempts EXCEPT ![i] = b], st)

LEMMA AttemptReplaced ==
    ASSUME NEW r \in JobType, NEW i \in DOMAIN r.attempts, NEW b \in AttemptType, NEW st \in JobStatuses
    PROVE  LET s == Replacing(r, i, b, st)
           IN  /\ s \in JobType /\ s.rev > r.rev /\ s.status = st /\ s.cancel = r.cancel
               /\ DOMAIN s.attempts = DOMAIN r.attempts /\ Len(s.attempts) = Len(r.attempts)
               /\ s.attempts[i] = b
               /\ \A m \in DOMAIN r.attempts \ {i} : s.attempts[m] = r.attempts[m]
  <1>1. r.attempts \in Seq(AttemptType) /\ i \in 1..Len(r.attempts) BY DEF JobType
  <1>2. PICK as : as = [r.attempts EXCEPT ![i] = b] OBVIOUS
  <1>3. as \in Seq(AttemptType) /\ Len(as) = Len(r.attempts) BY <1>1, <1>2, ExceptSeq
  <1>4. /\ DOMAIN as = DOMAIN r.attempts /\ as[i] = b
        /\ \A m \in DOMAIN r.attempts \ {i} : as[m] = r.attempts[m]
    BY <1>1, <1>2
  <1>5. PICK s : s = Rewritten(r, as, st) OBVIOUS
  <1>6. s \in JobType /\ s.rev > r.rev /\ s.attempts = as /\ s.status = st /\ s.cancel = r.cancel
    BY <1>3, <1>5, JobRewritten
  <1>7. Replacing(r, i, b, st) = s BY <1>2, <1>5 DEF Replacing
  <1> QED BY <1>3, <1>4, <1>6, <1>7

LEMMA ObservedEvolves ==
    ASSUME JobInv, NEW j \in Jobs, NEW o, NEW n, Provable(j, o), UNCHANGED chat,
           o.user \in Nat, o.turn \in Nat,
           o.status \in {"GENERATING", "GENERATED", "FAILED", "FAILED_PRE_SEND"},
           o.status = "FAILED_PRE_SEND" => n = o.n,
           o.status \in {"GENERATING", "GENERATED"} =>
              Said(o.user, j, o.n) /\ (o.turn # 0 => Answers(o.turn, o.user)),
           job' = [job EXCEPT ![j] = Observed(j, o)]
    PROVE  JobEvolves(j, n)
  <1>1. job[j] \in JobType /\ JobSound(j) /\ o.n \in Attempts(j) BY DEF JobInv, JobTypes, Provable
  <1>2. PICK i \in Attempts(j) : i = o.n BY <1>1
  <1>3. PICK a \in AttemptType : a = job[j].attempts[i] BY <1>1 DEF JobType, Attempts
  <1>4. PICK b : b = Bind(a, o) OBVIOUS
  <1>5. /\ b \in AttemptType /\ b.status = o.status /\ (Complete(a) => Complete(b))
        /\ o.status \in {"GENERATING", "GENERATED"} =>
              b.user = o.user /\ b.turn = IF o.turn = 0 THEN a.turn ELSE o.turn
        /\ o.status \notin {"GENERATING", "GENERATED"} => b.user = a.user /\ b.turn = a.turn
    <2>1. o.status \in AttemptStatuses BY DEF AttemptStatuses
    <2> QED BY <1>4, <2>1, AttemptBinds
  <1>6. PICK st : st = IF Late(j, i) THEN Blocked(j, i, job[j].status) ELSE o.status OBVIOUS
  <1>7. st \in JobStatuses
    <2>1. job[j].status \in JobStatuses BY <1>1 DEF JobType
    <2> QED BY <1>6, <2>1 DEF Blocked, JobStatuses, AttemptStatuses
  <1>8. job'[j] = Replacing(job[j], i, b, st)
    BY <1>2, <1>3, <1>4, <1>6 DEF Observed, Replacing, Rewritten, JobInv, JobTypes
  <1>9. /\ job' \in [Jobs -> JobType] /\ (\A k \in Jobs \ {j} : job'[k] = job[k])
        /\ job'[j].rev > job[j].rev /\ job'[j].status = st /\ job'[j].cancel = job[j].cancel
        /\ Attempts(j)' = Attempts(j) /\ Last(j)' = Last(j)
        /\ job'[j].attempts[i] = b
        /\ \A m \in Attempts(j) \ {i} : job'[j].attempts[m] = job[j].attempts[m]
    <2>1. PICK s : s = Replacing(job[j], i, b, st) OBVIOUS
    <2>2. /\ s \in JobType /\ s.rev > job[j].rev /\ s.status = st /\ s.cancel = job[j].cancel
          /\ DOMAIN s.attempts = Attempts(j) /\ Len(s.attempts) = Last(j) /\ s.attempts[i] = b
          /\ \A m \in Attempts(j) \ {i} : s.attempts[m] = job[j].attempts[m]
      BY <1>1, <1>5, <1>7, <2>1, AttemptReplaced DEF Attempts, Last
    <2>3. DOMAIN job' = Jobs /\ \A k \in Jobs \ {j} : job'[k] = job[k] BY DEF JobInv, JobTypes
    <2>4. job' \in [Jobs -> JobType] BY <1>8, <2>1, <2>2, <2>3 DEF JobInv, JobTypes
    <2> QED BY <1>8, <2>1, <2>2, <2>3, <2>4 DEF Attempts, Last
  <1>10. /\ b.status = "FAILED_PRE_SEND" <=> o.status = "FAILED_PRE_SEND"
         /\ a.status = "FAILED_PRE_SEND" => o.status = "FAILED_PRE_SEND"
    BY <1>2, <1>3, <1>5 DEF Provable
  <1>11. /\ b.user # 0 => Said(b.user, j, i)
         /\ b.turn # 0 => b.user # 0 /\ Answers(b.turn, b.user)
    <2>1. /\ a.user # 0 => Said(a.user, j, i)
          /\ a.turn # 0 => a.user # 0 /\ Answers(a.turn, a.user)
      BY <1>1, <1>3 DEF JobSound, BoundAttempt
    <2>2. CASE o.status \notin {"GENERATING", "GENERATED"} BY <1>5, <2>1, <2>2
    <2>3. CASE o.status \in {"GENERATING", "GENERATED"}
      <3>1. b.user = o.user /\ b.turn = IF o.turn = 0 THEN a.turn ELSE o.turn BY <1>5, <2>3
      <3>2. a.user \in {0, o.user} BY <1>2, <1>3, <2>3 DEF Provable
      <3>3. o.user # 0
        <4>1. o.user \in DOMAIN chat /\ chat \in Seq(MessageType) BY <2>3 DEF Said, JobInv, JobTypes
        <4> QED BY <4>1
      <3> QED BY <1>2, <2>1, <2>3, <3>1, <3>2, <3>3
    <2> QED BY <2>2, <2>3
  <1>12. ASSUME NEW m \in Attempts(j)
         PROVE  /\ BoundAttempt(j, m)'
                /\ m \in Unproven(j)' => m \in Unproven(j)
                /\ m \in Unproven(j) /\ m # n => m \in Unproven(j)'
                /\ Complete(job[j].attempts[m]) => Complete(job'[j].attempts[m])
    <2>1. CASE m = i
      <3>1. BoundAttempt(j, m)' BY <1>9, <1>11, <2>1 DEF BoundAttempt, Said, Answers
      <3>2. m \in Unproven(j)' => m \in Unproven(j) BY <1>3, <1>9, <1>10, <2>1 DEF Unproven
      <3>3. m \in Unproven(j) /\ m # n => m \in Unproven(j)' BY <1>2, <1>9, <1>10, <2>1 DEF Unproven
      <3> QED BY <1>3, <1>5, <1>9, <2>1, <3>1, <3>2, <3>3
    <2>2. CASE m # i
      <3>1. job'[j].attempts[m] = job[j].attempts[m] BY <1>9, <2>2
      <3>2. BoundAttempt(j, m)' BY <1>1, <3>1 DEF JobSound, BoundAttempt, Said, Answers
      <3> QED BY <1>9, <3>1, <3>2 DEF Unproven
    <2> QED BY <2>1, <2>2
  <1>13. /\ job[j].cancel => st = job[j].status
         /\ st = "CANCELLED" => job[j].status = "CANCELLED"
    BY <1>6 DEF Late, Blocked
  <1>14. /\ job'[j].cancel => job'[j].status \in {"CANCELLED", "CANCEL_REQUESTED"}
         /\ job'[j].status = "CANCELLED" => job'[j].cancel /\ Unproven(j)' = {}
    <2>1. \A m \in Unproven(j)' : m \in Unproven(j) BY <1>9, <1>12 DEF Unproven
    <2> QED BY <1>1, <1>9, <1>13, <2>1 DEF JobSound
  <1> QED BY <1>9, <1>12, <1>14 DEF JobEvolves

\* An event that leaves the attempts alone.
LEMMA AttemptsKept ==
    ASSUME JobInv, NEW j \in Jobs, NEW n, NEW s \in JobType, UNCHANGED chat,
           job' = [job EXCEPT ![j] = s], s.rev > job[j].rev, s.attempts = job[j].attempts,
           s.cancel => s.status \in {"CANCELLED", "CANCEL_REQUESTED"},
           s.status = "CANCELLED" => s.cancel /\ Unproven(j) = {}
    PROVE  JobEvolves(j, n)
  <1>1. /\ job' \in [Jobs -> JobType] /\ job'[j] = s
        /\ \A k \in Jobs \ {j} : job'[k] = job[k]
    BY DEF JobInv, JobTypes
  <1>2. Attempts(j)' = Attempts(j) /\ Last(j)' = Last(j) /\ Unproven(j)' = Unproven(j)
    BY <1>1 DEF Attempts, Last, Unproven
  <1>3. ASSUME NEW m \in Attempts(j) PROVE BoundAttempt(j, m)'
    BY <1>1 DEF JobInv, JobSound, BoundAttempt, Said, Answers
  <1> QED BY <1>1, <1>2, <1>3 DEF JobEvolves

LEMMA CancelledEvolves ==
    ASSUME JobInv, NEW j \in Jobs, NEW n, UNCHANGED chat, job' = [job EXCEPT ![j] = Cancelled(j)]
    PROVE  JobEvolves(j, n)
  <1>1. PICK st : st = IF Unproven(j) = {} THEN "CANCELLED" ELSE "CANCEL_REQUESTED" OBVIOUS
  <1>2. PICK s : s = Cancelled(j) OBVIOUS
  <1>3. job[j] \in JobType BY DEF JobInv, JobTypes
  <1>4. s = [rev |-> job[j].rev + 1, status |-> st, cancel |-> TRUE, attempts |-> job[j].attempts,
             output |-> job[j].output, lateOutput |-> job[j].lateOutput]
    BY <1>1, <1>2, <1>3 DEF Cancelled, JobType
  <1>5. /\ job[j].rev + 1 \in Nat /\ job[j].rev + 1 > job[j].rev /\ st \in JobStatuses
        /\ job[j].output \in BOOLEAN /\ job[j].lateOutput \in BOOLEAN
    BY <1>1, <1>3 DEF JobType, JobStatuses
  <1>6. s \in JobType
    <2>1. job[j].attempts \in Seq(AttemptType) BY <1>3 DEF JobType
    <2> QED BY <1>4, <1>5, <2>1, JobMade
  <1> QED BY <1>1, <1>2, <1>4, <1>5, <1>6, AttemptsKept

\* An export counts as an output or as a late one.
Outcome(r, x, y, st) == [r EXCEPT !.rev = @ + 1, !.output = x, !.lateOutput = y, !.status = st]

LEMMA OutcomeHas ==
    ASSUME NEW r \in JobType, NEW x \in BOOLEAN, NEW y \in BOOLEAN, NEW st \in JobStatuses
    PROVE  LET s == Outcome(r, x, y, st)
           IN  /\ s \in JobType /\ s.rev > r.rev /\ s.status = st /\ s.cancel = r.cancel
               /\ s.attempts = r.attempts /\ s.output = x
  <1>1. PICK s : s = Outcome(r, x, y, st) OBVIOUS
  <1>2. s = [rev |-> r.rev + 1, status |-> st, cancel |-> r.cancel, attempts |-> r.attempts,
             output |-> x, lateOutput |-> y]
    BY <1>1 DEF Outcome, JobType
  <1>3. /\ r.rev + 1 \in Nat /\ r.rev + 1 > r.rev /\ r.cancel \in BOOLEAN
        /\ r.attempts \in Seq(AttemptType)
    BY DEF JobType
  <1>4. s \in JobType BY <1>2, <1>3, JobMade
  <1> QED BY <1>1, <1>2, <1>3, <1>4

LEMMA ExportedForm ==
    ASSUME JobInv, NEW j \in Jobs, NEW k
    PROVE  \E x \in BOOLEAN, y \in BOOLEAN, st \in JobStatuses :
              /\ x = (job[j].output \/ ~Late(j, k))
              /\ st = IF Late(j, k) THEN Blocked(j, k, job[j].status) ELSE "TECHNICALLY_VALIDATED"
              /\ Exported(j, k) = Outcome(job[j], x, y, st)
  <1>1. PICK x \in BOOLEAN : x = (job[j].output \/ ~Late(j, k)) OBVIOUS
  <1>2. PICK y \in BOOLEAN : y = (job[j].lateOutput \/ Late(j, k)) OBVIOUS
  <1>3. PICK st : st = IF Late(j, k) THEN Blocked(j, k, job[j].status) ELSE "TECHNICALLY_VALIDATED"
    OBVIOUS
  <1>4. Exported(j, k) = Outcome(job[j], x, y, st) BY <1>1, <1>2, <1>3 DEF Exported, Outcome
  <1>5. st \in JobStatuses
    <2>1. job[j].status \in JobStatuses BY DEF JobInv, JobTypes, JobType
    <2> QED BY <1>3, <2>1 DEF Blocked, JobStatuses
  <1> QED BY <1>1, <1>3, <1>4, <1>5

LEMMA ExportedEvolves ==
    ASSUME JobInv, NEW j \in Jobs, NEW k, NEW n, UNCHANGED chat,
           job' = [job EXCEPT ![j] = Exported(j, k)]
    PROVE  JobEvolves(j, n)
  <1>1. PICK x \in BOOLEAN, y \in BOOLEAN, st \in JobStatuses :
           /\ st = IF Late(j, k) THEN Blocked(j, k, job[j].status) ELSE "TECHNICALLY_VALIDATED"
           /\ Exported(j, k) = Outcome(job[j], x, y, st)
    BY ExportedForm
  <1>2. job[j] \in JobType /\ JobSound(j) BY DEF JobInv, JobTypes
  <1>3. PICK s : s = Exported(j, k) OBVIOUS
  <1>4. /\ s \in JobType /\ s.rev > job[j].rev /\ s.status = st /\ s.cancel = job[j].cancel
        /\ s.attempts = job[j].attempts
    BY <1>1, <1>2, <1>3, OutcomeHas
  <1>5. /\ job[j].cancel => st = job[j].status
        /\ st = "CANCELLED" => job[j].status = "CANCELLED"
    BY <1>1 DEF Late, Blocked
  <1> QED BY <1>2, <1>3, <1>4, <1>5, AttemptsKept DEF JobSound

-----------------------------------------------------------------------------
(* Commands that store an event. *)

\* The idle command knows nothing.
LEMMA Ends ==
    ASSUME JobInv, NEW p \in Procs, End(p)
    PROVE  /\ Shape' /\ proc'[p].pc \notin Attentive /\ Counters(p)'
           /\ \A q \in Procs \ {p} : proc'[q] = proc[q]
  <1>1. Shape' /\ proc'[p] = Idle /\ \A q \in Procs \ {p} : proc'[q] = proc[q]
    BY Replaced, IdleShape DEF End, JobInv, JobTypes
  <1>2. Idle.n = 0 /\ Idle.rev = 0 /\ Idle.base = 0 /\ Idle.pc = "idle" BY DEF Idle
  <1> QED BY <1>1, <1>2 DEF Attentive, Pending, Counters

\* An event that takes nothing back, while commands go on or end.
LEMMA QuietlyMoves ==
    ASSUME JobInv, NEW j \in Jobs, JobEvolves(j, 0), UNCHANGED <<chat, sent, prompted>>,
           Shape', \A q \in Procs : proc'[q] = proc[q] \/ (proc'[q].pc \notin Attentive /\ Counters(q)')
    PROVE  JobInv'
  <1>1. ~PressedFor(j, 0) /\ <<j, 0>> \notin prompted BY Numbered
  <1>2. ASSUME NEW q \in Procs, proc'[q].pc \in Pending PROVE <<proc'[q].job, proc'[q].n>> # <<j, 0>>
    BY <1>2, Numbered DEF Attentive
  <1> QED BY <1>1, <1>2, JobMoves

LEMMA CancelKeeps ==
    ASSUME JobInv, NEW j \in Jobs, Cancel(j)
    PROVE  JobInv'
  <1>1. JobEvolves(j, 0) BY CancelledEvolves DEF Cancel, pageVars
  <1>2. Shape' BY DEF Cancel, JobInv, JobTypes, Shape
  <1> QED BY <1>1, <1>2, QuietlyMoves DEF Cancel, pageVars

LEMMA PublishKeepsJobs ==
    ASSUME JobInv, NEW p \in Procs, proc[p].job \in Jobs, PublishOriginal(p)
    PROVE  JobInv'
  <1>1. UNCHANGED <<chat, sent, prompted>> /\ End(p) BY DEF PublishOriginal, pageVars
  <1>2. CASE UNCHANGED job BY <1>1, <1>2, Ends, CommandRests
  <1>3. CASE job' = [job EXCEPT ![J(p)] = Exported(J(p), proc[p].n)]
    <2>1. PICK j \in Jobs : j = J(p) BY DEF J
    <2>2. JobEvolves(j, 0) BY <1>1, <1>3, <2>1, ExportedEvolves
    <2> QED BY <1>1, <2>2, Ends, QuietlyMoves
  <1> QED BY <1>2, <1>3 DEF PublishOriginal

LEMMA RecordStores ==
    ASSUME JobInv, NEW p \in Procs, Record(p)
    PROVE  \/ UNCHANGED job
           \/ \E j \in Jobs : \E o : JobEvolves(j, 0) /\ job' = [job EXCEPT ![j] = Observed(j, o)]
  <1> SUFFICES ASSUME Provable(J(p), proc[p].obs),
                      job' = [job EXCEPT ![J(p)] = Observed(J(p), proc[p].obs)]
               PROVE  \E j \in Jobs : \E o : JobEvolves(j, 0) /\ job' = [job EXCEPT ![j] = Observed(j, o)]
    BY DEF Record
  <1>1. Knows(p) /\ proc[p].pc = "record" BY DEF JobInv, Record, At
  <1>2. PICK j \in Jobs, o \in {proc[p].obs} : j = J(p) /\ o = proc[p].obs BY <1>1 DEF Knows, J
  <1>3. /\ o.user \in Nat /\ o.turn \in Nat /\ o.status \in {"GENERATING", "GENERATED", "FAILED"}
        /\ Said(o.user, j, o.n) /\ (o.turn # 0 => Answers(o.turn, o.user))
    BY <1>1, <1>2 DEF Knows, J
  <1>4. Provable(j, o) /\ job' = [job EXCEPT ![j] = Observed(j, o)] BY <1>2
  <1>5. JobEvolves(j, 0) BY <1>3, <1>4, ObservedEvolves DEF Record, pageVars
  <1> QED BY <1>4, <1>5

LEMMA RecordKeeps ==
    ASSUME JobInv, NEW p \in Procs, Record(p)
    PROVE  JobInv'
  <1>1. UNCHANGED <<chat, sent, prompted>> /\ End(p) BY DEF Record, pageVars
  <1>2. CASE UNCHANGED job BY <1>1, <1>2, Ends, CommandRests
  <1>3. ASSUME NEW j \in Jobs, JobEvolves(j, 0) PROVE JobInv'
    BY <1>1, <1>3, Ends, QuietlyMoves
  <1> QED BY <1>2, <1>3, RecordStores

LEMMA UnsentStores ==
    ASSUME JobInv, NEW p \in Procs, Unsent(p)
    PROVE  \/ UNCHANGED job
           \/ \E j \in Jobs : \E n, o : /\ j = J(p) /\ n = proc[p].n /\ JobEvolves(j, n)
                                        /\ job' = [job EXCEPT ![j] = Observed(j, o)]
  <1> DEFINE u == Seen(proc[p].n, "FAILED_PRE_SEND", 0, 0)
  <1> SUFFICES ASSUME Provable(J(p), u), job' = [job EXCEPT ![J(p)] = Observed(J(p), u)]
               PROVE  \E j \in Jobs : \E n, o : /\ j = J(p) /\ n = proc[p].n /\ JobEvolves(j, n)
                                                /\ job' = [job EXCEPT ![j] = Observed(j, o)]
    BY DEF Unsent
  <1>1. Knows(p) /\ proc[p].pc = "unsent" BY DEF JobInv, Unsent, At
  <1>2. PICK j \in Jobs, n \in {proc[p].n} : j = J(p) /\ n = proc[p].n BY <1>1 DEF Knows, J, Pending
  <1>3. PICK o : o = Seen(n, "FAILED_PRE_SEND", 0, 0) OBVIOUS
  <1>4. o.user = 0 /\ o.turn = 0 /\ o.status = "FAILED_PRE_SEND" /\ o.n = n BY <1>3 DEF Seen
  <1>5. Provable(j, o) /\ job' = [job EXCEPT ![j] = Observed(j, o)] BY <1>2, <1>3
  <1>6. JobEvolves(j, n)
    <2>1. /\ o.user \in Nat /\ o.turn \in Nat /\ o.status \notin {"GENERATING", "GENERATED"}
          /\ o.status \in {"GENERATING", "GENERATED", "FAILED", "FAILED_PRE_SEND"}
          /\ o.status = "FAILED_PRE_SEND" => n = o.n
      BY <1>4
    <2> QED BY <1>5, <2>1, ObservedEvolves DEF Unsent, pageVars
  <1> QED BY <1>2, <1>5, <1>6

LEMMA UnsentKeeps ==
    ASSUME JobInv, NEW p \in Procs, Unsent(p)
    PROVE  JobInv'
  <1>1. UNCHANGED <<chat, sent, prompted>> /\ End(p) BY DEF Unsent, pageVars
  <1>2. CASE UNCHANGED job BY <1>1, <1>2, Ends, CommandRests
  <1>3. ASSUME NEW j \in Jobs, NEW n, j = J(p), n = proc[p].n, JobEvolves(j, n) PROVE JobInv'
    <2>1. Knows(p) /\ proc[p].pc = "unsent" BY DEF JobInv, Unsent, At
    <2>2. /\ ~PressedFor(j, n) /\ <<j, n>> \notin prompted
          /\ \A q \in Procs \ {p} : proc[q].pc \in Pending => <<proc[q].job, proc[q].n>> # <<j, n>>
      BY <1>3, <2>1 DEF Knows, J, Pending, Sendable
    <2>3. \A q \in Procs : proc'[q].pc \in Pending => <<proc'[q].job, proc'[q].n>> # <<j, n>>
      BY <1>1, <2>2, Ends DEF Attentive
    <2> QED BY <1>1, <1>3, <2>2, <2>3, Ends, JobMoves
  <1> QED BY <1>2, <1>3, UnsentStores

-----------------------------------------------------------------------------
(* Commands that only move on. *)

LEMMA StartKeeps ==
    ASSUME JobInv, NEW p \in Procs, NEW j \in Jobs, Start(p, j)
    PROVE  JobInv'
  <1>1. UNCHANGED <<job, chat, sent, prompted>> BY DEF Start, pageVars
  <1>2. PICK c : c = [Idle EXCEPT !.pc = "start", !.job = j, !.n = Last(j) + 1,
                                  !.rev = job[j].rev, !.base = Len(chat)] OBVIOUS
  <1>3. /\ DOMAIN c = CommandFields /\ c.pc = "start" /\ c.job = j /\ c.n = Last(j) + 1
        /\ c.rev = job[j].rev /\ c.base = Len(chat)
    BY <1>2 DEF Idle, CommandFields
  <1>4. Shape' /\ proc'[p] = c /\ \A q \in Procs \ {p} : proc'[q] = proc[q]
    BY <1>2, <1>3, Replaced DEF Start, Enter, JobInv, JobTypes
  <1>5. Last(j) \in Nat /\ job[j].rev \in Nat /\ Len(chat) \in Nat
    BY Numbered DEF JobInv, JobTypes, JobType
  <1>6. Counters(p)' BY <1>3, <1>4, <1>5 DEF Counters
  <1>7. Last(j)' = Last(j) BY <1>1 DEF Last
  <1>8. Knows(p)' BY <1>1, <1>3, <1>4, <1>5, <1>7 DEF Knows, Pending
  <1> QED BY <1>1, <1>4, <1>6, <1>8, CommandMoves

LEMMA ReconcileKeeps ==
    ASSUME JobInv, NEW p \in Procs, NEW j \in Jobs, Reconcile(p, j)
    PROVE  JobInv'
  <1>1. UNCHANGED <<job, chat, sent, prompted>> BY DEF Reconcile, pageVars
  <1>2. PICK c : c = [Idle EXCEPT !.pc = "look", !.job = j, !.n = Last(j), !.rev = job[j].rev] OBVIOUS
  <1>3. /\ DOMAIN c = CommandFields /\ c.pc = "look" /\ c.job = j /\ c.n = Last(j)
        /\ c.rev = job[j].rev /\ c.base = 0
    BY <1>2 DEF Idle, CommandFields
  <1>4. Shape' /\ proc'[p] = c /\ \A q \in Procs \ {p} : proc'[q] = proc[q]
    BY <1>2, <1>3, Replaced DEF Reconcile, Enter, JobInv, JobTypes
  <1>5. Last(j) \in Nat /\ job[j].rev \in Nat BY Numbered DEF JobInv, JobTypes, JobType
  <1>6. Counters(p)' BY <1>3, <1>4, <1>5 DEF Counters
  <1>7. Knows(p)' BY <1>3, <1>4 DEF Knows, Pending
  <1> QED BY <1>1, <1>4, <1>6, <1>7, CommandMoves

LEMMA ExportKeeps ==
    ASSUME JobInv, NEW p \in Procs, NEW j \in Jobs, Export(p, j)
    PROVE  JobInv'
  <1>1. UNCHANGED <<job, chat, sent, prompted>> BY DEF Export, pageVars
  <1>2. PICK c : c = [Idle EXCEPT !.pc = "export", !.job = j, !.n = Last(j), !.late = ~IOAllowed(j)]
    OBVIOUS
  <1>3. DOMAIN c = CommandFields /\ c.pc = "export" /\ c.n = Last(j) /\ c.rev = 0 /\ c.base = 0
    BY <1>2 DEF Idle, CommandFields
  <1>4. Shape' /\ proc'[p] = c /\ \A q \in Procs \ {p} : proc'[q] = proc[q]
    BY <1>2, <1>3, Replaced DEF Export, Enter, JobInv, JobTypes
  <1>5. Counters(p)' BY <1>3, <1>4, Numbered DEF Counters
  <1> QED BY <1>1, <1>3, <1>4, <1>5, CommandRests DEF Attentive, Pending

\* What the classifier tells of an attempt is there to be seen.
LEMMA ClassifyTells ==
    ASSUME JobInv, NEW j \in Jobs, NEW n \in Nat, NEW o, o = Classify(j, n), o # None
    PROVE  /\ o.n \in Nat /\ o.user \in Nat /\ o.turn \in Nat
           /\ o.status \in {"GENERATING", "GENERATED", "FAILED"}
           /\ Said(o.user, j, o.n)
           /\ o.turn # 0 => Answers(o.turn, o.user)
  <1> DEFINE u == CHOOSE i \in Own(j, n) : TRUE
             rs == {i \in After(u) : chat[i].role = "assistant"}
             t == CHOOSE i \in rs : TRUE
  <1>1. chat \in Seq(MessageType) /\ DOMAIN chat \subseteq Nat BY DEF JobInv, JobTypes
  <1>2. Cardinality(Own(j, n)) = 1 BY DEF Classify
  <1>3. Own(j, n) # {}
    <2>1. Cardinality({}) = 0 BY FS_EmptySet
    <2> QED BY <1>2, <2>1
  <1>4. u \in DOMAIN chat /\ chat[u].of = <<j, n>> BY <1>3 DEF Own
  <1>5. CASE rs = {}
    <2>1. o = Seen(n, "GENERATING", u, 0) BY <1>2, <1>5 DEF Classify
    <2>2. o.n = n /\ o.user = u /\ o.turn = 0 /\ o.status = "GENERATING" BY <2>1 DEF Seen
    <2> QED BY <1>1, <1>4, <2>2 DEF Said
  <1>6. CASE rs # {}
    <2>1. /\ rs \ Replies(u) = {}
          /\ o = Seen(n, CASE chat[t].state = "refused" -> "FAILED"
                           [] Generating -> "GENERATING"
                           [] chat[t].state = "image" -> "GENERATED"
                           [] OTHER -> "FAILED", u, t)
      BY <1>2, <1>6 DEF Classify
    <2>2. PICK st \in {"GENERATING", "GENERATED", "FAILED"} : o = Seen(n, st, u, t) BY <2>1
    <2>3. t \in DOMAIN chat /\ chat[t].parent = u BY <1>6, <2>1 DEF Replies, After
    <2>4. o.n = n /\ o.user = u /\ o.turn = t /\ o.status = st BY <2>2 DEF Seen
    <2> HIDE DEF u, t
    <2> QED BY <1>1, <1>4, <2>3, <2>4 DEF Said, Answers
  <1> QED BY <1>5, <1>6

LEMMA AttestKeeps ==
    ASSUME JobInv, NEW p \in Procs, NEW j \in Jobs, Attest(p, j)
    PROVE  JobInv'
  <1>1. UNCHANGED <<job, chat, sent, prompted>> BY DEF Attest, pageVars
  <1>2. PICK o : o = Classify(j, Last(j)) OBVIOUS
  <1>3. PICK c : c = [Idle EXCEPT !.pc = "attest", !.job = j, !.n = Last(j), !.obs = o,
                                  !.late = ~IOAllowed(j)] OBVIOUS
  <1>4. /\ DOMAIN c = CommandFields /\ c.pc = "attest" /\ c.job = j /\ c.n = Last(j)
        /\ c.obs = o /\ c.rev = 0 /\ c.base = 0
    BY <1>3 DEF Idle, CommandFields
  <1>5. Shape' /\ proc'[p] = c /\ \A q \in Procs \ {p} : proc'[q] = proc[q]
    BY <1>2, <1>3, <1>4, Replaced DEF Attest, Enter, JobInv, JobTypes
  <1>6. Counters(p)' BY <1>4, <1>5, Numbered DEF Counters
  <1>7. /\ o.n \in Nat /\ o.user \in Nat /\ o.turn \in Nat
        /\ o.status \in {"GENERATING", "GENERATED", "FAILED"}
        /\ Said(o.user, j, o.n) /\ (o.turn # 0 => Answers(o.turn, o.user))
    BY <1>2, Numbered, ClassifyTells DEF Attest
  <1>8. Knows(p)' BY <1>1, <1>4, <1>5, <1>7 DEF Knows, Pending, Said, Answers
  <1> QED BY <1>1, <1>5, <1>6, <1>8, CommandMoves

LEMMA LookKeeps ==
    ASSUME JobInv, NEW p \in Procs, Look(p)
    PROVE  JobInv'
  <1>1. UNCHANGED <<job, chat, sent, prompted>> BY DEF Look, pageVars
  <1>2. PICK o : o = Classify(J(p), proc[p].n) OBVIOUS
  <1>3. CASE End(p) BY <1>1, <1>3, Ends, CommandRests
  <1>4. CASE o # None /\ proc' = [proc EXCEPT ![p].pc = "record", ![p].obs = o]
    <2>1. Knows(p) /\ proc[p].pc = "look" BY DEF JobInv, Look, At
    <2>2. PICK j \in Jobs, n \in Nat : j = J(p) /\ n = proc[p].n
      BY <2>1 DEF Knows, J, JobInv, JobTypes
    <2>3. /\ o.n \in Nat /\ o.user \in Nat /\ o.turn \in Nat
          /\ o.status \in {"GENERATING", "GENERATED", "FAILED"}
          /\ Said(o.user, j, o.n) /\ (o.turn # 0 => Answers(o.turn, o.user))
      BY <1>2, <1>4, <2>2, ClassifyTells
    <2>4. /\ Shape' /\ proc'[p].pc = "record" /\ proc'[p].obs = o /\ proc'[p].job = proc[p].job
          /\ \A q \in Procs \ {p} : proc'[q] = proc[q]
      BY <1>4, Advanced DEF JobInv, JobTypes
    <2>5. Counters(p)' BY <1>4 DEF Counters, JobInv, JobTypes, Shape, CommandFields
    <2>6. Knows(p)' BY <1>1, <2>2, <2>3, <2>4 DEF Knows, Pending, Said, Answers, J
    <2> QED BY <1>1, <2>4, <2>5, <2>6, CommandMoves
  <1> QED BY <1>2, <1>3, <1>4 DEF Look

LEMMA AttestNowKeeps ==
    ASSUME JobInv, NEW p \in Procs, AttestNow(p)
    PROVE  JobInv'
  <1>1. UNCHANGED <<job, chat, sent, prompted>> BY DEF AttestNow, pageVars
  <1>2. Knows(p) /\ proc[p].pc = "attest" BY DEF JobInv, AttestNow, At
  <1>3. PICK j \in Jobs, r \in Nat : j = proc[p].job /\ r = job[j].rev
    BY <1>2 DEF Knows, JobInv, JobTypes, JobType
  <1>4. proc' = [proc EXCEPT ![p].pc = "record", ![p].rev = r] BY <1>3 DEF AttestNow, J
  <1>5. /\ Shape' /\ proc'[p].pc = "record" /\ proc'[p].rev = r /\ proc'[p].job = j
        /\ proc'[p].obs = proc[p].obs /\ proc'[p].n = proc[p].n /\ proc'[p].base = proc[p].base
        /\ \A q \in Procs \ {p} : proc'[q] = proc[q]
    BY <1>3, <1>4 DEF JobInv, JobTypes, Shape, CommandFields
  <1>6. Counters(p)' BY <1>5 DEF Counters, JobInv, JobTypes
  <1>7. Knows(p)' BY <1>1, <1>2, <1>3, <1>5 DEF Knows, Pending, Said, Answers
  <1> QED BY <1>1, <1>5, <1>6, <1>7, CommandMoves

\* A command that holds its attempt and goes on holding it.
LEMMA Holds ==
    ASSUME JobInv, NEW p \in Procs, proc[p].pc \in Pending, NEW pc \in Pending, Go(p, pc),
           UNCHANGED <<job, chat, sent, prompted>>
    PROVE  JobInv'
  <1>1. /\ Shape' /\ proc'[p].pc = pc /\ proc'[p].job = proc[p].job /\ proc'[p].n = proc[p].n
        /\ proc'[p].rev = proc[p].rev /\ proc'[p].base = proc[p].base
        /\ \A q \in Procs \ {p} : proc'[q] = proc[q]
    BY DEF Go, JobInv, JobTypes, Shape, CommandFields
  <1>2. Counters(p)' BY <1>1 DEF Counters, JobInv, JobTypes
  <1>3. PICK j \in Jobs, n \in Nat : j = proc[p].job /\ n = proc[p].n
    BY DEF JobInv, JobTypes, Knows
  <1>4. /\ Sendable(j, n) /\ <<j, n>> \notin prompted
        /\ \A q \in Procs \ {p} : proc[q].pc \in Pending => <<proc[q].job, proc[q].n>> # <<j, n>>
    BY <1>3 DEF JobInv, Knows
  <1>5. Sendable(j, n)' BY <1>4 DEF Sendable, Unproven, Attempts, PressedFor
  <1>6. Knows(p)' BY <1>1, <1>3, <1>4, <1>5 DEF Knows, Pending
  <1> QED BY <1>1, <1>2, <1>6, CommandMoves

-----------------------------------------------------------------------------
(* A new attempt. *)

\* A begun job has one attempt more, the only one that is not disproved.
LEMMA BeganHas ==
    ASSUME NEW r \in JobType, NEW base \in Nat
    PROVE  LET s == Began(r, base)
               n == Len(r.attempts) + 1
           IN  /\ s \in JobType /\ s.rev > r.rev /\ s.cancel = r.cancel
               /\ s.status = "SUBMISSION_UNKNOWN"
               /\ Len(s.attempts) = n /\ DOMAIN s.attempts = DOMAIN r.attempts \cup {n}
               /\ n \notin DOMAIN r.attempts
               /\ s.attempts[n].status = "SUBMISSION_UNKNOWN"
               /\ s.attempts[n].user = 0 /\ s.attempts[n].turn = 0
               /\ \A m \in DOMAIN r.attempts : s.attempts[m] = r.attempts[m]
  <1>1. PICK a : a = [status |-> "SUBMISSION_UNKNOWN", base |-> base, user |-> 0, turn |-> 0, out |-> FALSE]
    OBVIOUS
  <1>2. a \in AttemptType /\ a.status = "SUBMISSION_UNKNOWN" /\ a.user = 0 /\ a.turn = 0
    BY <1>1 DEF AttemptType, AttemptStatuses
  <1>3. r.attempts \in Seq(AttemptType) BY DEF JobType
  <1>4. PICK as : as = Append(r.attempts, a) OBVIOUS
  <1>5. /\ as \in Seq(AttemptType) /\ Len(as) = Len(r.attempts) + 1 /\ as[Len(r.attempts) + 1] = a
        /\ \A m \in 1..Len(r.attempts) : as[m] = r.attempts[m]
    BY <1>2, <1>3, <1>4, AppendProperties
  <1>6. PICK s : s = Rewritten(r, as, "SUBMISSION_UNKNOWN") OBVIOUS
  <1>7. /\ s \in JobType /\ s.rev > r.rev /\ s.attempts = as /\ s.cancel = r.cancel
        /\ s.status = "SUBMISSION_UNKNOWN"
    <2>1. "SUBMISSION_UNKNOWN" \in JobStatuses BY DEF JobStatuses, AttemptStatuses
    <2> QED BY <1>5, <1>6, <2>1, JobRewritten
  <1>8. Began(r, base) = s
    <2>1. Began(r, base) = [r EXCEPT !.rev = r.rev + 1, !.status = "SUBMISSION_UNKNOWN", !.attempts = as]
      BY <1>1, <1>4 DEF Began
    <2> QED BY <1>6, <2>1 DEF Rewritten, JobType
  <1>9. /\ DOMAIN as = DOMAIN r.attempts \cup {Len(r.attempts) + 1}
        /\ Len(r.attempts) + 1 \notin DOMAIN r.attempts /\ DOMAIN r.attempts = 1..Len(r.attempts)
    <2>1. PICK l \in Nat : l = Len(r.attempts) BY <1>3
    <2>2. DOMAIN r.attempts = 1..l /\ DOMAIN as = 1..(l + 1)
      <3>1. DOMAIN r.attempts = 1..Len(r.attempts) BY <1>3, LenProperties
      <3>2. DOMAIN as = 1..Len(as) BY <1>5, LenProperties
      <3> QED BY <1>5, <2>1, <3>1, <3>2
    <2>3. 1..(l + 1) = (1..l) \cup {l + 1} /\ l + 1 \notin 1..l OBVIOUS
    <2> QED BY <2>1, <2>2, <2>3
  <1> QED BY <1>2, <1>5, <1>7, <1>8, <1>9

\* The conversation is free and nothing of the job can still be sent, so nobody else is
\* disturbed: who may press, holds or has pressed an attempt has one of another job.
LEMMA BeginKeeps ==
    ASSUME JobInv, NEW p \in Procs, Begin(p)
    PROVE  JobInv'
  <1>1. UNCHANGED <<chat, sent, prompted>> BY DEF Begin, pageVars
  <1>2. CASE UNCHANGED job /\ End(p) BY <1>1, <1>2, Ends, CommandRests
  <1>3. CASE ~(UNCHANGED job /\ End(p))
    <2>1. /\ BeginAllowed(J(p), proc[p].rev)
          /\ job' = [job EXCEPT ![J(p)] = Began(@, proc[p].base)]
      BY <1>3 DEF Begin
    <2>2. PICK pc \in {"hand", "fill"} : proc' = [proc EXCEPT ![p].rev = @ + 1, ![p].pc = pc]
      BY <1>3 DEF Begin
    <2>3. Knows(p) /\ proc[p].pc = "start" BY DEF JobInv, Begin, At
    <2>4. PICK j \in Jobs, n \in Nat : j = proc[p].job /\ n = proc[p].n
      BY <2>3 DEF Knows, JobInv, JobTypes
    <2>5. n = Last(j) + 1 BY <2>1, <2>3, <2>4 DEF BeginAllowed, J, Knows
    <2>6. ~job[j].cancel /\ Unproven(j) = {} /\ Reserved \subseteq {j}
      BY <2>1, <2>4 DEF BeginAllowed, Beginnable, J
    <2>7. /\ Shape' /\ proc'[p].pc = pc /\ proc'[p].job = j /\ proc'[p].n = n /\ Counters(p)'
          /\ \A q \in Procs \ {p} : proc'[q] = proc[q]
      BY <2>2, <2>4 DEF JobInv, JobTypes, Shape, CommandFields, Counters
    <2>8. /\ job'[j] \in JobType /\ job'[j].rev > job[j].rev /\ ~job'[j].cancel
          /\ job'[j].status = "SUBMISSION_UNKNOWN"
          /\ Last(j)' = n /\ Attempts(j)' = Attempts(j) \cup {n} /\ n \notin Attempts(j)
          /\ job'[j].attempts[n].status = "SUBMISSION_UNKNOWN"
          /\ job'[j].attempts[n].user = 0 /\ job'[j].attempts[n].turn = 0
          /\ \A m \in Attempts(j) : job'[j].attempts[m] = job[j].attempts[m]
      <3>1. job[j] \in JobType /\ proc[p].base \in Nat BY DEF JobInv, JobTypes
      <3>2. PICK s : s = Began(job[j], proc[p].base) OBVIOUS
      <3>3. job'[j] = s BY <2>1, <2>4, <3>2 DEF J, JobInv, JobTypes
      <3>4. /\ s \in JobType /\ s.rev > job[j].rev /\ s.cancel = job[j].cancel
            /\ s.status = "SUBMISSION_UNKNOWN" /\ Len(s.attempts) = n
            /\ DOMAIN s.attempts = DOMAIN job[j].attempts \cup {n} /\ n \notin DOMAIN job[j].attempts
            /\ s.attempts[n].status = "SUBMISSION_UNKNOWN"
            /\ s.attempts[n].user = 0 /\ s.attempts[n].turn = 0
            /\ \A m \in DOMAIN job[j].attempts : s.attempts[m] = job[j].attempts[m]
        <4>1. n = Len(job[j].attempts) + 1 BY <2>5 DEF Last
        <4> QED BY <3>1, <3>2, <4>1, BeganHas
      <3> QED BY <2>6, <3>3, <3>4 DEF Last, Attempts
    <2>9. \A k \in Jobs \ {j} : job'[k] = job[k] BY <2>1, <2>4 DEF J, JobInv, JobTypes
    <2>10. Unproven(j)' = {n} BY <2>6, <2>8 DEF Unproven
    <2>11. \A k \in Jobs \ {j} : Unproven(k)' = Unproven(k) /\ Last(k)' = Last(k) /\ Attempts(k)' = Attempts(k)
      BY <2>9 DEF Unproven, Attempts, Last
    <2>12. (\A m : ~PressedFor(j, m)) /\ (\A m : <<j, m>> \notin prompted)
      <3>1. ASSUME NEW m PROVE ~PressedFor(j, m) BY <2>6 DEF JobInv, Presses, PressedFor
      <3>2. ASSUME NEW m PROVE <<j, m>> \notin prompted
        <4>1. \A a \in prompted : a[2] \in Unproven(a[1]) BY DEF JobInv, Presses, Sendable
        <4> QED BY <2>6, <4>1
      <3> QED BY <3>1, <3>2
    <2>13. \A q \in Procs : proc[q].pc \in Pending => proc[q].job \in Jobs \ {j}
      BY <2>6 DEF JobInv, Knows, Sendable
    <2>14. JobTypes'
      <3>1. job' \in [Jobs -> JobType]
        <4>1. DOMAIN job' = Jobs BY <2>1 DEF JobInv, JobTypes
        <4>2. \A k \in Jobs : job'[k] \in JobType BY <2>8, <2>9 DEF JobInv, JobTypes
        <4>3. job' = [k \in Jobs |-> job'[k]] BY <2>1, <4>1 DEF JobInv, JobTypes
        <4> QED BY <4>2, <4>3
      <3>2. \A q \in Procs : proc'[q].n \in Nat /\ proc'[q].rev \in Nat /\ proc'[q].base \in Nat
        BY <2>7 DEF Counters, JobInv, JobTypes
      <3> QED BY <1>1, <2>7, <3>1, <3>2 DEF JobInv, JobTypes
    <2>15. ASSUME NEW k \in Jobs PROVE JobSound(k)'
      <3>1. CASE k = j
        <4>1. BoundAttempt(j, n)' BY <2>8 DEF BoundAttempt
        <4>2. ASSUME NEW m \in Attempts(j) PROVE BoundAttempt(j, m)'
          BY <1>1, <2>8 DEF JobInv, JobSound, BoundAttempt, Said, Answers
        <4> QED BY <2>8, <2>10, <3>1, <4>1, <4>2 DEF JobSound
      <3>2. CASE k # j
        <4>1. job'[k] = job[k] /\ JobSound(k) BY <2>9, <3>2 DEF JobInv
        <4> QED BY <1>1, <4>1 DEF JobSound, BoundAttempt, Said, Answers, Unproven, Attempts, Last
      <3> QED BY <3>1, <3>2
    <2>16. ASSUME NEW q \in Procs PROVE Knows(q)'
      <3>1. CASE q = p
        <4>1. Sendable(j, n)' BY <1>1, <2>10, <2>12 DEF Sendable, PressedFor
        <4>2. \A r \in Procs \ {p} : proc'[r].pc \in Pending => <<proc'[r].job, proc'[r].n>> # <<j, n>>
          BY <2>7, <2>13
        <4> QED BY <1>1, <2>7, <2>12, <3>1, <4>1, <4>2 DEF Knows, Pending
      <3>2. CASE q # p
        <4>1. proc'[q] = proc[q] /\ Knows(q) BY <2>7, <3>2 DEF JobInv
        <4>2. ASSUME proc[q].pc = "start"
              PROVE  /\ proc[q].rev <= job'[proc[q].job].rev
                     /\ proc[q].rev = job'[proc[q].job].rev => proc[q].n = Last(proc[q].job)' + 1
          <5>1. PICK k \in Jobs : k = proc[q].job BY <4>1, <4>2 DEF Knows
          <5>2. CASE k = j
            <6>1. proc[q].rev <= job[j].rev BY <4>1, <4>2, <5>1, <5>2 DEF Knows
            <6>2. proc[q].rev \in Nat /\ job[j].rev \in Nat /\ job'[j].rev \in Nat
              BY <2>14 DEF JobInv, JobTypes, JobType
            <6> QED BY <2>8, <5>1, <5>2, <6>1, <6>2
          <5>3. CASE k # j
            <6>1. job'[k] = job[k] /\ Last(k)' = Last(k) BY <2>9, <2>11, <5>3
            <6> QED BY <4>1, <4>2, <5>1, <6>1 DEF Knows
          <5> QED BY <5>2, <5>3
        <4>3. ASSUME proc[q].pc \in Pending
              PROVE  /\ Sendable(proc[q].job, proc[q].n)'
                     /\ \A r \in Procs \ {q} : proc'[r].pc \in Pending =>
                           <<proc'[r].job, proc'[r].n>> # <<proc[q].job, proc[q].n>>
          <5>1. PICK k \in Jobs \ {j}, m \in {proc[q].n} : k = proc[q].job /\ m = proc[q].n BY <2>13, <4>3
          <5>2. Sendable(k, m) /\ Unproven(k)' = Unproven(k) BY <2>11, <4>1, <4>3, <5>1 DEF Knows
          <5>3. Sendable(k, m)' BY <1>1, <5>2 DEF Sendable, PressedFor
          <5>4. \A r \in Procs \ {q} : proc'[r].pc \in Pending => <<proc'[r].job, proc'[r].n>> # <<k, m>>
            BY <2>7, <4>1, <4>3, <5>1 DEF Knows
          <5> QED BY <4>1, <5>1, <5>3, <5>4
        <4> QED BY <1>1, <4>1, <4>2, <4>3 DEF Knows, Said, Answers
      <3> QED BY <3>1, <3>2
    <2>17. Presses'
      <3>1. ASSUME NEW i \in DOMAIN sent PROVE sent[i].n \in Unproven(sent[i].job)'
        <4>1. sent[i] \in PressType BY DEF JobInv, JobTypes
        <4>2. PICK k \in Jobs \ {j}, m \in {sent[i].n} : k = sent[i].job /\ m = sent[i].n
          BY <2>12, <4>1 DEF PressedFor, PressType
        <4>3. m \in Unproven(k)' BY <2>11, <4>2 DEF JobInv, Presses
        <4> QED BY <1>1, <4>2, <4>3
      <3>2. ASSUME NEW a \in prompted PROVE Sendable(a[1], a[2])'
        <4>1. a \in Jobs \X Nat BY DEF JobInv, JobTypes
        <4>2. a = <<a[1], a[2]>> /\ a[1] \in Jobs BY <4>1
        <4>3. a[1] \in Jobs \ {j} /\ Sendable(a[1], a[2]) BY <2>12, <4>2 DEF JobInv, Presses
        <4> QED BY <1>1, <2>11, <4>3 DEF Sendable, PressedFor
      <3> QED BY <1>1, <3>1, <3>2 DEF JobInv, Presses, PressedFor
    <2>18. OneReserved'
      <3>1. Reserved' \subseteq {j} BY <2>6, <2>9, <2>11 DEF Reserved
      <3> QED BY <3>1 DEF OneReserved
    <2>19. SentOnce' /\ OneInFlight'
      <3>1. ASSUME NEW i \in DOMAIN sent
            PROVE  job'[sent[i].job] = job[sent[i].job]
        <4>1. sent[i] \in PressType BY DEF JobInv, JobTypes
        <4>2. sent[i].job \in Jobs \ {j} BY <2>12, <4>1 DEF PressedFor, PressType
        <4> QED BY <2>9, <4>2
      <3> QED BY <1>1, <3>1 DEF JobInv, SentOnce, OneInFlight
    <2> QED BY <2>14, <2>15, <2>16, <2>17, <2>18, <2>19 DEF JobInv
  <1> QED BY <1>2, <1>3

-----------------------------------------------------------------------------
(* Send. *)

LEMMA HandKeeps ==
    ASSUME JobInv, NEW p \in Procs, Hand(p)
    PROVE  JobInv'
  <1>1. UNCHANGED <<job, chat, sent>> /\ End(p) BY DEF Hand
  <1>2. Knows(p) /\ proc[p].pc = "hand" BY DEF JobInv, Hand, At
  <1>3. PICK j \in Jobs, n \in Nat : j = J(p) /\ n = proc[p].n
    BY <1>2 DEF Knows, J, JobInv, JobTypes, Pending
  <1>4. prompted' = prompted \cup {<<j, n>>} BY <1>3 DEF Hand
  <1>5. /\ Sendable(j, n)
        /\ \A q \in Procs \ {p} : proc[q].pc \in Pending => <<proc[q].job, proc[q].n>> # <<j, n>>
    BY <1>2, <1>3 DEF Knows, J, Pending
  <1>6. JobTypes' BY <1>1, <1>4, Ends DEF JobInv, JobTypes, Counters
  <1>7. (\A k \in Jobs : JobSound(k))'
    BY <1>1 DEF JobInv, JobSound, BoundAttempt, Said, Answers, Unproven, Attempts, Last
  <1>8. ASSUME NEW q \in Procs PROVE Knows(q)'
    <2>1. CASE q = p BY <1>1, <2>1, Ends DEF Knows, Attentive, Pending
    <2>2. CASE q # p
      <3>1. proc'[q] = proc[q] /\ Knows(q) BY <1>1, <2>2, Ends DEF JobInv
      <3>2. \A r \in Procs : proc'[r].pc \in Pending => proc'[r] = proc[r]
        BY <1>1, Ends DEF Attentive
      <3>3. proc[q].pc \in Pending => <<proc[q].job, proc[q].n>> \notin prompted'
        BY <1>4, <1>5, <2>2, <3>1 DEF Knows
      <3> QED BY <1>1, <3>1, <3>2, <3>3 DEF Knows, Sendable, PressedFor, Said, Answers, Unproven, Attempts, Last
    <2> QED BY <2>1, <2>2
  <1>9. Presses'
    <2>1. ASSUME NEW a \in prompted' PROVE Sendable(a[1], a[2])
      BY <1>4, <1>5 DEF JobInv, Presses
    <2>2. \A k, m : Sendable(k, m) => Sendable(k, m)' BY <1>1 DEF Sendable, Unproven, Attempts, PressedFor
    <2> QED BY <1>1, <2>1, <2>2 DEF JobInv, Presses, PressedFor, Unproven, Attempts
  <1>10. SentOnce' /\ OneReserved' /\ OneInFlight'
    BY <1>1 DEF JobInv, SentOnce, OneReserved, Reserved, OneInFlight, Unproven, Attempts
  <1> QED BY <1>6, <1>7, <1>8, <1>9, <1>10 DEF JobInv

\* An attempt that may still be sent has no message, so it holds the conversation.
LEMMA SendableReserves ==
    ASSUME JobInv, NEW j \in Jobs, NEW n \in Nat, Sendable(j, n)
    PROVE  j \in Reserved /\ n = Last(j) /\ (\A k \in Jobs : ~PressedFor(j, n) /\ (k \in Reserved => k = j))
  <1>1. n \in Unproven(j) /\ n \in Attempts(j) BY DEF Sendable, Unproven
  <1>2. BoundAttempt(j, n) /\ n = Last(j) BY <1>1 DEF JobInv, JobSound
  <1>3. job[j].attempts[n].turn = 0
    BY <1>2 DEF BoundAttempt, Said, JobInv, Presses, Sendable
  <1>4. j \in Reserved BY <1>1, <1>3 DEF Reserved, Complete
  <1> QED BY <1>2, <1>4 DEF JobInv, OneReserved, Sendable

\* A press of Send by the one that held the attempt: a command that then looks, or a person.
LEMMA PressKeeps ==
    ASSUME JobInv, NEW j \in Jobs, NEW n \in Nat, Sendable(j, n), Press(j, n), UNCHANGED <<job, chat>>,
           prompted' \subseteq prompted, <<j, n>> \notin prompted', Shape',
           \A q \in Procs : /\ \/ proc'[q] = proc[q]
                               \/ proc'[q].pc = "look" /\ proc'[q].job \in Jobs /\ Counters(q)'
                            /\ proc'[q].pc \in Pending => <<proc'[q].job, proc'[q].n>> # <<j, n>>
    PROVE  JobInv'
  <1>1. PICK x \in PressType : sent' = Append(sent, x) /\ x.job = j /\ x.n = n
    <2>1. PICK x : x = [job |-> j, n |-> n, fate |-> "flying"] OBVIOUS
    <2>2. x \in PressType /\ x.job = j /\ x.n = n BY <2>1 DEF PressType, Fates
    <2> QED BY <2>1, <2>2 DEF Press
  <1>2. PICK l \in Nat : l = Len(sent) BY DEF JobInv, JobTypes
  <1>3. /\ sent \in Seq(PressType) /\ DOMAIN sent = 1..l /\ \A i \in DOMAIN sent : sent[i] \in PressType
    BY <1>2 DEF JobInv, JobTypes
  <1>4. /\ sent' \in Seq(PressType) /\ Len(sent') = l + 1 /\ sent'[l + 1] = x
        /\ \A i \in 1..l : sent'[i] = sent[i]
    BY <1>1, <1>2, <1>3, AppendProperties
  <1>5. DOMAIN sent' = 1..(l + 1) BY <1>4, LenProperties
  <1>6. \A i \in DOMAIN sent' : (i \in DOMAIN sent /\ sent'[i] = sent[i]) \/ (i = l + 1 /\ sent'[i] = x)
    BY <1>3, <1>4, <1>5
  <1>7. \A k, m : PressedFor(k, m)' <=> PressedFor(k, m) \/ <<k, m>> = <<j, n>>
    <2>1. \A i \in DOMAIN sent : i \in DOMAIN sent' /\ sent'[i] = sent[i] BY <1>3, <1>4, <1>5
    <2>2. l + 1 \in DOMAIN sent' BY <1>5
    <2> QED BY <1>1, <1>4, <1>6, <2>1, <2>2 DEF PressedFor
  <1>8. \A k, m : Sendable(k, m) /\ <<k, m>> # <<j, n>> => Sendable(k, m)'
    BY <1>7 DEF Sendable, Unproven, Attempts
  <1>9. j \in Reserved /\ n = Last(j) /\ ~PressedFor(j, n) /\ \A k \in Jobs : k \in Reserved => k = j
    BY SendableReserves
  <1>10. JobTypes' BY <1>4 DEF JobInv, JobTypes, Counters
  <1>11. (\A k \in Jobs : JobSound(k))'
    BY DEF JobInv, JobSound, BoundAttempt, Said, Answers, Unproven, Attempts, Last
  <1>12. ASSUME NEW q \in Procs PROVE Knows(q)'
    <2>1. CASE proc'[q].pc = "look" /\ proc'[q].job \in Jobs BY <2>1 DEF Knows, Pending
    <2>2. CASE proc'[q] = proc[q]
      <3>1. Knows(q) BY DEF JobInv
      <3>2. ASSUME proc[q].pc \in Pending
            PROVE  /\ Sendable(proc[q].job, proc[q].n)' /\ <<proc[q].job, proc[q].n>> \notin prompted'
                   /\ \A r \in Procs \ {q} : proc'[r].pc \in Pending =>
                         <<proc'[r].job, proc'[r].n>> # <<proc[q].job, proc[q].n>>
        <4>1. Sendable(proc[q].job, proc[q].n) /\ <<proc[q].job, proc[q].n>> \notin prompted
          BY <3>1, <3>2 DEF Knows
        <4>2. Sendable(proc[q].job, proc[q].n)' BY <1>8, <2>2, <3>2, <4>1
        <4>3. \A r \in Procs : proc'[r].pc \in Pending => proc'[r] = proc[r] BY DEF Pending
        <4> QED BY <3>1, <3>2, <4>1, <4>2, <4>3 DEF Knows
      <3> QED BY <2>2, <3>1, <3>2 DEF Knows, Said, Answers, Last
    <2> QED BY <2>1, <2>2
  <1>13. Presses'
    <2>1. ASSUME NEW i \in DOMAIN sent' PROVE sent'[i].n \in Unproven(sent'[i].job)
      BY <1>1, <1>6 DEF JobInv, Presses, Sendable
    <2>2. ASSUME NEW a \in prompted' PROVE Sendable(a[1], a[2])'
      <3>1. a \in Jobs \X Nat /\ Sendable(a[1], a[2]) BY DEF JobInv, JobTypes, Presses
      <3>2. a = <<a[1], a[2]>> BY <3>1
      <3> QED BY <1>8, <3>1, <3>2
    <2>3. Unproven(j)' = Unproven(j) /\ \A k : Unproven(k)' = Unproven(k) BY DEF Unproven, Attempts
    <2> QED BY <1>7, <2>1, <2>2, <2>3 DEF JobInv, Presses
  <1>14. SentOnce'
    <2>1. ASSUME NEW i \in DOMAIN sent, sent[i].job = j PROVE FALSE
      <3>1. sent[i].n \in Unproven(j) BY <2>1 DEF JobInv, Presses
      <3>2. sent[i].n = Last(j) BY <3>1 DEF JobInv, JobSound, Unproven
      <3> QED BY <1>9, <2>1, <3>2 DEF PressedFor
    <2> QED BY <1>1, <1>6, <2>1 DEF JobInv, SentOnce
  <1>15. OneInFlight'
    <2>1. ASSUME NEW i \in DOMAIN sent, sent[i].job # j
          PROVE  Complete(job[sent[i].job].attempts[sent[i].n])
      <3>1. sent[i].job \in Jobs BY <1>3 DEF PressType
      <3>2. sent[i].n \in Unproven(sent[i].job) BY DEF JobInv, Presses
      <3> QED BY <1>9, <2>1, <3>1, <3>2 DEF Reserved
    <2>2. ASSUME NEW i \in DOMAIN sent', NEW k \in DOMAIN sent', i < k, sent'[i].job # sent'[k].job
          PROVE  Complete(job[sent'[i].job].attempts[sent'[i].n])
      <3>1. i \in DOMAIN sent /\ sent'[i] = sent[i] BY <1>3, <1>4, <1>5, <2>2
      <3>2. CASE k \in DOMAIN sent
        <4>1. sent'[k] = sent[k] BY <1>3, <1>4, <3>2
        <4> QED BY <2>2, <3>1, <3>2, <4>1 DEF JobInv, OneInFlight
      <3>3. CASE k = l + 1 BY <1>1, <1>4, <2>1, <2>2, <3>1, <3>3
      <3> QED BY <1>6, <3>2, <3>3
    <2> QED BY <2>2 DEF OneInFlight
  <1>16. OneReserved' BY DEF JobInv, OneReserved, Reserved, Unproven, Attempts
  <1> QED BY <1>10, <1>11, <1>12, <1>13, <1>14, <1>15, <1>16 DEF JobInv

LEMMA ClickKeeps ==
    ASSUME JobInv, NEW p \in Procs, Click(p)
    PROVE  JobInv'
  <1>1. UNCHANGED <<job, chat, prompted>> /\ Go(p, "look") BY DEF Click
  <1>2. Knows(p) /\ proc[p].pc = "click" BY DEF JobInv, Click, At
  <1>3. PICK j \in Jobs, n \in Nat : j = J(p) /\ n = proc[p].n
    BY <1>2 DEF Knows, J, JobInv, JobTypes, Pending
  <1>4. Press(j, n) BY <1>3 DEF Click
  <1>5. /\ Sendable(j, n) /\ <<j, n>> \notin prompted
        /\ \A q \in Procs \ {p} : proc[q].pc \in Pending => <<proc[q].job, proc[q].n>> # <<j, n>>
    BY <1>2, <1>3 DEF Knows, J, Pending
  <1>6. /\ Shape' /\ proc'[p].pc = "look" /\ proc'[p].job = j /\ Counters(p)'
        /\ \A q \in Procs \ {p} : proc'[q] = proc[q]
    BY <1>1, <1>3 DEF Go, J, JobInv, JobTypes, Shape, CommandFields, Counters
  <1>7. \A q \in Procs : /\ \/ proc'[q] = proc[q]
                            \/ proc'[q].pc = "look" /\ proc'[q].job \in Jobs /\ Counters(q)'
                         /\ proc'[q].pc \in Pending => <<proc'[q].job, proc'[q].n>> # <<j, n>>
    BY <1>5, <1>6 DEF Pending
  <1> QED BY <1>1, <1>4, <1>5, <1>6, <1>7, PressKeeps

LEMMA ManualSendKeeps ==
    ASSUME JobInv, NEW a \in prompted, ManualSend(a)
    PROVE  JobInv'
  <1>1. a \in Jobs \X Nat BY DEF JobInv, JobTypes
  <1>2. PICK j \in Jobs, n \in Nat : a = <<j, n>> /\ a[1] = j /\ a[2] = n BY <1>1
  <1>3. Press(j, n) /\ prompted' = prompted \ {<<j, n>>} /\ UNCHANGED <<job, chat, proc>>
    BY <1>2 DEF ManualSend
  <1>4. Sendable(j, n) BY <1>2 DEF JobInv, Presses
  <1>5. Shape' BY <1>3 DEF JobInv, JobTypes, Shape
  <1>6. \A q \in Procs : proc'[q].pc \in Pending => <<proc'[q].job, proc'[q].n>> # <<j, n>>
    BY <1>2, <1>3 DEF JobInv, Knows
  <1> QED BY <1>3, <1>4, <1>5, <1>6, PressKeeps

-----------------------------------------------------------------------------
(* The conversation. *)

\* Messages are added or settled, and presses get a fate; nothing is taken back.
LEMMA ChatMoves ==
    ASSUME JobInv, UNCHANGED <<job, prompted, proc>>,
           chat' \in Seq(MessageType), sent' \in Seq(PressType), DOMAIN sent' = DOMAIN sent,
           \A i \in DOMAIN sent : sent'[i].job = sent[i].job /\ sent'[i].n = sent[i].n,
           \A i \in DOMAIN chat : /\ i \in DOMAIN chat' /\ chat'[i].of = chat[i].of
                                  /\ chat'[i].parent = chat[i].parent,
           \A i \in DOMAIN chat', j \in Jobs, n \in Nat : chat'[i].of = <<j, n>> => PressedFor(j, n)
    PROVE  JobInv'
  <1>1. \A u, j, n : Said(u, j, n) => Said(u, j, n)' BY DEF Said
  <1>2. \A t, u : Answers(t, u) => Answers(t, u)' BY DEF Answers
  <1>3. \A j, n : PressedFor(j, n)' <=> PressedFor(j, n) BY DEF PressedFor
  <1>4. \A j, n : Sendable(j, n)' <=> Sendable(j, n) BY <1>3 DEF Sendable, Unproven, Attempts
  <1>5. JobTypes' BY DEF JobInv, JobTypes, Shape
  <1>6. ASSUME NEW j \in Jobs PROVE JobSound(j)'
    <2>1. ASSUME NEW n \in Attempts(j) PROVE BoundAttempt(j, n)'
      BY <1>1, <1>2 DEF JobInv, JobSound, BoundAttempt
    <2> QED BY <2>1 DEF JobInv, JobSound, Unproven, Attempts, Last
  <1>7. ASSUME NEW p \in Procs PROVE Knows(p)'
    <2>1. Knows(p) BY DEF JobInv
    <2>2. Said(proc[p].obs.user, proc[p].job, proc[p].obs.n) =>
             (proc'[p].obs.user \in DOMAIN chat' /\ chat'[proc'[p].obs.user].of = <<proc'[p].job, proc'[p].obs.n>>)
      BY DEF Said
    <2>3. Answers(proc[p].obs.turn, proc[p].obs.user) =>
             (proc'[p].obs.turn \in DOMAIN chat' /\ chat'[proc'[p].obs.turn].parent = proc'[p].obs.user)
      BY DEF Answers
    <2>4. Sendable(proc[p].job, proc[p].n) =>
             (proc'[p].job \in Jobs /\ proc'[p].n \in Unproven(proc[p].job)' /\ ~PressedFor(proc[p].job, proc[p].n)')
      BY <1>4 DEF Sendable
    <2> QED BY <2>1, <2>2, <2>3, <2>4 DEF Knows, Said, Answers, Sendable, Last
  <1>8. Presses'
    <2>1. \A k : Unproven(k)' = Unproven(k) BY DEF Unproven, Attempts
    <2>2. ASSUME NEW i \in DOMAIN sent' PROVE sent'[i].n \in Unproven(sent'[i].job)
      BY DEF JobInv, Presses
    <2>3. ASSUME NEW a \in prompted' PROVE Sendable(a[1], a[2])'
      <3>1. Sendable(a[1], a[2]) BY DEF JobInv, Presses
      <3> QED BY <1>3, <2>1, <3>1 DEF Sendable
    <2> QED BY <1>3, <2>1, <2>2, <2>3 DEF Presses
  <1>9. SentOnce' /\ OneInFlight' BY DEF JobInv, SentOnce, OneInFlight
  <1>10. OneReserved' BY DEF JobInv, OneReserved, Reserved, Unproven, Attempts
  <1> QED BY <1>5, <1>6, <1>7, <1>8, <1>9, <1>10 DEF JobInv

\* A message more.
LEMMA ChatGrows ==
    ASSUME chat \in Seq(MessageType), NEW m \in MessageType, chat' = Append(chat, m)
    PROVE  /\ chat' \in Seq(MessageType)
           /\ \A i \in DOMAIN chat : i \in DOMAIN chat' /\ chat'[i] = chat[i]
           /\ \A i \in DOMAIN chat' : (i \in DOMAIN chat /\ chat'[i] = chat[i]) \/ chat'[i] = m
  <1>1. PICK l \in Nat : l = Len(chat) OBVIOUS
  <1>2. /\ chat' \in Seq(MessageType) /\ Len(chat') = l + 1 /\ chat'[l + 1] = m
        /\ \A i \in 1..l : chat'[i] = chat[i]
    BY <1>1, AppendProperties
  <1>3. DOMAIN chat = 1..l /\ DOMAIN chat' = 1..(l + 1) BY <1>1, <1>2, LenProperties
  <1> QED BY <1>2, <1>3

\* A message that carries no attempt is nobody's.
LEMMA NoneIsNobody ==
    ASSUME NEW j \in Jobs, NEW n \in Nat PROVE None # <<j, n>>
  BY NoneAssumption

LEMMA StrangerKeeps ==
    ASSUME JobInv, NEW m \in MessageType, m.of = None, chat' = Append(chat, m),
           UNCHANGED <<job, sent, prompted, proc>>
    PROVE  JobInv'
  <1>1. /\ chat' \in Seq(MessageType)
        /\ \A i \in DOMAIN chat : i \in DOMAIN chat' /\ chat'[i] = chat[i]
        /\ \A i \in DOMAIN chat' : (i \in DOMAIN chat /\ chat'[i] = chat[i]) \/ chat'[i] = m
    BY ChatGrows DEF JobInv, JobTypes
  <1>2. ASSUME NEW i \in DOMAIN chat', NEW j \in Jobs, NEW n \in Nat, chat'[i].of = <<j, n>>
        PROVE  PressedFor(j, n)
    BY <1>1, <1>2, NoneIsNobody DEF JobInv, Presses
  <1>3. sent' \in Seq(PressType) BY DEF JobInv, JobTypes
  <1> QED BY <1>1, <1>2, <1>3, ChatMoves

LEMMA TypeKeeps == ASSUME JobInv, Type PROVE JobInv'
  <1>1. PICK m : m = Message("user", None, 0, "said") OBVIOUS
  <1>2. m \in MessageType /\ m.of = None BY <1>1 DEF Message, MessageType
  <1> QED BY <1>1, <1>2, StrangerKeeps DEF Type

LEMMA ReplyKeeps == ASSUME JobInv, NEW u \in DOMAIN chat, Reply(u) PROVE JobInv'
  <1>1. PICK m : m = Message("assistant", None, u, "pending") OBVIOUS
  <1>2. u \in Nat BY DEF JobInv, JobTypes
  <1>3. m \in MessageType /\ m.of = None BY <1>1, <1>2 DEF Message, MessageType
  <1> QED BY <1>1, <1>3, StrangerKeeps DEF Reply

LEMMA SettleKeeps ==
    ASSUME JobInv, NEW i \in DOMAIN chat, NEW st \in {"image", "text", "refused"}, Settle(i, st)
    PROVE  JobInv'
  <1>1. chat \in Seq(MessageType) /\ i \in 1..Len(chat) /\ chat[i] \in MessageType
    BY DEF JobInv, JobTypes
  <1>2. PICK m : m = [chat[i] EXCEPT !.state = st] OBVIOUS
  <1>3. m \in MessageType /\ m.of = chat[i].of /\ m.parent = chat[i].parent
    BY <1>1, <1>2 DEF MessageType
  <1>4. chat' = [chat EXCEPT ![i] = m] BY <1>2 DEF Settle
  <1>5. chat' \in Seq(MessageType) BY <1>1, <1>3, <1>4, ExceptSeq
  <1>6. /\ DOMAIN chat' = DOMAIN chat
        /\ \A k \in DOMAIN chat : chat'[k].of = chat[k].of /\ chat'[k].parent = chat[k].parent
    BY <1>3, <1>4
  <1>7. UNCHANGED <<job, sent, prompted, proc>> /\ sent' \in Seq(PressType)
    BY DEF Settle, JobInv, JobTypes
  <1>8. \A k \in DOMAIN chat', j \in Jobs, n \in Nat : chat'[k].of = <<j, n>> => PressedFor(j, n)
    BY <1>6 DEF JobInv, Presses
  <1> QED BY <1>5, <1>6, <1>7, <1>8, ChatMoves

LEMMA LandKeeps ==
    ASSUME JobInv, NEW i \in DOMAIN sent, NEW fate \in {"landed", "lost"}, Land(i, fate)
    PROVE  JobInv'
  <1>1. sent \in Seq(PressType) /\ i \in 1..Len(sent) /\ sent[i] \in PressType
    BY DEF JobInv, JobTypes
  <1>2. PICK x : x = [sent[i] EXCEPT !.fate = fate] OBVIOUS
  <1>3. x \in PressType /\ x.job = sent[i].job /\ x.n = sent[i].n BY <1>1, <1>2 DEF PressType, Fates
  <1>4. sent' = [sent EXCEPT ![i] = x] BY <1>2 DEF Land
  <1>5. sent' \in Seq(PressType) BY <1>1, <1>3, <1>4, ExceptSeq
  <1>6. /\ DOMAIN sent' = DOMAIN sent
        /\ \A k \in DOMAIN sent : sent'[k].job = sent[k].job /\ sent'[k].n = sent[k].n
    BY <1>3, <1>4
  <1>7. UNCHANGED <<job, prompted, proc>> BY DEF Land
  <1>8. CASE UNCHANGED chat
    <2>1. chat' \in Seq(MessageType) BY <1>8 DEF JobInv, JobTypes
    <2>2. \A k \in DOMAIN chat', j \in Jobs, n \in Nat : chat'[k].of = <<j, n>> => PressedFor(j, n)
      BY <1>8 DEF JobInv, Presses
    <2> QED BY <1>5, <1>6, <1>7, <1>8, <2>1, <2>2, ChatMoves
  <1>9. CASE chat' = Append(chat, Message("user", <<sent[i].job, sent[i].n>>, 0, "said"))
    <2>1. PICK m : m = Message("user", <<sent[i].job, sent[i].n>>, 0, "said") OBVIOUS
    <2>2. m \in MessageType /\ m.of = <<sent[i].job, sent[i].n>>
      BY <1>1, <2>1 DEF Message, MessageType, PressType
    <2>3. /\ chat' \in Seq(MessageType)
          /\ \A k \in DOMAIN chat : k \in DOMAIN chat' /\ chat'[k] = chat[k]
          /\ \A k \in DOMAIN chat' : (k \in DOMAIN chat /\ chat'[k] = chat[k]) \/ chat'[k] = m
      BY <1>9, <2>1, <2>2, ChatGrows DEF JobInv, JobTypes
    <2>4. ASSUME NEW k \in DOMAIN chat', NEW j \in Jobs, NEW n \in Nat, chat'[k].of = <<j, n>>
          PROVE  PressedFor(j, n)
      <3>1. CASE k \in DOMAIN chat /\ chat'[k] = chat[k] BY <2>4, <3>1 DEF JobInv, Presses
      <3>2. CASE chat'[k] = m BY <2>2, <2>4, <3>2 DEF PressedFor
      <3> QED BY <2>3, <3>1, <3>2
    <2> QED BY <1>5, <1>6, <1>7, <2>3, <2>4, ChatMoves
  <1> QED BY <1>8, <1>9 DEF Land

-----------------------------------------------------------------------------
(* Exporters and receivers know nothing of attempts. *)

LEMMA StepsAside ==
    ASSUME JobInv, NEW p \in Procs, UNCHANGED <<job, chat, sent, prompted>>,
           \/ End(p)
           \/ \E pc \in {"receipt"} : Go(p, pc)
           \/ \E pc \in {"fetch", "intent", "bytes", "publish"} : \E h : Step(p, pc, h)
    PROVE  JobInv'
  <1>1. CASE End(p) BY <1>1, Ends, CommandRests
  <1>2. ASSUME NEW pc \in {"receipt"}, Go(p, pc) PROVE JobInv'
    <2>1. /\ Shape' /\ proc'[p].pc = pc /\ Counters(p)'
          /\ \A q \in Procs \ {p} : proc'[q] = proc[q]
      BY <1>2 DEF Go, JobInv, JobTypes, Shape, CommandFields, Counters
    <2> QED BY <2>1, CommandRests DEF Attentive, Pending
  <1>3. ASSUME NEW pc \in {"fetch", "intent", "bytes", "publish"}, NEW h, Step(p, pc, h) PROVE JobInv'
    <2>1. /\ Shape' /\ proc'[p].pc = pc /\ Counters(p)'
          /\ \A q \in Procs \ {p} : proc'[q] = proc[q]
      BY <1>3 DEF Step, JobInv, JobTypes, Shape, CommandFields, Counters
    <2> QED BY <2>1, CommandRests DEF Attentive, Pending
  <1> QED BY <1>1, <1>2, <1>3

LEMMA ReceiveKeepsJobs ==
    ASSUME JobInv, NEW p \in Procs, NEW j \in Jobs, NEW late \in BOOLEAN, Receive(p, j, late)
    PROVE  JobInv'
  <1>1. UNCHANGED <<job, chat, sent, prompted>> BY DEF Receive, pageVars
  <1>2. PICK h : h = IF late THEN lateOutput[j] ELSE output[j] OBVIOUS
  <1>3. PICK c : c = [Idle EXCEPT !.pc = "copy", !.job = j, !.obs = h, !.late = late] OBVIOUS
  <1>4. DOMAIN c = CommandFields /\ c.pc = "copy" /\ c.n = 0 /\ c.rev = 0 /\ c.base = 0
    BY <1>3 DEF Idle, CommandFields
  <1>5. Shape' /\ proc'[p] = c /\ \A q \in Procs \ {p} : proc'[q] = proc[q]
    BY <1>2, <1>3, <1>4, Replaced DEF Receive, Enter, JobInv, JobTypes
  <1>6. Counters(p)' BY <1>4, <1>5 DEF Counters
  <1> QED BY <1>1, <1>4, <1>5, <1>6, CommandRests DEF Attentive, Pending

LEMMA ArtifactKeepsJobs ==
    ASSUME ArtifactInv, JobInv, NEW p \in Procs, Artifact(p)
    PROVE  JobInv'
  <1>1. CASE ReadStore(p)
    BY <1>1, StepsAside DEF ReadStore, JobKept, pageVars
  <1>2. ASSUME NEW h \in Hashes, Fetch(p, h) PROVE JobInv'
    BY <1>2, StepsAside DEF Fetch, JobKept, pageVars
  <1>3. CASE PutRecord(p)
    BY <1>3, StepsAside DEF PutRecord, JobKept, pageVars
  <1>4. CASE PutBytes(p)
    BY <1>4, StepsAside DEF PutBytes, JobKept, pageVars
  <1>5. CASE PublishOriginal(p)
    <2>1. proc[p].job \in Jobs BY <1>5 DEF PublishOriginal, At, ArtifactInv, Carried, Working
    <2> QED BY <1>5, <2>1, PublishKeepsJobs
  <1>6. ASSUME NEW j \in Jobs, NEW late \in BOOLEAN, Receive(p, j, late) PROVE JobInv'
    BY <1>6, ReceiveKeepsJobs
  <1>7. CASE PutCopy(p)
    BY <1>7, StepsAside DEF PutCopy, JobKept, pageVars
  <1>8. CASE PutReceipt(p)
    BY <1>8, StepsAside DEF PutReceipt, JobKept, pageVars
  <1> QED BY <1>1, <1>2, <1>3, <1>4, <1>5, <1>6, <1>7, <1>8 DEF Artifact

-----------------------------------------------------------------------------
(* All steps. *)

LEMMA CommandKeepsJobs ==
    ASSUME JobInv, NEW p \in Procs, Command(p)
    PROVE  JobInv'
  <1>1. CASE Begin(p) BY <1>1, BeginKeeps
  <1>2. CASE Hand(p) BY <1>2, HandKeeps
  <1>3. CASE Fill(p) \/ Final(p) \/ Admit(p) \/ Fail(p)
    <2>1. /\ proc[p].pc \in Pending /\ UNCHANGED <<job, chat, sent, prompted>>
          /\ \E pc \in Pending : Go(p, pc)
      BY <1>3 DEF Fill, Final, Admit, Fail, At, Pending, pageVars
    <2> QED BY <2>1, Holds
  <1>4. CASE Click(p) BY <1>4, ClickKeeps
  <1>5. CASE Unsent(p) BY <1>5, UnsentKeeps
  <1>6. CASE Look(p) BY <1>6, LookKeeps
  <1>7. CASE AttestNow(p) BY <1>7, AttestNowKeeps
  <1>8. CASE Record(p) BY <1>8, RecordKeeps
  <1>9. CASE Crash(p) BY <1>9, StepsAside DEF Crash, pageVars
  <1>10. ASSUME NEW j \in Jobs, Start(p, j) \/ Reconcile(p, j) \/ Attest(p, j) \/ Export(p, j)
         PROVE  JobInv'
    BY <1>10, StartKeeps, ReconcileKeeps, AttestKeeps, ExportKeeps
  <1> QED BY <1>1, <1>2, <1>3, <1>4, <1>5, <1>6, <1>7, <1>8, <1>9, <1>10 DEF Command

LEMMA WorldKeepsJobs ==
    ASSUME JobInv, World
    PROVE  JobInv'
  <1>1. ASSUME NEW j \in Jobs, Cancel(j) \/ Expire(j) \/ Overrun(j) PROVE JobInv'
    <2>1. CASE Cancel(j) BY <2>1, CancelKeeps
    <2>2. CASE Expire(j) \/ Overrun(j) BY <2>2, NobodyMoves DEF Expire, Overrun, pageVars
    <2> QED BY <1>1, <2>1, <2>2
  <1>2. ASSUME NEW a \in prompted, ManualSend(a) PROVE JobInv' BY <1>2, ManualSendKeeps
  <1>3. ASSUME NEW i \in DOMAIN sent, NEW fate \in {"landed", "lost"}, Land(i, fate) PROVE JobInv'
    BY <1>3, LandKeeps
  <1>4. CASE Type BY <1>4, TypeKeeps
  <1>5. CASE Clear BY <1>5, NobodyMoves DEF Clear
  <1>6. ASSUME NEW i \in DOMAIN chat, Reply(i) PROVE JobInv' BY <1>6, ReplyKeeps
  <1>7. ASSUME NEW i \in DOMAIN chat, NEW st \in {"image", "text", "refused"}, Settle(i, st) PROVE JobInv'
    BY <1>7, SettleKeeps
  <1> QED BY <1>1, <1>2, <1>3, <1>4, <1>5, <1>6, <1>7 DEF World

LEMMA NextJobs == ArtifactInv /\ JobInv /\ [ANext]_allVars => JobInv'
  <1> SUFFICES ASSUME ArtifactInv, JobInv, [ANext]_allVars PROVE JobInv' OBVIOUS
  <1>1. ASSUME NEW p \in Procs, Artifact(p) PROVE JobInv' BY <1>1, ArtifactKeepsJobs
  <1>2. CASE JobStep BY <1>2, CommandKeepsJobs, WorldKeepsJobs DEF JobStep
  <1>3. ASSUME NEW j \in Jobs, Lose(j) PROVE JobInv' BY <1>3, NobodyMoves DEF Lose, vars
  <1>4. CASE UNCHANGED allVars BY <1>4, NobodyMoves DEF allVars, vars
  <1> QED BY <1>1, <1>2, <1>3, <1>4 DEF ANext

LEMMA InitJobs == AInit => JobInv
  <1> SUFFICES ASSUME AInit PROVE JobInv OBVIOUS
  <1>1. /\ Shape /\ \A p \in Procs : Knows(p) /\ Counters(p) /\ proc[p].pc = "idle"
    <2>1. proc = [p \in Procs |-> Idle] BY DEF AInit, Init
    <2>2. Idle.pc = "idle" /\ Idle.n = 0 /\ Idle.rev = 0 /\ Idle.base = 0 BY DEF Idle
    <2> QED BY <2>1, <2>2, IdleShape DEF Shape, Knows, Counters, Pending
  <1>2. prompted = {} BY DEF AInit, Init
  <1>3. /\ NewJob \in JobType /\ NewJob.attempts = <<>> /\ NewJob.status = "SUBMITTED" /\ ~NewJob.cancel
    <2>1. PICK e : e = <<>> OBVIOUS
    <2>2. e \in Seq(AttemptType) BY <2>1
    <2>3. NewJob = [rev |-> 1, status |-> "SUBMITTED", cancel |-> FALSE, attempts |-> e,
                    output |-> FALSE, lateOutput |-> FALSE] BY <2>1 DEF NewJob
    <2> QED BY <2>1, <2>2, <2>3 DEF JobType, JobStatuses
  <1>4. ASSUME NEW k \in Jobs, job[k] = NewJob
        PROVE  Attempts(k) = {} /\ Unproven(k) = {} /\ JobSound(k) /\ k \notin Reserved
    <2>1. Attempts(k) = {} BY <1>3, <1>4 DEF Attempts
    <2>2. Unproven(k) = {} BY <2>1 DEF Unproven
    <2> QED BY <1>3, <1>4, <2>1, <2>2 DEF JobSound, Reserved
  <1>5. CASE Init
    <2>1. job = [k \in Jobs |-> NewJob] /\ chat = <<>> /\ sent = <<>> BY <1>5 DEF Init
    <2>2. JobTypes BY <1>1, <1>2, <1>3, <2>1 DEF JobTypes, Counters
    <2>3. \A k \in Jobs : JobSound(k) /\ k \notin Reserved BY <1>4, <2>1
    <2>4. Presses /\ SentOnce /\ OneInFlight BY <1>2, <2>1 DEF Presses, SentOnce, OneInFlight
    <2>5. OneReserved BY <2>3 DEF OneReserved, Reserved
    <2> QED BY <1>1, <2>2, <2>3, <2>4, <2>5 DEF JobInv
  <1>6. ASSUME NEW j \in Prepared \cap Jobs,
               job = [k \in Jobs |-> IF k = j THEN Answered(j) ELSE NewJob],
               chat = <<Message("user", <<j, 1>>, 0, "said"), Message("assistant", None, 1, "image")>>,
               sent = <<[job |-> j, n |-> 1, fate |-> "landed"]>>
        PROVE  JobInv
    <2>1. PICK a : a = [status |-> "GENERATED", base |-> 0, user |-> 1, turn |-> 2, out |-> TRUE] OBVIOUS
    <2>2. a \in AttemptType /\ a.status = "GENERATED" /\ a.user = 1 /\ a.turn = 2 /\ a.out
      BY <2>1 DEF AttemptType, AttemptStatuses
    <2>3. PICK as : as = <<a>> OBVIOUS
    <2>4. as \in Seq(AttemptType) /\ Len(as) = 1 /\ DOMAIN as = {1} /\ as[1] = a BY <2>2, <2>3
    <2>5. Answered(j) = [rev |-> 3, status |-> "GENERATED", cancel |-> FALSE, attempts |-> as,
                         output |-> FALSE, lateOutput |-> FALSE]
      <3>1. Answered(j) = [NewJob EXCEPT !.rev = 3, !.status = "GENERATED", !.attempts = as]
        BY <2>1, <2>3 DEF Answered
      <3>2. PICK e : NewJob = [rev |-> 1, status |-> "SUBMITTED", cancel |-> FALSE, attempts |-> e,
                               output |-> FALSE, lateOutput |-> FALSE]
        BY DEF NewJob
      <3> QED BY <3>1, <3>2
    <2>6. Answered(j) \in JobType /\ job[j] = Answered(j) /\ job \in [Jobs -> JobType]
      <3>1. "GENERATED" \in JobStatuses BY DEF JobStatuses, AttemptStatuses
      <3>2. Answered(j) \in JobType BY <2>4, <2>5, <3>1, JobMade
      <3> QED BY <1>3, <1>6, <3>2
    <2>7. job[j].attempts = as /\ job[j].status = "GENERATED" /\ ~job[j].cancel BY <2>5, <2>6
    <2>8. PICK u \in MessageType, t \in MessageType : chat = <<u, t>> /\ u.of = <<j, 1>> /\ t.of = None /\ t.parent = 1
      <3>1. PICK u : u = Message("user", <<j, 1>>, 0, "said") OBVIOUS
      <3>2. PICK t : t = Message("assistant", None, 1, "image") OBVIOUS
      <3>3. u \in MessageType /\ u.of = <<j, 1>> BY <3>1 DEF Message, MessageType
      <3>4. t \in MessageType /\ t.of = None /\ t.parent = 1 BY <3>2 DEF Message, MessageType
      <3> QED BY <1>6, <3>1, <3>2, <3>3, <3>4
    <2>9. chat \in Seq(MessageType) /\ DOMAIN chat = {1, 2} /\ chat[1] = u /\ chat[2] = t BY <2>8
    <2>10. PICK x \in PressType : sent = <<x>> /\ x.job = j /\ x.n = 1
      <3>1. PICK x : x = [job |-> j, n |-> 1, fate |-> "landed"] OBVIOUS
      <3>2. x \in PressType /\ x.job = j /\ x.n = 1 BY <3>1 DEF PressType, Fates
      <3> QED BY <1>6, <3>1, <3>2
    <2>11. sent \in Seq(PressType) /\ DOMAIN sent = {1} /\ sent[1] = x BY <2>10
    <2>12. JobTypes BY <1>1, <1>2, <2>6, <2>9, <2>11 DEF JobTypes, Counters
    <2>13. /\ Attempts(j) = {1} /\ Last(j) = 1 /\ Unproven(j) = {1}
           /\ job[j].attempts[1] = a /\ Complete(job[j].attempts[1])
      <3>1. Attempts(j) = {1} /\ Last(j) = 1 /\ job[j].attempts[1] = a
        BY <2>4, <2>7 DEF Attempts, Last
      <3>2. Complete(a) BY <2>2 DEF Complete
      <3> QED BY <2>2, <3>1, <3>2 DEF Unproven
    <2>14. JobSound(j)
      <3>1. BoundAttempt(j, 1) BY <2>2, <2>8, <2>9, <2>13 DEF BoundAttempt, Said, Answers
      <3> QED BY <2>7, <2>13, <3>1 DEF JobSound
    <2>15. ASSUME NEW k \in Jobs PROVE JobSound(k) /\ k \notin Reserved
      <3>1. CASE k = j BY <2>13, <2>14, <3>1 DEF Reserved
      <3>2. CASE k # j
        <4>1. job[k] = NewJob BY <1>6, <3>2
        <4> QED BY <1>4, <4>1
      <3> QED BY <3>1, <3>2
    <2>16. Presses
      <3>1. ASSUME NEW i \in DOMAIN chat, NEW k \in Jobs, NEW n \in Nat, chat[i].of = <<k, n>>
            PROVE  PressedFor(k, n)
        <4>1. i = 1 BY <2>8, <2>9, <3>1, NoneIsNobody
        <4>2. k = j /\ n = 1 BY <2>8, <2>9, <3>1, <4>1
        <4> QED BY <2>10, <2>11, <4>2 DEF PressedFor
      <3> QED BY <1>2, <2>10, <2>11, <2>13, <3>1 DEF Presses
    <2>17. SentOnce /\ OneInFlight BY <2>11 DEF SentOnce, OneInFlight
    <2>18. OneReserved BY <2>15 DEF OneReserved, Reserved
    <2> QED BY <1>1, <2>12, <2>15, <2>16, <2>17, <2>18 DEF JobInv
  <1> QED BY <1>5, <1>6, PreparedAssumption DEF AInit

-----------------------------------------------------------------------------
(* After a cancel. *)

\* What becomes of a cancelled job when an event of it is stored.
Held(j) ==
    job[j].cancel => /\ job'[j].status \in {"CANCELLED", "CANCEL_REQUESTED"}
                     /\ job'[j].output = job[j].output /\ Len(job'[j].attempts) = Last(j)

LEMMA KeptHeld ==
    ASSUME JobInv, NEW j \in Jobs, job'[j] = job[j]
    PROVE  Held(j)
  BY DEF JobInv, JobSound, Held, Last

LEMMA ObservedHeld ==
    ASSUME JobInv, NEW j \in Jobs, NEW o, NEW k \in Jobs, job' = [job EXCEPT ![k] = Observed(k, o)],
           NEW n, JobEvolves(k, n)
    PROVE  Held(j)
  <1>1. CASE j # k BY <1>1, KeptHeld DEF JobInv, JobTypes
  <1>2. CASE j = k
    <2>1. Last(j)' = Last(j) BY <1>2 DEF JobEvolves
    <2>2. job'[j] = Observed(j, o) /\ job[j] \in JobType BY <1>2 DEF JobInv, JobTypes
    <2>3. ASSUME job[j].cancel
          PROVE  job'[j].status = job[j].status /\ job'[j].output = job[j].output
      <3>1. Late(j, o.n) /\ Blocked(j, o.n, job[j].status) = job[j].status
        BY <2>3 DEF Late, Blocked
      <3> QED BY <2>2, <3>1 DEF Observed, JobType
    <2>4. job[j].cancel => job[j].status \in {"CANCELLED", "CANCEL_REQUESTED"}
      BY DEF JobInv, JobSound
    <2> QED BY <2>1, <2>3, <2>4 DEF Held, Last
  <1> QED BY <1>1, <1>2

LEMMA ExportedHeld ==
    ASSUME JobInv, NEW j \in Jobs, NEW n, NEW k \in Jobs, job' = [job EXCEPT ![k] = Exported(k, n)]
    PROVE  Held(j)
  <1>1. CASE j # k BY <1>1, KeptHeld DEF JobInv, JobTypes
  <1>2. CASE j = k
    <2>1. job'[j] = Exported(j, n) /\ job[j] \in JobType BY <1>2 DEF JobInv, JobTypes
    <2>2. ASSUME job[j].cancel
          PROVE  /\ job'[j].status = job[j].status /\ job'[j].output = job[j].output
                 /\ job'[j].attempts = job[j].attempts
      <3>1. Late(j, n) /\ Blocked(j, n, job[j].status) = job[j].status
        BY <2>2 DEF Late, Blocked
      <3>2. job[j].output \in BOOLEAN BY <2>1 DEF JobType
      <3>3. (job[j].output \/ ~Late(j, n)) = job[j].output BY <3>1, <3>2
      <3>4. PICK x \in BOOLEAN, y \in BOOLEAN, st \in JobStatuses :
               /\ x = (job[j].output \/ ~Late(j, n))
               /\ st = IF Late(j, n) THEN Blocked(j, n, job[j].status) ELSE "TECHNICALLY_VALIDATED"
               /\ Exported(j, n) = Outcome(job[j], x, y, st)
        BY ExportedForm
      <3>5. st = job[j].status /\ x = job[j].output BY <3>1, <3>3, <3>4
      <3>6. PICK s : s = Outcome(job[j], x, y, st) OBVIOUS
      <3>7. job'[j] = s BY <2>1, <3>4, <3>6
      <3>8. job[j] \in JobType BY <2>1
      <3>9. s.status = st /\ s.output = x /\ s.attempts = job[j].attempts BY <3>6, <3>8, OutcomeHas
      <3> QED BY <3>5, <3>7, <3>9
    <2>3. job[j].cancel => job[j].status \in {"CANCELLED", "CANCEL_REQUESTED"}
      BY DEF JobInv, JobSound
    <2> QED BY <2>2, <2>3 DEF Held, Last
  <1> QED BY <1>1, <1>2

LEMMA CancelledHeld ==
    ASSUME JobInv, NEW j \in Jobs, NEW k \in Jobs, job' = [job EXCEPT ![k] = Cancelled(k)]
    PROVE  Held(j)
  <1>1. CASE j # k BY <1>1, KeptHeld DEF JobInv, JobTypes
  <1>2. CASE j = k
    <2>1. job'[j] = Cancelled(j) /\ job[j] \in JobType BY <1>2 DEF JobInv, JobTypes
    <2>2. PICK r \in JobType : r = job[j] BY <2>1
    <2>3. PICK st \in {"CANCELLED", "CANCEL_REQUESTED"}, s \in {Cancelled(j)} :
             s = Cancelled(j) /\ s = [r EXCEPT !.rev = @ + 1, !.cancel = TRUE, !.status = st]
      BY <2>2 DEF Cancelled
    <2>4. s.status = st /\ s.output = r.output /\ s.attempts = r.attempts BY <2>3 DEF JobType
    <2> QED BY <2>1, <2>2, <2>3, <2>4 DEF Held, Last
  <1> QED BY <1>1, <1>2

\* A cancelled job begins no attempt.
LEMMA BeganHeld ==
    ASSUME JobInv, NEW j \in Jobs, NEW p \in Procs, Begin(p)
    PROVE  Held(j)
  <1>1. CASE UNCHANGED job BY <1>1, KeptHeld
  <1>2. CASE ~UNCHANGED job
    <2>1. BeginAllowed(J(p), proc[p].rev) /\ job' = [job EXCEPT ![J(p)] = Began(@, proc[p].base)]
      BY <1>2 DEF Begin
    <2>2. ~job[J(p)].cancel BY <2>1 DEF BeginAllowed
    <2>3. CASE j = J(p) BY <2>2, <2>3 DEF Held
    <2>4. CASE j # J(p) BY <2>1, <2>4, KeptHeld DEF JobInv, JobTypes
    <2> QED BY <2>3, <2>4
  <1> QED BY <1>1, <1>2

LEMMA NextHolds ==
    ASSUME ArtifactInv, JobInv, [ANext]_allVars, NEW j \in Jobs
    PROVE  Held(j)
  <1>1. CASE UNCHANGED job BY <1>1, KeptHeld
  <1>2. ASSUME NEW p \in Procs, Begin(p) PROVE Held(j) BY <1>2, BeganHeld
  <1>3. ASSUME NEW p \in Procs, Unsent(p) PROVE Held(j)
    BY <1>1, <1>3, UnsentStores, ObservedHeld
  <1>4. ASSUME NEW p \in Procs, Record(p) PROVE Held(j)
    BY <1>1, <1>4, RecordStores, ObservedHeld
  <1>5. ASSUME NEW k \in Jobs, Cancel(k) PROVE Held(j) BY <1>5, CancelledHeld DEF Cancel
  <1>6. ASSUME NEW p \in Procs, PublishOriginal(p) PROVE Held(j)
    <2>1. J(p) \in Jobs BY <1>6 DEF PublishOriginal, At, J, ArtifactInv, Carried, Working
    <2> QED BY <1>1, <1>6, <2>1, ExportedHeld DEF PublishOriginal
  <1>7. \/ UNCHANGED job \/ \E p \in Procs : Begin(p) \/ Unsent(p) \/ Record(p) \/ PublishOriginal(p)
        \/ \E k \in Jobs : Cancel(k)
    <2>1. ASSUME NEW p \in Procs, Command(p)
          PROVE  UNCHANGED job \/ Begin(p) \/ Unsent(p) \/ Record(p)
      BY <2>1 DEF Command, Start, Reconcile, Attest, Export, Hand, Fill, Final, Admit, Click, Fail,
                  Look, AttestNow, Crash
    <2>2. ASSUME NEW p \in Procs, Artifact(p)
          PROVE  UNCHANGED job \/ PublishOriginal(p)
      BY <2>2 DEF Artifact, ReadStore, Fetch, PutRecord, PutBytes, Receive, PutCopy, PutReceipt, JobKept
    <2>3. ASSUME World PROVE UNCHANGED job \/ \E k \in Jobs : Cancel(k)
      BY <2>3 DEF World, Expire, Overrun, ManualSend, Land, Type, Clear, Reply, Settle
    <2>4. ASSUME NEW k \in Jobs, Lose(k) PROVE UNCHANGED job BY <2>4 DEF Lose, vars
    <2> QED BY <2>1, <2>2, <2>3, <2>4 DEF ANext, JobStep, allVars, vars
  <1> QED BY <1>1, <1>2, <1>3, <1>4, <1>5, <1>6, <1>7

-----------------------------------------------------------------------------
(* The theorems. *)

\* What the exporters hold and what the jobs are, in every reachable state.
LEMMA JobsSound == ASpec => [](ArtifactInv /\ JobInv)
  <1>1. AInit => ArtifactInv /\ JobInv BY InitArtifacts, InitJobs
  <1>2. ArtifactInv /\ JobInv /\ [ANext]_allVars => (ArtifactInv /\ JobInv)'
    BY NextArtifacts, NextJobs
  <1> QED BY <1>1, <1>2, PTL DEF ASpec

\* Whatever fails, is retried, killed or raced, Send is pressed at most once for all attempts of
\* a job together, and who says that nothing was sent is right (contract.js:268-275).
THEOREM OneGenerationCorrect == ASpec => []OneGeneration
  <1>1. ArtifactInv /\ JobInv => OneGeneration BY InvGivesOneGeneration
  <1> QED BY <1>1, JobsSound, PTL

\* Send is pressed for another job only when the earlier answer is recorded (coordinator.py:4085).
THEOREM OneInFlightCorrect == ASpec => []OneInFlight
  <1>1. ArtifactInv /\ JobInv => OneInFlight BY DEF JobInv
  <1> QED BY <1>1, JobsSound, PTL

\* Records name their own message and the answer to it (chatgpt-ego.js:197).
THEOREM BoundToOwnTurnCorrect == ASpec => []BoundToOwnTurn
  <1>1. ArtifactInv /\ JobInv => BoundToOwnTurn BY InvGivesBound
  <1> QED BY <1>1, JobsSound, PTL

\* After a cancel nothing is begun or adopted, and no event takes it back (contract.js:264, 291).
THEOREM CancelHoldsCorrect == ASpec => CancelHolds
  <1> DEFINE Holding == \A j \in Jobs : job[j].cancel =>
                           /\ job'[j].status \in {"CANCELLED", "CANCEL_REQUESTED"}
                           /\ job'[j].output = job[j].output /\ Len(job'[j].attempts) = Last(j)
  <1>1. ArtifactInv /\ JobInv /\ [ANext]_allVars => [Holding]_vars
    BY NextHolds DEF Held
  <1>2. ASpec => [][Holding]_vars BY <1>1, JobsSound, PTL DEF ASpec
  <1> QED BY <1>2 DEF CancelHolds
=============================================================================
