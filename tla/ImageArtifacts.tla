--------------------------- MODULE ImageArtifacts ---------------------------
(***************************************************************************)
(* The originals of image jobs: how an exporter stores the bytes of a      *)
(* generated image once (capabilities/image/exporter.js), publishes them   *)
(* as the output of the job (manifest.js, chatgpt-ego.cli.js), and how a   *)
(* receiver takes its own copy and writes a receipt.  ImageJob supplies    *)
(* the jobs; the exporter's steps begin where its Export ends.             *)
(*                                                                         *)
(* Bytes are known by their hash.  What the official Save control, or the  *)
(* operator's inbox file, yields may differ from one read to the next.  A  *)
(* file appears under its final name by link(2), at once and only if the   *)
(* name is free, so putImmutable is one step.                              *)
(***************************************************************************)
EXTENDS ImageJob

CONSTANTS
    Hashes,         \* contents that a read of the original may yield
    Prepared        \* start with an answered prompt in the conversation

ASSUME HashesAssumption == None \notin Hashes
ASSUME PreparedAssumption == Prepared \subseteq Jobs

VARIABLES
    record,         \* record-KEY.json of a job: the recorded hash, or None
    bytes,          \* original-KEY.bin of a job: its hash, or None
    output,         \* the hash of the published output, or None
    lateOutput,     \* the same for the output kept as late
    copied,         \* received-KEY.bin at the receiver, or None
    receipt,        \* receipt-KEY.json at the receiver, or None
    loss            \* bound: files still to be lost

store == <<record, bytes>>
outputs == <<output, lateOutput>>
receiver == <<copied, receipt>>
allVars == <<vars, store, outputs, receiver, loss>>

Nothing == [j \in Jobs |-> None]

\* A generated image whose export has not begun, as recorded by an observation.
Answered(j) ==
    [NewJob EXCEPT !.rev = 3, !.status = "GENERATED",
       !.attempts = <<[status |-> "GENERATED", base |-> 0, user |-> 1, turn |-> 2, out |-> TRUE]>>]

AInit ==
    /\ \/ Init /\ loss = 0
       \/ \E j \in Prepared, m \in {"NATIVE", "ASSISTED"} :
            /\ mode = m /\ active = {j} /\ left = [runs |-> 3, typed |-> 0]
            /\ job = [k \in Jobs |-> IF k = j THEN Answered(j) ELSE NewJob]
            /\ overrun = [k \in Jobs |-> 0]
            /\ chat = <<Message("user", <<j, 1>>, 0, "said"), Message("assistant", None, 1, "image")>>
            /\ composer = None /\ sent = <<[job |-> j, n |-> 1, fate |-> "landed"]>> /\ prompted = {}
            /\ proc = [p \in Procs |-> Idle] /\ loss = 1
    /\ record = Nothing /\ bytes = Nothing /\ output = Nothing /\ lateOutput = Nothing
    /\ copied = Nothing /\ receipt = Nothing

-----------------------------------------------------------------------------
(* The exporter: every step is authorized again. *)

Authorized(p) == IF proc[p].late THEN RecoveryAllowed(J(p)) ELSE IOAllowed(J(p))
Step(p, pc, h) == proc' = [proc EXCEPT ![p].pc = pc, ![p].obs = h]
JobKept == UNCHANGED <<grantVars, job, pageVars, left>>

\* Stored bytes are verified against the record and never fetched again.
ReadStore(p) ==
    /\ At(p, "export") /\ Authorized(p)
    /\ IF bytes[J(p)] = None THEN Step(p, "fetch", record[J(p)])
       ELSE IF bytes[J(p)] = record[J(p)] THEN Step(p, "publish", bytes[J(p)])
       ELSE End(p)
    /\ JobKept /\ UNCHANGED <<store, outputs, receiver, loss>>

\* A read of the original: with a record, only the recorded hash is accepted.
Fetch(p, h) ==
    /\ At(p, "fetch") /\ Authorized(p)
    /\ IF proc[p].obs = None THEN Step(p, "intent", h)
       ELSE IF proc[p].obs = h THEN Step(p, "bytes", h)
       ELSE End(p)
    /\ JobKept /\ UNCHANGED <<store, outputs, receiver, loss>>

\* Mutant: the last writer wins.
FitsAny(old, h) == h # None

\* putImmutable: the first writer wins and an equal content is accepted.
Fits(old, h) == old \in {None, h}

\* The intent is durable before the bytes.
PutRecord(p) ==
    LET j == J(p) IN
    /\ At(p, "intent") /\ Authorized(p)
    /\ IF Fits(record[j], proc[p].obs)
       THEN record' = [record EXCEPT ![j] = proc[p].obs] /\ Step(p, "bytes", proc[p].obs)
       ELSE End(p) /\ UNCHANGED record
    /\ JobKept /\ UNCHANGED <<bytes, outputs, receiver, loss>>

PutBytes(p) ==
    LET j == J(p) IN
    /\ At(p, "bytes") /\ Authorized(p)
    /\ IF Fits(bytes[j], proc[p].obs)
       THEN bytes' = [bytes EXCEPT ![j] = proc[p].obs] /\ Step(p, "publish", proc[p].obs)
       ELSE End(p) /\ UNCHANGED bytes
    /\ JobKept /\ UNCHANGED <<record, outputs, receiver, loss>>

\* The export event at the latest revision; a published output never changes.
Merge(o, j, h) == [o EXCEPT ![j] = h]

PublishOriginal(p) ==
    LET j == J(p)
        h == proc[p].obs
        old == IF Late(j, proc[p].n) THEN lateOutput ELSE output
    IN
    /\ At(p, "publish")
    /\ proc[p].late => RecoveryAllowed(j)
    /\ IF Fits(old[j], h)
       THEN /\ job' = [job EXCEPT ![j] = Exported(j, proc[p].n)]
            /\ IF Late(j, proc[p].n)
               THEN lateOutput' = Merge(lateOutput, j, h) /\ UNCHANGED output
               ELSE output' = Merge(output, j, h) /\ UNCHANGED lateOutput
       ELSE UNCHANGED <<job, outputs>>
    /\ End(p)
    /\ UNCHANGED <<grantVars, pageVars, left, store, receiver, loss>>

-----------------------------------------------------------------------------
(* The receiver. *)

\* A delivery grant names a published output of a job that is not cancelled;
\* a recovery grant a late one.
Deliverable(j, late) ==
    IF late THEN RecoveryAllowed(j) /\ lateOutput[j] # None ELSE ~job[j].cancel /\ output[j] # None

Receive(p, j, late) ==
    LET h == IF late THEN lateOutput[j] ELSE output[j] IN
    /\ Deliverable(j, late)
    /\ receipt[j] \in {None, h}
    /\ Enter(p, [Idle EXCEPT !.pc = "copy", !.job = j, !.obs = h, !.late = late])
    /\ UNCHANGED <<grantVars, job, pageVars, store, outputs, receiver, loss>>

\* The copy of the receiver, or else the producer's stored original with its record.
Source(j) == IF copied[j] # None THEN copied[j]
             ELSE IF record[j] = bytes[j] THEN bytes[j] ELSE None

PutCopy(p) ==
    LET j == J(p) IN
    /\ At(p, "copy") /\ Deliverable(j, proc[p].late)
    /\ IF Source(j) = proc[p].obs /\ Fits(copied[j], proc[p].obs)
       THEN copied' = [copied EXCEPT ![j] = proc[p].obs] /\ Go(p, "receipt")
       ELSE End(p) /\ UNCHANGED copied
    /\ JobKept /\ UNCHANGED <<store, outputs, receipt, loss>>

PutReceipt(p) ==
    LET j == J(p) IN
    /\ At(p, "receipt") /\ Deliverable(j, proc[p].late)
    /\ receipt' = IF Fits(receipt[j], proc[p].obs) THEN [receipt EXCEPT ![j] = proc[p].obs] ELSE receipt
    /\ End(p)
    /\ JobKept /\ UNCHANGED <<store, outputs, copied, loss>>

\* What the coordinator reads later of a delivery, without repairing anything.
Evidence(j) == CASE receipt[j] = None -> "UNKNOWN"
                 [] copied[j] = None -> "MISSING"
                 [] copied[j] = receipt[j] -> "VERIFIED"
                 [] OTHER -> "CORRUPT"

-----------------------------------------------------------------------------

\* A large file is lost on either side; the small json records are not.
Lose(j) ==
    /\ loss > 0 /\ loss' = loss - 1
    /\ \/ bytes[j] # None /\ bytes' = [bytes EXCEPT ![j] = None] /\ UNCHANGED copied
       \/ copied[j] # None /\ copied' = [copied EXCEPT ![j] = None] /\ UNCHANGED bytes
    /\ UNCHANGED <<vars, record, outputs, receipt>>

Artifact(p) ==
    \/ ReadStore(p) \/ PutRecord(p) \/ PutBytes(p) \/ PublishOriginal(p)
    \/ \E h \in Hashes : Fetch(p, h)
    \/ \E j \in Jobs, late \in BOOLEAN : Receive(p, j, late)
    \/ PutCopy(p) \/ PutReceipt(p)

JobStep == ((\E p \in Procs : Command(p)) \/ World) /\ UNCHANGED <<store, outputs, receiver, loss>>
ANext == (\E p \in Procs : Artifact(p)) \/ JobStep \/ \E j \in Jobs : Lose(j)
ASpec == AInit /\ [][ANext]_allVars

-----------------------------------------------------------------------------
(* Properties *)

\* One original per output: stored bytes are the recorded ones, and what a job publishes, in
\* time or late, is the recorded original, although files are lost and read again, the source
\* changes, and exporters race and stop (exporter.js:176, 97).
OneOriginal ==
    \A j \in Jobs : /\ bytes[j] # None => bytes[j] = record[j]
                    /\ {output[j], lateOutput[j]} \subseteq {None, record[j]}

\* A receipt is backed: it names the published original, the receiver only ever holds a
\* published original, and a copy that is there is never found corrupt (manifest.js:100, 165).
ReceiptBacked ==
    \A j \in Jobs : /\ receipt[j] # None => receipt[j] \in {output[j], lateOutput[j]}
                    /\ copied[j] # None => copied[j] \in {output[j], lateOutput[j]}
                    /\ Evidence(j) # "CORRUPT"

\* Every copy and every receipt goes back to the one original of its job (exporter.js:176,
\* manifest.js:165).
Provenance == OneOriginal /\ ReceiptBacked
=============================================================================
