------------------------------- MODULE ImageJob -------------------------------
(***************************************************************************)
(* The life of image jobs that share one conversation: the job record and  *)
(* its reducer (capabilities/image/contract.js), the coordinator's         *)
(* admission and reservation around it (coordinator.py image_api), the     *)
(* execution adapter that may press Send once per attempt                  *)
(* (chatgpt-ego.js start, reconcile) or hands the prompt to an operator    *)
(* who attests the result (main.js assist-observe), and the batch planner  *)
(* (batch.js).  A job asks for one image, the only count that the adapter  *)
(* runs.  Each command runs in a process that may stop between two steps.  *)
(*                                                                         *)
(* A message is its position in the conversation, which only grows.  A     *)
(* prompt carries the digest of its attempt, so a user message is known by *)
(* the attempt <<job, n>> that it carries.  Other reasons for a refusal    *)
(* (pause, cooldown, lost page, login) are the failure of a step.          *)
(***************************************************************************)
EXTENDS Integers, Sequences, FiniteSets

CONSTANTS
    Jobs,           \* image jobs of one conversation, members of one batch
    Procs,          \* processes that run image commands
    None,           \* no attempt, no observation
    Loads,          \* instances: [mode, jobs with a live grant, runs, typed]
    MaxAttempts,    \* request.budget.maxAttempts
    MaxCalls        \* batch.budget.maxGenerationCalls

ASSUME NoneAssumption == None \notin Jobs \X Nat

VARIABLES
    mode,           \* NATIVE: the adapter sends; ASSISTED: an operator does
    job,            \* [Jobs -> record], the image_jobs documents
    active,         \* jobs whose grant is neither expired nor revoked
    overrun,        \* [Jobs -> number of attempts older than maxDurationMs]
    chat,           \* the messages of the conversation
    composer,       \* the attempt whose prompt is in the page's composer
    sent,           \* every press of Send for an attempt, with its fate
    prompted,       \* attempts whose prompt an operator holds
    proc,           \* [Procs -> command in progress]
    left            \* bounds: commands still to start, messages a person still types

vars == <<mode, job, active, overrun, chat, composer, sent, prompted, proc, left>>
pageVars == <<chat, composer, sent, prompted>>
grantVars == <<mode, active, overrun>>

Idle == [pc |-> "idle", job |-> None, n |-> 0, rev |-> 0, base |-> 0, obs |-> None, late |-> FALSE]

NewJob == [rev |-> 1, status |-> "SUBMITTED", cancel |-> FALSE, attempts |-> <<>>,
           output |-> FALSE, lateOutput |-> FALSE]

Init ==
    /\ \E l \in Loads : mode = l.mode /\ active = l.jobs /\ left = [runs |-> l.runs, typed |-> l.typed]
    /\ job = [j \in Jobs |-> NewJob]
    /\ overrun = [j \in Jobs |-> 0]
    /\ chat = <<>> /\ composer = None /\ sent = <<>> /\ prompted = {}
    /\ proc = [p \in Procs |-> Idle]

-----------------------------------------------------------------------------
(* The reducer. *)

Attempts(j) == DOMAIN job[j].attempts
Last(j) == Len(job[j].attempts)
Unproven(j) == {n \in Attempts(j) : job[j].attempts[n].status # "FAILED_PRE_SEND"}

\* A job that may begin an attempt: nothing of it was or can still be sent.
Beginnable(j) == job[j].status \in {"SUBMITTED", "FAILED_PRE_SEND", "BLOCKED"} /\ Unproven(j) = {}

Began(r, base) ==
    [r EXCEPT !.rev = @ + 1, !.status = "SUBMISSION_UNKNOWN",
              !.attempts = Append(@, [status |-> "SUBMISSION_UNKNOWN", base |-> base,
                                      user |-> 0, turn |-> 0, out |-> FALSE])]

\* The attempt deadline and the grant, as the reducer and the admission see them.
TimedOut(j, n) == n <= overrun[j]
\* Mutant: a cancel does not make a result late.
LateUncancelled(j, n) ==
    \/ j \notin active \/ TimedOut(j, n) \/ n # Last(j)
    \/ job[j].status \in {"FAILED", "CANCELLED", "BLOCKED"}

Late(j, n) ==
    \/ j \notin active \/ TimedOut(j, n) \/ job[j].cancel \/ n # Last(j)
    \/ job[j].status \in {"FAILED", "CANCELLED", "BLOCKED"}

Complete(a) == a.turn # 0 /\ a.out

\* What an observation must satisfy, by its status.
Provable(j, o) ==
    LET a == job[j].attempts[o.n] IN
    /\ o.n \in Attempts(j)
    /\ o.status = "GENERATING" => ~Complete(a)
    /\ o.status = "FAILED_PRE_SEND" => /\ a.user = 0 /\ a.turn = 0
                                       /\ a.status \in {"SUBMISSION_UNKNOWN", "FAILED_PRE_SEND"}
    /\ o.status \in {"GENERATING", "GENERATED"} =>
         /\ o.user > a.base /\ a.user \in {0, o.user}
         /\ o.turn # 0 => o.turn > a.base /\ a.turn \in {0, o.turn}
    /\ o.status = "GENERATED" => o.turn # 0
    /\ Late(j, o.n) \/ job[j].status # "TECHNICALLY_VALIDATED"
    /\ a.status = "FAILED_PRE_SEND" => o.status = "FAILED_PRE_SEND"

\* A late result of a job that nobody cancelled blocks it.
Blocked(j, n, status) ==
    IF ~job[j].cancel /\ (j \notin active \/ TimedOut(j, n)) THEN "BLOCKED" ELSE status

Bind(a, o) ==
    IF o.status \notin {"GENERATING", "GENERATED"} THEN [a EXCEPT !.status = o.status]
    ELSE [a EXCEPT !.status = o.status, !.user = o.user,
                   !.turn = IF o.turn = 0 THEN @ ELSE o.turn, !.out = @ \/ o.status = "GENERATED"]

Observed(j, o) ==
    [job[j] EXCEPT !.rev = @ + 1, !.attempts[o.n] = Bind(@, o),
       !.status = IF Late(j, o.n) THEN Blocked(j, o.n, @) ELSE o.status]

Exported(j, n) ==
    [job[j] EXCEPT !.rev = @ + 1,
       !.output = @ \/ ~Late(j, n), !.lateOutput = @ \/ Late(j, n),
       !.status = IF Late(j, n) THEN Blocked(j, n, @) ELSE "TECHNICALLY_VALIDATED"]

Cancelled(j) ==
    [job[j] EXCEPT !.rev = @ + 1, !.cancel = TRUE,
       !.status = IF Unproven(j) = {} THEN "CANCELLED" ELSE "CANCEL_REQUESTED"]

-----------------------------------------------------------------------------
(* The coordinator's admission and reservation. *)

Calls == {c \in Jobs \X (1..MaxAttempts) : c[2] \in Attempts(c[1])}

\* Mutant: a cancelled job gives the conversation back.
ReservedLive == {j \in Jobs : ~job[j].cancel /\ \E n \in Unproven(j) : ~Complete(job[j].attempts[n])}

\* Jobs whose possible generation is not settled occupy the conversation.
Reserved == {j \in Jobs : \E n \in Unproven(j) : ~Complete(job[j].attempts[n])}

IOAllowed(j) ==
    /\ j \in active /\ ~job[j].cancel
    /\ Last(j) > 0 => ~TimedOut(j, Last(j))

BatchAllows == Cardinality(Calls) < MaxCalls

RecoveryAllowed(j) ==
    /\ mode = "ASSISTED" /\ Last(j) = 1
    /\ j \notin active \/ TimedOut(j, 1)
    /\ job[j].attempts[1].status # "FAILED_PRE_SEND" /\ ~job[j].cancel

BeginAllowed(j, rev) ==
    /\ rev = job[j].rev /\ j \in active /\ ~job[j].cancel
    /\ Beginnable(j) /\ Last(j) < MaxAttempts
    /\ BatchAllows /\ Reserved \subseteq {j}

-----------------------------------------------------------------------------
(* The page. *)

Replies(u) == {i \in DOMAIN chat : chat[i].parent = u}
Generating == \E i \in DOMAIN chat : \/ chat[i].state = "pending"
                                     \/ chat[i].role = "user" /\ Replies(i) = {}
Ready == ~Generating /\ composer = None

\* Mutant: any new user message is taken for the attempt's own.
OwnAny(j, n) == {i \in DOMAIN chat : i > job[j].attempts[n].base /\ chat[i].role = "user"}

\* classifyImageObservation on the page as it is, for one recorded attempt.
Own(j, n) == {i \in DOMAIN chat : i > job[j].attempts[n].base /\ chat[i].of = <<j, n>>}
After(u) == {i \in DOMAIN chat : i > u}
Seen(n, status, u, t) == [n |-> n, status |-> status, user |-> u, turn |-> t]

Classify(j, n) ==
    IF Cardinality(Own(j, n)) # 1 THEN None
    ELSE LET u == CHOOSE i \in Own(j, n) : TRUE
             replies == {i \in After(u) : chat[i].role = "assistant"}
         IN  IF \E i \in After(u) : chat[i].role = "user" THEN None
             ELSE IF replies = {} THEN Seen(n, "GENERATING", u, 0)
             ELSE IF Cardinality(replies) > 1 \/ replies \ Replies(u) # {} THEN None
             ELSE LET t == CHOOSE i \in replies : TRUE
                  IN  Seen(n, CASE chat[t].state = "refused" -> "FAILED"
                                [] Generating -> "GENERATING"
                                [] chat[t].state = "image" -> "GENERATED"
                                [] OTHER -> "FAILED", u, t)

-----------------------------------------------------------------------------
(* start *)

Go(p, pc) == proc' = [proc EXCEPT ![p].pc = pc]
End(p) == proc' = [proc EXCEPT ![p] = Idle]
At(p, pc) == proc[p].pc = pc
J(p) == proc[p].job

Enter(p, c) == /\ At(p, "idle") /\ left.runs > 0
               /\ left' = [left EXCEPT !.runs = @ - 1]
               /\ proc' = [proc EXCEPT ![p] = c]

\* Submit again, look at the page and take the messages it shows as the baseline.
Start(p, j) ==
    /\ Beginnable(j) /\ IOAllowed(j) /\ Reserved \subseteq {j} /\ Ready
    /\ Enter(p, [Idle EXCEPT !.pc = "start", !.job = j, !.n = Last(j) + 1,
                             !.rev = job[j].rev, !.base = Len(chat)])
    /\ UNCHANGED <<grantVars, job, pageVars>>

\* The attempt is stored as possibly sent before anything can be sent.
Begin(p) ==
    /\ At(p, "start")
    /\ IF BeginAllowed(J(p), proc[p].rev)
       THEN /\ job' = [job EXCEPT ![J(p)] = Began(@, proc[p].base)]
            /\ proc' = [proc EXCEPT ![p].rev = @ + 1,
                                    ![p].pc = IF mode = "ASSISTED" THEN "hand" ELSE "fill"]
       ELSE End(p) /\ UNCHANGED job
    /\ UNCHANGED <<grantVars, pageVars, left>>

\* Assisted: the command only prints the prompt; it never fills or clicks.
Hand(p) ==
    /\ At(p, "hand") /\ IOAllowed(J(p)) /\ J(p) \in Reserved
    /\ prompted' = prompted \cup {<<J(p), proc[p].n>>}
    /\ End(p)
    /\ UNCHANGED <<grantVars, job, chat, composer, sent, left>>

Fill(p) ==
    /\ At(p, "fill") /\ Ready
    /\ composer' = <<J(p), proc[p].n>>
    /\ Go(p, "final")
    /\ UNCHANGED <<grantVars, job, chat, sent, prompted, left>>

PageHeld(p) == ~Generating /\ composer = <<J(p), proc[p].n>> /\ Len(chat) = proc[p].base

\* The last reads of the adapter; after them it counts the attempt as tried.
Final(p) ==
    /\ At(p, "final") /\ PageHeld(p)
    /\ IOAllowed(J(p)) /\ J(p) \in Reserved
    /\ job[J(p)].rev = proc[p].rev /\ job[J(p)].status = "SUBMISSION_UNKNOWN"
    /\ Go(p, "admit")
    /\ UNCHANGED <<grantVars, job, pageVars, left>>

\* The host's own gate immediately before the click.
Admit(p) ==
    /\ At(p, "admit") /\ PageHeld(p)
    /\ Last(J(p)) = proc[p].n /\ job[J(p)].status = "SUBMISSION_UNKNOWN"
    /\ job[J(p)].attempts[proc[p].n].status = "SUBMISSION_UNKNOWN"
    /\ IOAllowed(J(p)) /\ J(p) \in Reserved
    /\ Go(p, "click")
    /\ UNCHANGED <<grantVars, job, pageVars, left>>

Press(j, n) == sent' = Append(sent, [job |-> j, n |-> n, fate |-> "flying"])

Click(p) ==
    /\ At(p, "click")
    /\ Press(J(p), proc[p].n)
    /\ composer' = None
    /\ Go(p, "look")
    /\ UNCHANGED <<grantVars, job, chat, prompted, left>>

\* Mutant: an error after the click was tried is a failure before Send as well.
FailTried(p) ==
    /\ proc[p].pc \in {"fill", "final", "admit", "look"}
    /\ Go(p, "unsent")
    /\ UNCHANGED <<grantVars, job, pageVars, left>>

\* An error before the click was tried: only this live process may say so.
Fail(p) ==
    /\ proc[p].pc \in {"fill", "final"}
    /\ Go(p, "unsent")
    /\ UNCHANGED <<grantVars, job, pageVars, left>>

Unsent(p) ==
    LET o == Seen(proc[p].n, "FAILED_PRE_SEND", 0, 0) IN
    /\ At(p, "unsent")
    /\ job' = IF job[J(p)].rev = proc[p].rev /\ Provable(J(p), o)
              THEN [job EXCEPT ![J(p)] = Observed(J(p), o)] ELSE job
    /\ End(p)
    /\ UNCHANGED <<grantVars, pageVars, left>>

\* The process is killed, or a step fails in a way that it only reports.
Crash(p) ==
    /\ ~At(p, "idle")
    /\ End(p)
    /\ UNCHANGED <<grantVars, job, pageVars, left>>

-----------------------------------------------------------------------------
(* reconcile, assist-observe and export *)

\* Only a job with an attempt and without a validated result is looked at.
Reconcile(p, j) ==
    /\ Last(j) > 0 /\ job[j].status # "TECHNICALLY_VALIDATED"
    /\ Enter(p, [Idle EXCEPT !.pc = "look", !.job = j, !.n = Last(j), !.rev = job[j].rev])
    /\ UNCHANGED <<grantVars, job, pageVars>>

Look(p) ==
    LET o == Classify(J(p), proc[p].n) IN
    /\ At(p, "look")
    /\ IF o = None THEN End(p)
       ELSE proc' = [proc EXCEPT ![p].pc = "record", ![p].obs = o]
    /\ UNCHANGED <<grantVars, job, pageVars, left>>

\* The operator attests the saved original of the one reply to the prompt.
Attest(p, j) ==
    LET o == Classify(j, Last(j)) IN
    /\ mode = "ASSISTED" /\ Last(j) > 0
    /\ IOAllowed(j) \/ RecoveryAllowed(j)
    /\ o # None /\ o.status = "GENERATED"
    /\ Enter(p, [Idle EXCEPT !.pc = "attest", !.job = j, !.n = Last(j), !.obs = o,
                             !.late = ~IOAllowed(j)])
    /\ UNCHANGED <<grantVars, job, pageVars>>

\* The attested observation is stored at the revision that the job has now.
AttestNow(p) ==
    /\ At(p, "attest")
    /\ IF proc[p].late THEN RecoveryAllowed(J(p)) ELSE IOAllowed(J(p))
    /\ proc' = [proc EXCEPT ![p].pc = "record", ![p].rev = job[J(p)].rev]
    /\ UNCHANGED <<grantVars, job, pageVars, left>>

Record(p) ==
    /\ At(p, "record")
    /\ job' = IF /\ job[J(p)].rev = proc[p].rev /\ Provable(J(p), proc[p].obs)
                 /\ proc[p].late => RecoveryAllowed(J(p))
              THEN [job EXCEPT ![J(p)] = Observed(J(p), proc[p].obs)] ELSE job
    /\ End(p)
    /\ UNCHANGED <<grantVars, pageVars, left>>

\* Export a known output; ImageArtifacts has the steps that follow this admission.
Export(p, j) ==
    /\ Last(j) > 0 /\ Complete(job[j].attempts[Last(j)])
    /\ IOAllowed(j) \/ RecoveryAllowed(j)
    /\ Enter(p, [Idle EXCEPT !.pc = "export", !.job = j, !.n = Last(j), !.late = ~IOAllowed(j)])
    /\ UNCHANGED <<grantVars, job, pageVars>>

-----------------------------------------------------------------------------
(* cancel, the clock, the operator, the conversation *)

Cancel(j) ==
    /\ job[j].status \notin {"TECHNICALLY_VALIDATED", "CANCELLED", "FAILED"}
    /\ ~job[j].cancel \/ Cancelled(j).status # job[j].status    \* bound: a cancel that says something new
    /\ job' = [job EXCEPT ![j] = Cancelled(j)]
    /\ UNCHANGED <<grantVars, pageVars, proc, left>>

Expire(j) == j \in active /\ active' = active \ {j} /\ UNCHANGED <<mode, overrun, job, pageVars, proc, left>>

Overrun(j) ==
    /\ overrun[j] < Last(j) /\ overrun' = [overrun EXCEPT ![j] = Last(j)]
    /\ UNCHANGED <<mode, active, job, pageVars, proc, left>>

ManualSend(a) ==
    /\ a \in prompted /\ prompted' = prompted \ {a}
    /\ Press(a[1], a[2])
    /\ UNCHANGED <<grantVars, job, chat, composer, proc, left>>

Message(role, of, parent, state) == [role |-> role, of |-> of, parent |-> parent, state |-> state]

\* A press reaches the conversation late, or never.
Land(i, fate) ==
    /\ sent[i].fate = "flying" /\ sent' = [sent EXCEPT ![i].fate = fate]
    /\ chat' = IF fate = "lost" THEN chat
               ELSE Append(chat, Message("user", <<sent[i].job, sent[i].n>>, 0, "said"))
    /\ UNCHANGED <<grantVars, job, composer, prompted, proc, left>>

\* A person writes into the same conversation, or empties the composer.
Type ==
    /\ left.typed > 0 /\ left' = [left EXCEPT !.typed = @ - 1]
    /\ chat' = Append(chat, Message("user", None, 0, "said"))
    /\ UNCHANGED <<grantVars, job, composer, sent, prompted, proc>>

Clear ==
    /\ left.typed > 0 /\ composer # None /\ composer' = None
    /\ UNCHANGED <<grantVars, job, chat, sent, prompted, proc, left>>

Reply(u) ==
    /\ chat[u].role = "user" /\ Replies(u) = {}
    /\ chat' = Append(chat, Message("assistant", None, u, "pending"))
    /\ UNCHANGED <<grantVars, job, composer, sent, prompted, proc, left>>

Settle(i, state) ==
    /\ chat[i].state = "pending" /\ chat' = [chat EXCEPT ![i].state = state]
    /\ UNCHANGED <<grantVars, job, composer, sent, prompted, proc, left>>

Command(p) ==
    \/ \E j \in Jobs : Start(p, j) \/ Reconcile(p, j) \/ Attest(p, j) \/ Export(p, j)
    \/ Begin(p) \/ Hand(p) \/ Fill(p) \/ Final(p) \/ Admit(p) \/ Click(p) \/ Fail(p) \/ Unsent(p)
    \/ Look(p) \/ AttestNow(p) \/ Record(p) \/ Crash(p)

World ==
    \/ \E j \in Jobs : Cancel(j) \/ Expire(j) \/ Overrun(j)
    \/ \E a \in prompted : ManualSend(a)
    \/ \E i \in DOMAIN sent, fate \in {"landed", "lost"} : Land(i, fate)
    \/ Type \/ Clear
    \/ \E i \in DOMAIN chat : Reply(i) \/ \E s \in {"image", "text", "refused"} : Settle(i, s)

-----------------------------------------------------------------------------
(* The batch planner's recommendation for one job, from its stored record. *)

Action(j) ==
    LET a == job[j].attempts[Last(j)] IN
    CASE job[j].output -> "RECEIVE_EXISTING"
      [] job[j].lateOutput -> "REVIEW_LATE_OUTPUT"
      [] Last(j) > 0 /\ a.status = "SUBMISSION_UNKNOWN" -> "RECONCILE_EXISTING"
      [] Last(j) > 0 /\ Complete(a) -> "EXPORT_EXISTING"
      [] Last(j) > 0 /\ a.status = "GENERATING" -> "OBSERVE_EXISTING"
      [] Beginnable(j) -> IF Last(j) > 0 THEN "RETRY_PRE_SEND" ELSE "CONTINUE_EXISTING"
      [] OTHER -> "WAIT"

\* The jobs for which the planner proposes a new attempt under an open admission.
Proposed ==
    {j \in Jobs : /\ Action(j) \in {"RETRY_PRE_SEND", "CONTINUE_EXISTING"}
                  /\ IOAllowed(j) /\ Last(j) < MaxAttempts /\ BatchAllows}

-----------------------------------------------------------------------------
(* Properties *)

\* Pressed(j) holds the attempts of j for which Send was pressed.
Pressed(j) == {sent[i].n : i \in {i \in DOMAIN sent : sent[i].job = j}}

\* One generation per job: whatever fails, is retried, killed or raced, Send is pressed at
\* most once for all attempts of a job together (chatgpt-ego.js:331, contract.js:270).
SentOnce == \A i, k \in DOMAIN sent : sent[i].job = sent[k].job => i = k

\* What claims that nothing was sent is right and stays right: an attempt recorded as failed
\* before Send, a job recorded as cancelled, and a job for which the batch planner proposes a
\* new attempt were never sent and no process is about to (contract.js:268, batch.js:176).
UnsentProof ==
    \A j \in Jobs : /\ \A n \in Pressed(j) : n \in Unproven(j)
                    /\ job[j].status = "CANCELLED" \/ j \in Proposed => Pressed(j) = {}

\* A job costs one generation at most: Send is pressed once, and who says that nothing was
\* sent, and so may try again, is right (contract.js:268-275).
OneGeneration == SentOnce /\ UnsentProof

\* A second job presses Send only after the earlier one's own answer and output were recorded,
\* whether that job failed, was cancelled or expired meanwhile (coordinator.py:4085).
OneInFlight ==
    \A i, k \in DOMAIN sent :
        i < k /\ sent[i].job # sent[k].job => Complete(job[sent[i].job].attempts[sent[i].n])

\* The message and the answer that a record names are the attempt's own ones, whoever else
\* writes into the conversation and however late a press lands (chatgpt-ego.js:197).
BoundToOwnTurn ==
    \A j \in Jobs : \A n \in Attempts(j) :
        LET a == job[j].attempts[n] IN
        /\ a.user # 0 => chat[a.user].of = <<j, n>>
        /\ a.turn # 0 => a.user # 0 /\ chat[a.turn].parent = a.user

\* After a cancel nothing of the job is begun or adopted any more, and no later event takes
\* the cancellation back (contract.js:264, 291).
CancelHolds ==
    [][\A j \in Jobs : job[j].cancel =>
          /\ job'[j].status \in {"CANCELLED", "CANCEL_REQUESTED"}
          /\ job'[j].output = job[j].output /\ Len(job'[j].attempts) = Last(j)]_vars
=============================================================================
