----------------------------- MODULE LaunchFlow -----------------------------
(***************************************************************************)
(* Starting a run from the phone: the launch store of                      *)
(* web/src/lib/launch.ts, the orchestration of web/src/hooks/use-launch.ts *)
(* and the buttons of web/src/routes/run-new.tsx.  Script runs to its next *)
(* await in one step; every answer and every wait for a pane generation is *)
(* an await.  A draft is the number of resets before it.  The two ways to  *)
(* create a workspace differ only in parameters.                           *)
(***************************************************************************)
EXTENDS Naturals, Sequences, FiniteSets

CONSTANTS
    Activations,  \* activations of execute and resendObjective, each a slot
    MaxDrafts,    \* bound: drafts, one more than resets
    MaxPresses,   \* bound: presses of retry and "Send the objective again"
    EarlyReset    \* whether the operator resets while a call is in flight

ASSUME LaunchAssumption ==
    /\ IsFiniteSet(Activations) /\ MaxDrafts \in Nat \ {0} /\ MaxPresses \in Nat
    /\ EarlyReset \in BOOLEAN

VARIABLES
    draft,      \* which draft the store holds
    launched,   \* drafts whose launch button was pressed
    target,     \* draft.targetKind: "existing" or "new"
    phase,      \* LaunchState.phase
    steps,      \* LaunchState.steps: status of each step
    created,    \* which of LaunchState.created are recorded
    activation, \* where each activation is waiting
    presses,    \* retry and resend presses so far
    asked,      \* per draft: presses of "Send the objective again"
    reached,    \* per draft: prompts with its objective that Herdr took
    confirmed,  \* drafts whose objective the relay confirmed
    resent      \* retry sent a prompt again that may have been taken before

store == <<draft, launched, target, phase, steps, created>>
herdr == <<reached, confirmed, resent>>
launchVars == <<store, activation, presses, asked, herdr>>

LAUNCH_STEPS == <<"workspace", "pane", "agent", "prompt">>
Steps == {LAUNCH_STEPS[i] : i \in DOMAIN LAUNCH_STEPS}
Statuses == {"pending", "running", "done", "failed", "delivery_unknown"}

(* What an activation waits for: at is "call" (a mutation), "split" (the pane
   step's pane.split) or "gen" (awaitPaneGeneration). *)
Waiting(kind, step, at, d) == [at |-> at, kind |-> kind, step |-> step, draft |-> d]

Idle == Waiting("none", "none", "idle", 0)

initialSteps == [s \in Steps |-> "pending"]
Nothing == [ws |-> FALSE, pane |-> FALSE, run |-> FALSE]

LaunchInit ==
    /\ draft = 1 /\ launched = {} /\ target \in {"existing", "new"}
    /\ phase = "compose" /\ steps = initialSteps /\ created = Nothing
    /\ activation = [c \in Activations |-> Idle]
    /\ presses = 0 /\ asked = [d \in 1..MaxDrafts |-> 0]
    /\ reached = [d \in 1..MaxDrafts |-> 0] /\ confirmed = {} /\ resent = FALSE

SETTLED == {"done", "skipped", "delivery_unknown"}

Least(I) == CHOOSE i \in I : \A j \in I : i <= j

(* The first step that is not settled; "none" if all are. *)
nextStep(st) ==
    LET left == {i \in DOMAIN LAUNCH_STEPS : st[LAUNCH_STEPS[i]] \notin SETTLED}
    IN  IF left = {} THEN "none" ELSE LAUNCH_STEPS[Least(left)]

(***************************************************************************)
(* The loop of execute.  ph, st and cr are the phase, steps and created as *)
(* the script has left them so far; it reads draft and created again in    *)
(* every iteration.                                                        *)
(***************************************************************************)
Wait(c, step, at, ph, st, cr) ==
    /\ steps' = [st EXCEPT ![step] = "running"]
    /\ created' = cr
    /\ phase' = ph
    /\ activation' = [activation EXCEPT ![c] = Waiting("execute", step, at, draft)]

(* fail(message); return. *)
fail(c, step, st, cr) ==
    /\ steps' = [st EXCEPT ![step] = "failed"]
    /\ created' = cr
    /\ phase' = "settled"
    /\ activation' = [activation EXCEPT ![c] = Idle]

(* The pane step: the created pane or a free one of the snapshot, else a split
   of an occupied one, else nothing. *)
PaneStep(c, ph, st, cr) ==
    \/ Wait(c, "pane", "gen", ph, st, cr)
    \/ ~cr.pane /\ (Wait(c, "pane", "split", ph, st, cr) \/ fail(c, "pane", st, cr))

Iterate(c, ph, st, cr) ==
    LET step == nextStep(st)
    IN  \/ /\ step = "none"
           /\ phase' = "settled" /\ steps' = st /\ created' = cr
           /\ activation' = [activation EXCEPT ![c] = Idle]
        \/ step = "workspace" /\ Wait(c, step, "call", ph, st, cr)
        \/ step = "pane" /\ PaneStep(c, ph, st, cr)
        \/ /\ step \in {"agent", "prompt"}
           /\ IF cr.pane THEN Wait(c, step, "gen", ph, st, cr) ELSE fail(c, step, st, cr)

(* An existing workspace is looked up in the snapshot, with no await. *)
execute(c, ph, st, cr) ==
    IF nextStep(st) = "workspace" /\ target = "existing"
    THEN \/ fail(c, "workspace", st, cr)
         \/ Iterate(c, ph, [st EXCEPT !["workspace"] = "done"], [cr EXCEPT !.ws = TRUE])
    ELSE Iterate(c, ph, st, cr)

(***************************************************************************)
(* What the awaits answer.                                                 *)
(***************************************************************************)
Executing(c, step, at) ==
    /\ activation[c].at = at /\ activation[c].kind = "execute" /\ activation[c].step = step

Quiet == UNCHANGED <<draft, launched, target, presses, asked>>

(* A creation either answered, with any of the ids it may leave out, or
   failed, whatever Herdr did. *)
WorkspaceAnswer(c) ==
    /\ Executing(c, "workspace", "call")
    /\ \/ fail(c, "workspace", steps, created)
       \/ \E w, p \in BOOLEAN :
             execute(c, phase, [steps EXCEPT !["workspace"] = "done"],
                     [created EXCEPT !.ws = w, !.pane = p])
    /\ Quiet /\ UNCHANGED herdr

SplitAnswer(c) ==
    /\ Executing(c, "pane", "split")
    /\ \/ fail(c, "pane", steps, created)
       \/ activation' = [activation EXCEPT ![c].at = "gen"] /\ UNCHANGED <<phase, steps, created>>
    /\ Quiet /\ UNCHANGED herdr

(* awaitPaneGeneration: the generation, or nothing within its timeout. *)
PaneGeneration(c) ==
    /\ Executing(c, "pane", "gen")
    /\ LET cr == [created EXCEPT !.pane = TRUE]
       IN  \/ fail(c, "pane", steps, cr)
           \/ execute(c, phase, [steps EXCEPT !["pane"] = "done"], cr)
    /\ Quiet /\ UNCHANGED herdr

(* Sending a prompt by the loop: the run id is recorded before the call. *)
Send(c, step) ==
    /\ created' = IF step = "prompt" THEN [created EXCEPT !.run = TRUE] ELSE created
    /\ activation' = [activation EXCEPT ![c].at = "call"]
    /\ UNCHANGED <<phase, steps>>

StepGeneration(c) ==
    /\ \E step \in {"agent", "prompt"} :
          /\ Executing(c, step, "gen")
          /\ fail(c, step, steps, created) \/ Send(c, step)
    /\ Quiet /\ UNCHANGED herdr

AgentAnswer(c) ==
    /\ Executing(c, "agent", "call")
    /\ \/ fail(c, "agent", steps, created)
       \/ execute(c, phase, [steps EXCEPT !["agent"] = "done"], [created EXCEPT !.run = TRUE])
    /\ Quiet /\ UNCHANGED herdr

(* What became of a prompt and how classifySend reads the answer: a refusal
   took nothing, a lost answer may have. *)
Outcomes == {[took |-> TRUE, kind |-> "accepted"], [took |-> FALSE, kind |-> "rejected"],
             [took |-> TRUE, kind |-> "delivery_unknown"],
             [took |-> FALSE, kind |-> "delivery_unknown"]}

Delivered(c, o) ==
    LET d == activation[c].draft
    IN  /\ reached' = IF o.took THEN [reached EXCEPT ![d] = @ + 1] ELSE reached
        /\ confirmed' = IF o.kind = "accepted" THEN confirmed \cup {d} ELSE confirmed
        /\ resent' = (resent \/ (o.took /\ reached[d] > 0 /\ activation[c].kind = "execute"))

(* Mutant: an uncertain delivery is a plain failure. *)
PromptAnswerFails(c) ==
    /\ Executing(c, "prompt", "call")
    /\ \E o \in Outcomes :
          /\ Delivered(c, o)
          /\ IF o.kind = "accepted" THEN execute(c, phase, [steps EXCEPT !["prompt"] = "done"], created)
             ELSE fail(c, "prompt", steps, created)
    /\ Quiet

PromptAnswer(c) ==
    /\ Executing(c, "prompt", "call")
    /\ \E o \in Outcomes :
          /\ Delivered(c, o)
          /\ \/ o.kind = "accepted" /\ execute(c, phase, [steps EXCEPT !["prompt"] = "done"], created)
             \/ o.kind = "rejected" /\ fail(c, "prompt", steps, created)
             \/ /\ o.kind = "delivery_unknown"
                /\ steps' = [steps EXCEPT !["prompt"] = o.kind]
                /\ phase' = "settled" /\ created' = created
                /\ activation' = [activation EXCEPT ![c] = Idle]
    /\ Quiet

(* The two awaits of resendObjective; it leaves the phase alone. *)
Resending(c, at) == activation[c].at = at /\ activation[c].kind = "resend"

ResendGeneration(c) ==
    /\ Resending(c, "gen")
    /\ \/ /\ steps' = [steps EXCEPT !["prompt"] = "failed"]
          /\ activation' = [activation EXCEPT ![c] = Idle]
       \/ activation' = [activation EXCEPT ![c].at = "call"] /\ UNCHANGED steps
    /\ Quiet /\ UNCHANGED <<phase, created, herdr>>

ResendAnswer(c) ==
    /\ Resending(c, "call")
    /\ \E o \in Outcomes :
          /\ Delivered(c, o)
          /\ steps' = [steps EXCEPT !["prompt"] =
                          CASE o.kind = "accepted" -> "done"
                            [] o.kind = "rejected" -> "failed"
                            [] OTHER -> o.kind]
    /\ activation' = [activation EXCEPT ![c] = Idle]
    /\ Quiet /\ UNCHANGED <<phase, created>>

(***************************************************************************)
(* The buttons.                                                            *)
(***************************************************************************)
Free(c) == activation[c].at = "idle"

(* Enabled for a draft without problems. *)
Launch(c) ==
    /\ Free(c) /\ phase = "compose"
    /\ launched' = launched \cup {draft}
    /\ execute(c, "running", steps, created)
    /\ UNCHANGED <<draft, target, presses, asked, herdr>>

Press == presses < MaxPresses /\ presses' = presses + 1

(* Only a failure is cleared. *)
prepareRetry(st) ==
    LET again(status) == IF status = "failed" THEN "pending" ELSE status
    IN  [st EXCEPT !["workspace"] = again(@), !["pane"] = again(@),
                   !["agent"] = again(@), !["prompt"] = again(@)]

(* Offered when launchHasRetryableStep. *)
Retry(c) ==
    /\ Free(c) /\ phase = "settled" /\ Press
    /\ \E s \in DOMAIN steps : steps[s] = "failed"
    /\ execute(c, "running", prepareRetry(steps), created)
    /\ UNCHANGED <<draft, launched, target, asked, herdr>>

(* Offered when launchDeliveryUnknown. *)
ResendObjective(c) ==
    /\ Free(c) /\ phase = "settled" /\ Press
    /\ \E s \in DOMAIN steps : steps[s] = "delivery_unknown"
    /\ created.pane
    /\ asked' = [asked EXCEPT ![draft] = @ + 1]
    /\ steps' = [steps EXCEPT !["prompt"] = "running"]
    /\ activation' = [activation EXCEPT ![c] = Waiting("resend", "prompt", "gen", draft)]
    /\ UNCHANGED <<draft, launched, target, phase, created, herdr>>

(* "Start another run" waits for the phase to settle, "Open the run" only for
   a run id; neither waits for a call in flight. *)
Reset ==
    /\ phase = "settled" \/ (phase = "running" /\ created.run)
    /\ EarlyReset \/ (\A c \in Activations : Free(c))
    /\ draft < MaxDrafts /\ draft' = draft + 1
    /\ target' \in {"existing", "new"}
    /\ phase' = "compose" /\ steps' = initialSteps /\ created' = Nothing
    /\ UNCHANGED <<launched, activation, presses, asked, herdr>>

Answer(c) ==
    \/ WorkspaceAnswer(c) \/ SplitAnswer(c) \/ PaneGeneration(c) \/ StepGeneration(c)
    \/ AgentAnswer(c) \/ PromptAnswer(c) \/ ResendGeneration(c) \/ ResendAnswer(c)

LaunchNext ==
    \/ \E c \in Activations : Answer(c) \/ Launch(c) \/ Retry(c) \/ ResendObjective(c)
    \/ Reset

LaunchSpec == LaunchInit /\ [][LaunchNext]_launchVars

(* Requests time out in the client and awaitPaneGeneration has a deadline;
   the operator owes nothing. *)
LaunchFairSpec == LaunchSpec /\ \A c \in Activations : WF_launchVars(Answer(c))

-----------------------------------------------------------------------------

LaunchTypeOK ==
    /\ draft \in 1..MaxDrafts /\ launched \subseteq 1..draft
    /\ phase \in {"compose", "running", "settled"}
    /\ steps \in [Steps -> Statuses]
    /\ created \in [ws : BOOLEAN, pane : BOOLEAN, run : BOOLEAN]
    /\ \A c \in Activations :
          Free(c) \/ /\ activation[c].at \in {"call", "split", "gen"}
                     /\ activation[c].draft \in 1..draft

(* A receipt that says every step completed belongs to a draft whose objective
   the relay confirmed (launchSucceeded; PromptAnswer, ResendAnswer, reset). *)
ReceiptHonest ==
    (phase = "settled" /\ \A s \in DOMAIN steps : steps[s] = "done") => draft \in confirmed

(* c runs the loop of execute. *)
Orchestrates(c) == ~Free(c) /\ activation[c].kind = "execute"

(* No two orchestrations run at once (LaunchStore: "One launch at a time"). *)
OneLaunch ==
    \A c, d \in Activations : Orchestrates(c) /\ Orchestrates(d) => c = d

(* An objective reaches the agent at most once more than the operator asked
   for it to be sent again, through any sequence of failures, lost answers,
   retries and resends (nextStep, prepareRetry, classifySend). *)
DuplicatesWereAsked == \A d \in 1..MaxDrafts : reached[d] <= 1 + asked[d]

(* A retry never repeats an objective that may have been taken: that needs
   "Send the objective again" (launch.ts, DeliveryState of the prompt step). *)
NoSilentResend == ~resent

(* A completed step stays completed until the operator starts another run
   (prepareRetry, fail). *)
WorkIsKept ==
    [][draft' = draft => \A s \in DOMAIN steps : steps[s] = "done" => steps'[s] = "done"]_launchVars

(* The launch flow: a receipt of success belongs to a confirmed objective, one
   orchestration runs at a time, the agent gets the objective once and once more
   for each time the operator asks, and completed work is kept (LaunchStore,
   nextStep, classifySend, prepareRetry). *)
LaunchHonest ==
    /\ [](ReceiptHonest /\ OneLaunch /\ DuplicatesWereAsked)
    /\ WorkIsKept

(* Every launch settles: no failure, timeout or uncertain delivery leaves the
   receipt on "Starting the run" (execute). *)
Settles == phase = "running" ~> phase # "running"

=============================================================================
