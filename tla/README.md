# Smart Ticket: specifications

TLA+ models of the parts of `src/services/core-api` in which several actors
(Celery workers, requesters, support staff, the triage pipeline, watchdogs and
external systems) share rows and synchronise only through row locks, conditional
UPDATEs and messages. TLC checks small instances of every model; TLAPS proves the
main invariants for every value of the constants. `PROJECT.json` maps each
definition to the lines it models and lists the runs, the mutants that show that
each property can fail, the hazards and the findings.

## 1. The system

A requester writes to the chat or files a form. `core-api` masks personal data,
asks `ai-engine` to retrieve knowledge-base pages and draft an answer, and a
router *in code* decides what happens: answer, route to a team, ask the requester
one question, or hand over to a person. From then on the ticket lives in a
configurable workflow, with SLA clocks, assignment, incidents and notifications
around it.

| Part | State it keeps | Operations | Interacts with |
|---|---|---|---|
| **lifecycle engine** (`lifecycle`) | the ticket's status, version and lock (`waiting_transform`); `Transfer` and `ActionRun` rows | request, run phases, commit, finalize, retry, callback, sweep, pipeline move, change of workflow, deletion of a status | Celery (`run_phase` messages), n8n and webhooks, the pipeline, SLA, assignment, notifications (synchronous listeners inside the move's transaction) |
| **triage pipeline** (`tickets/utils/pipeline.py`, `router.py`, `clarification.py`) | `AiRun`, `RoutingDecision`, `ReviewItem`, `TicketClarification` rows; the ticket's `held_decision` | process a request, hold, ask, answer, release, execute a decision | ai-engine, lifecycle (`system_move`), chat, security alerts, review queue |
| **notifications** (`notifications`) | `NotificationMessage` outbox rows | emit, claim, send, retry, sweep | every part that emits; SMTP, chat and webhook channels |
| **runbooks** (`itsm_mock/utils/runbooks.py`) | `RunbookExecution` rows and their approvals | execute, start, finish, callback, sweep, resolve | review queue, n8n |
| **SLA clocks** (`sla`) | `SlaClock` rows with pauses and notices | start, pause, resume, stop, rebuild, sweep | lifecycle listeners, incidents, notifications |
| **assignment** (`teams`) | `Ticket.assignee`, team queues | assign after a handoff, take, release, reassign | pipeline, lifecycle |
| **incidents** | `Incident` and its tickets | classify, confirm, attach, resolve, broadcast, close tickets | SLA, lifecycle, notifications |
| **requester** | comments, reopenings | reply, confirm, reopen, auto-close | lifecycle, assignment |
| **review queue** (`review`) | `ReviewItem`, `ReviewDecision` | claim, release, decide | pipeline, runbooks |
| **chat** | conversations and turns | join or start, answer a turn, end | pipeline |
| **identity** (`accounts`) | people, departments, grants, roles, refresh sessions, access reviews | place, join, grant, suspend, leave, sweep, sign in | Keycloak |
| **rollout** | branch stages, threshold snapshots | propose, approve, pause | pipeline |
| **knowledge base** (`kb`, `fewshot`) | pages, drafts, authority, entity graph | draft, approve, index | ai-engine |
| **PII**, **security alerts**, **audit**, **metrics**, **reports** | masked text and sealed values; append-only rows | mask, reveal with approval; record; query | all |
| **ai-engine** | none between requests | retrieve, rerank, draft | vLLM, PostgreSQL |
| **admin console, chat front end** | the browser session | views over the API | core-api |

What is hard about it:

* *Work is spread over transactions.* A move is recorded in one, its actions claimed
  and finished in others, committed in another, finalized in another, and at every
  boundary a person, the pipeline or the watchdog may step in.
* *Messages repeat and vanish.* Celery runs with `task_acks_late` and
  `task_reject_on_worker_lost` (`config/settings/base.py:155-156`): a dying worker's
  task runs again. Messages sent `on_commit` are lost if the process dies between the
  commit and the send.
* *Nothing limits how long a task runs.* No task time limit is set, so a worker may
  come back after a watchdog has given up on it.
* *External systems call back whenever they like*, or never.

The `hazards` of `PROJECT.json` list these, line by line, with the properties that watch
over them. What makes each part correct, in one line:

* lifecycle: one move in flight, and nobody but the pipeline disturbs a locked ticket;
  no action lost or run twice; every move ends.
* pipeline: what is automated has earned it; a decision that must reach a person is not
  held back; a request is decided once and its question asked once.
* notifications: nothing is lost, and a message is sent again only for a reason that is on record
  (a sweep, an answer nobody heard, a person's retry).
* runbooks: nothing runs without a live approval, or twice for one approval.
* SLA: a clock runs exactly while somebody in support owes the requester something.
* assignment, review: one owner, one decision.
* incidents: no ticket stays held by an incident that is over.
* identity: who holds what follows from where people are; leavers keep nothing; somebody can
  always grant access.

## 2. Modules and runs

### 2.1 `Lifecycle`: the lifecycle engine

One ticket, because every lock, unique index and query of the engine is confined to one
ticket. One action per database transaction: what PostgreSQL makes atomic is one step,
everything else interleaves.

| Model | Code |
|---|---|
| `ticket` | `tickets.Ticket`: status, `waiting_transform`, version, `resolved_at`, count of resolutions |
| `transfers`, `runs` | `lifecycle.Transfer`, `lifecycle.ActionRun`, in creation order |
| `messages` | waiting `run_phase` Celery messages: delivered at least once, in any order |
| `workers` | the program counter of each worker and what it has read so far |
| `calls` | n8n workflows started whose callback is still to come |
| `rulesBroken` | whether the transition's rules hold of the ticket's field values |
| `deletion`, `deleted` | `config.delete_status`, between its three transactions |
| `RequestMove`, `RecordMove` | `engine.request_move`, `record_move`: all guards under the ticket's lock |
| `SystemMove` | `engine.system_move`: the pipeline's override, with `cancel_open` |
| `ChangeWorkflow`, `AdoptTicket` | `change_workflow`, `adopt_tickets` |
| `RetryFailed`, `RetryStalled` | `engine.retry`, with and without an open transfer |
| `Deliver`, `Check`, `ReadRuns` | the beginning of `run_phase`, in a task or for its next phase |
| `Claim`, `Load`, `Handle*`, `Finish` | `runner.execute`: conditional UPDATE, unlocked read, the handler, `finish` |
| `Fail`, `Commit`, `Advance`, `Finalize`, `MakeDeferred` | the engine's functions of those names |
| `TimeOut`, `Resume` | the two halves of `engine.sweep` |
| `Answer` | `complete_callback`; `Crash`, `Lose`: a lost worker, a lost message |

A worker's record keeps exactly the local variables that outlive a transaction: the runs
it saw queued (`todo`), how its loop ends (`then`), whether its transfer was open when it
loaded it (`view`), the attempt it claimed, and the outcome it is about to write. That is
where stale reads live. `owner` in a run is a history variable: whose claim the row
records. An action is one of five kinds: `local` (assign, notify, set fields: an effect
inside core-api), `webhook` (may be retried), `n8n` (waits for a callback), `move`,
`change` of workflow.

`TicketMoves` is what the engine promises of one ticket, without workers or messages: a
status and at most one move in flight. `MovesAsPromised` is the refinement
`INSTANCE TicketMoves WITH status <- ticket.status, moves <- OpenMoves`.

| Run | Asks | Bounds |
|---|---|---|
| `lifecycle_moves` | a move holds its ticket while it is open and only then (`MovesHoldTheTicket`); the status is where the record of moves leads, and its version tells it (`StatusIsAccountedFor`); no move lands with its rules broken (`RulesHoldOnEntry`); what has finished stays (`FinishedStays`) | two workers, one possibly late, 2 transfers, 1 retry, rules that change, the pipeline, depth 1 |
| `lifecycle_chains` | entry actions that loop end (`ChainsAreBounded`); a deleted status keeps no ticket (`TicketHasAStatus`); the refinement (`MovesAsPromised`) | 1 worker, 2 workflows, deletion and adoption, depth 1, 3 transfers (one more than a chain may have) |
| `lifecycle_engine` | without retries by people, a completed move ran everything (`CompletedRanEverything`), only the owner of a run writes it (`OnlyTheOwnerWrites`), and every move ends (`EveryMoveEnds`) | runs in all three phases (n8n before the move, a webhook after it), late workers, a crash, a loss, a silent n8n, 1 transfer |

*Bounds.* Two workers are enough for a late worker to meet a new one. `MaxCopies` caps the
waiting copies of one message; a copy above the cap is dropped, which the model allows
anyway because a worker may take the same message at any time later in the watchdog's
re-queue. Three phases with one run each reach every branch of `run_phase`; two transfers
let a deferred move, a second request or a pipeline move follow a first one.

What the bounds exclude matters where a property would fail beyond them: see section 3.

*Fairness.* Each worker keeps working and taking messages (Celery restarts its processes);
`TimeOut` and `Resume` are weakly fair because celery beat runs the watchdog every 60
seconds. Nothing is assumed of people, of the pipeline or of n8n.

*Redundant checks.* The proofs show that two checks of the code can never fire: `retry`
and `commit` look for a ticket that has left the move's place, but `OpenMoveHoldsTicket` (a
part of `MovesHoldTheTicket`) holds of every open transfer, so only `retry` of a *failed* transfer needs it.

### 2.2 `Router`: the switch router

`Router.route` is a pure function, so `Router` has no variables: a ticket's signals and
proposal are a record, each block of the code is a tuple of gates (a condition and the
decision it leads to), and `Route` takes the first gate that fires. Scores are abstracted
to the thresholds they are compared with, which is all the router looks at.

`RouterSignals` asks the router about one ticket: its signals are the variable, and every
improvement of one of them is a step.
`BranchesAreEarned` (`BranchIsEarned` of each) states, as one condition per branch and not as a sequence of gates, when
a reply, a route or a question may happen without a person (ADR-0002, 0016, 0017, 0023,
0026), and which signal wins when several are bad; `BetterSignalsNeverHurt` is a property of
the *order*: no improvement may lead to more human work, which a gate moved to the wrong
place would break. The run `algorithms` starts with each of the 7 296 inputs, so it is exhaustive for the
abstraction at its cap. The same run holds the business calendar (section 2.6).

### 2.3 `TicketPipeline`: the task of one ticket

| Model | Code |
|---|---|
| `ticket` | status, `held_decision`, `pii_level`, source |
| `aiRuns`, `decisions`, `questions`, `items`, `alerts` | `AiRun` (the intent proposed), `RoutingDecision`, `TicketClarification`, `ReviewItem`, `SecurityAlert` rows |
| `messages` | waiting `process_ticket` messages |
| `workers` | what `ticket_process` holds in local variables between its transactions: the ticket's level as read at its start, the attempt, the questions counted, the decision, its stamp |
| `Receive`, `Embed`, `Analyse` | the steps of `ticket_process`, each ending in `Persist` when it decides |
| `Stamp`, `Finalize` | `_finalize`: `decided_at` is set when the row is built; the rest of the transaction waits for the ticket's lock |
| `Execute`, `Hold` | `_execute_or_enqueue`, `_hold_for_requester` |
| `Release`, `Answer`, `Expire` | `release_to_support`, `Clarifications.answer`, the end of `wait_minutes` |
| `TakeUp`, `Reopen` | what `Lifecycle` allows people and requesters to do with the status |
| `Crash`, `Lose` | a worker dies and its message is redelivered; a message is lost after the commit it follows |

The rollout flags may change at any time: `Finalize` draws them anew, as `rollout.snapshot`
reads them. `Policed` replaces what ai-engine cannot know by what the task read itself.

Run `pipeline`: two workers, one crash, one loss, one question, a ticket that is routine or
holds a secret at first, answers of any level, six kinds of analysis, and an outage at any
step. `Undisturbed` (no worker died) conditions what a redelivery breaks, see section 3:

* `OneDecisionPerRequest`: a submission and each answer is decided once, and no more is asked
  than the policy allows. The part about questions holds through a crash as well, for the one
  round that is set (`clarification.max_rounds`): with a cap of two, two deliveries that both
  counted one question may ask a second and a third.
* `HeldAsDecided`, `AutomationIsAuthorised`: what waits, and what was sent or routed, is what
  was decided, while masking levels, flags and stamps change between the transactions.
* `EveryTicketIsInHand`: whatever fails, some row leads a person or a worker to the ticket.
* `EveryTicketIsDecided` (liveness).

Without a crash at most one worker is busy with the ticket, since a new message is sent
only by an answer, which needs a decided ticket; one crash gives two deliveries in any
order, which is what the properties need to be told apart.

*Fairness.* A worker keeps working and taking messages. Nothing is assumed of the requester
or of people. `EveryTicketIsDecided` promises nothing once a message is lost: nothing looks
for such a ticket, which `EveryTicketIsInHand` states as well.

### 2.4 `Outbox`: the notification outbox

One message, because every lock and every UPDATE of the dispatcher is confined to its row.

| Model | Code |
|---|---|
| `row` | `notifications.Message`: state, attempts, whether `next_attempt_at` has come |
| `copies` | waiting `dispatch` tasks; the cap `MaxCopies` drops a copy, which the sweep sends again |
| `workers` | the copy of the row a worker claimed (its attempts) and the outcome of its send |
| `Claim`, `Skip` | `Dispatcher.claim`: the due, queued row under its lock |
| `Send` | `send_email`, `send_webhook`: no lock is held; taken, refused for now or for good, or taken and not heard |
| `Write` | the three conditional UPDATEs of `dispatch`, `retry_later` and `fail` |
| `Requeue`, `SweepDue` | the two halves of `sweep` |
| `Retry`, `Wait` | a person's `retry`; the backoff that passes |
| `Crash`, `Lose` | a dead worker, a lost task |

`claims`, `accepted` and `again` are history: how often the message was claimed, taken by the
recipient's side, and given a reason to be sent once more. The code does not promise one
delivery. `OnceForEachReason` says what it does promise: a second copy, or a further attempt,
needs a reason each time: a sweep that took the message from its worker, an answer that was not
heard, or a person's retry. A sender that is only slow is a reason of the first kind, and its
outcome lands on the claim that follows: a message can then be listed as failed, or be sent
once more, though it was accepted (the UPDATEs ask for `sending`, not for the claim).
Nothing any of them writes undoes a delivery (`DeliveredIsFinal`, a part of the same property), and
`EveryMessageEnds` that the sweep finds whatever was lost.

Run `outbox`: two workers, a crash, two slow sends, one unheard answer, a loss, a retry,
two attempts per claim cycle. Two slow sends let one late outcome meet another's claim and a
second follow it. *Fairness:* workers take tasks and sends return; the backoff passes; celery
beat runs the sweep every 60 seconds.

### 2.5 `Runbooks`: the execution of an approved proposal

One review item, whose row lock orders its executions.

| Model | Code |
|---|---|
| `runbook`, `change` | `itsm_mock.Runbook`; a change that has read the clock for `approved_at` and is not committed |
| `executions` | `RunbookExecution` rows in the order of `attempt`; `version` is the definition its payload was checked against |
| `permitted` | whether the approving reviewer holds `runbooks.execute` |
| `Execute` | `execute`: approval, runbook, payload, no execution that has not failed |
| `Start`, `Call`, `Finish` | the two transactions of `run` with the executor's call between them |
| `KeycloakOutcomes`, `N8nOutcomes` | what a call can come to: its effect and what core-api hears of it |
| `FlowActs`, `Callback` | an n8n workflow takes effect; `complete_callback` |
| `Sweep`, `Resolve` | the sweep; a person's verdict on `unknown` |
| `Stamp`, `Commit` | `change` and `activate`: `approved_at` is read, then the transaction commits |

Time is abstracted to order: `since` is how many executions there were when `approved_at` was
read, so that `executed_at < approved_at` is `e <= since`. A sweep may come at any moment of a
running execution (its wait is 300 seconds for a call and 30 for a workflow, and both are
outlasted by a stopped process or a long workflow), so the safety properties do not depend
on timing. `happened` is the target system's history.

* `OneEffect` and `TheTrailIsTrue` are the two sides of BR-F12-06: a proposal has one live
  attempt and one effect, and what is recorded is what ran and what came of it. A person who
  confirms a failure while the workflow is still on its way is the one way to a second
  effect, and is counted.
* `TheTrailIsTrue` has an exception, and the model shows that it happens: an execution
  that is queued while a change is being saved reads the old definition, is newer than the
  change's `approved_at`, and so runs the new definition with a payload checked against the
  old one. ADR-0043 says such a run fails.
* `EveryRunEnds` has one too: the sweep looks at running executions only, so a queued one
  whose task was lost stays, and blocks the proposal for good.

Run `runbooks`: two executions, two workers, a change, a revocation, a misjudged failure, a
crash and a loss. A third execution adds nothing: the second is queued when the first has
failed for good. *Fairness:* workers take tasks, calls time out, a change commits, celery beat
runs the sweep; nothing is assumed of n8n or of people.


### 2.6 `BusinessTime` and `SlaClocks`: business time, the clocks and the incident

`BusinessTime` translates `sla/utils/business_time.py`: how hours are read, the working time
between two moments, the moment some working time from now, and whole working days. The code
keeps no state; the variable `asked` is the question it is asked, hours to read or a calendar and
how much time has passed on it since a moment. In the run `algorithms`, `BusinessTimeIsCounted` compares each with a count of
working units one by one, for every week of two days with up to two intervals each, days off,
and amounts of time beyond what `add` is willing to walk. `BusinessTimeProofs` proves the same
for every calendar.

`SlaClocks` is one ticket with its two clocks and one incident it may belong to. Calendars are
abstracted to the function `Worked`, which grows as `ElapsedAdds` proves; a status to its class
(backlog, active, waiting, completed).

| Model | Code |
|---|---|
| `clocks` | `SlaClock` rows: state, start, business time folded up to `asOf`, the target, the times of its levels, what has fired |
| `mirror`, `priority` | `Ticket.sla_due_at`, `Ticket.priority` |
| `record` | what `rebuild` replays: committed transfers, decisions, staff replies |
| `Move`, `Answer` | `on_status_entered` and `respond`, in the transaction of the move or the reply; each may fail inside `guarded` (`Fails`), which asks for a rebuild |
| `ChangePriority`, `Override` | `change_priority`, `override` |
| `Rebuild(copy)` | `rebuild`, with the ticket its caller loaded: the due time, the priority and the incident link of that copy; the status of that incident is read when it is first asked for, which is within the rebuild |
| `SweepReads`, `SweepRebuilds`, `SweepFires` | the parts of `sweep`; the loop's query loads the tickets, `copied` |
| `RebuildAsked`, `AskedRebuilds` | `rebuild_sla`: a person's request loads the ticket, `asked`, then rebuilds |
| `Detected`, `TriageJoins`, `Attached` | `classify` finds an open incident or proposes one, `link` waits for the incident's row and links whatever became of it, `attach` holds the clock if the incident *as it was found* is confirmed; a ticket linked before loads the incident only then (`ask`) |
| `ManagerReads`, `ManagerCommits` | confirm, declare, dismiss, link, unlink, reopen: they read their tickets, then work on the clocks' rows |
| `Resolve`, `Resolver*` | `resolve`: status, broadcast, then marks or releases, a transaction each |
| `Closer*` | `continue_closing`, which the sweep goes on with; `not_closed` releases the clock |

`spent` and `marks` are history. `spent` counts the working time that passes in `Tick` while a
clock counts. `marks` names what the record or the hold cannot tell: a person's change of a
target, or a rebuild that undoes one (`edited`), a handler, a rebuild or a triage worker that
worked with an old copy of its ticket or its incident (`late`, `kept`, `copy`), a clock that
started, reopened, was rebuilt or was joined to a confirmed incident and is not held (`unheld`),
a resolver or closer that stopped half way (`unreleased`). Each mark stands in the
property it would break, so the properties say exactly when the clocks may be wrong. A rebuild
makes the clocks anew and takes away the marks that were about the old ones.

BR-F1-15 and BR-F7-07 (`docs/requirements/phase-2/06-F7-mass-incident.md:159`) promise without
exception that the clocks wait while the incident is confirmed and resume when it is not. What is
marked breaks that promise, and the properties do not catch it: they show that nothing else does.
So `ClocksFollowTheTicket` says nothing of a ticket whose resolver stopped half way (`unreleased`)
until its clocks are rebuilt.

| Property of run `sla` | Says |
|---|---|
| `ElapsedIsTrue` | the folded time is the time that was counted, over every order of pauses, resumptions and changes of target |
| `ReplayAgrees` | a rebuild with the ticket as it is gives back the clocks there are: the replay and the operations agree, after rebuilds from older copies too, until a person's change of target or an incident |
| `ClocksFollowTheTicket` | no clock stays open on a ticket that is done, and none waits without a reason or runs against one |
| `MirrorFollows` | the ticket's copy of its due time is that of the clock |
| `FiredOnTime` | nothing fires before its business time has passed |
| `SweepCatchesUp` | rebuilds are made and late clocks marked (liveness) |

*Bounds.* Behaviours choose among five budgets of ticks, moves, changes and handlings, so that
each kind of thing goes deep while the others stay short: three moves over three ticks, two
moves amid two changes or failures, or two to three handlings of the incident around two
moves. A stale copy needs a read, a change and a write, which fits; a rebuild asked for by a
person counts as a change. *Fairness:* only that the sweep,
which beat starts every minute, keeps turning.

### 2.7 `Desk`: requesters and support after triage

Several tickets, people and teams: this is where locks of different rows meet. A handler is a
person at a screen, a request, a beat of the sweep or a workflow action. It holds what it has
read (`seen`) and what it is about to write (`to`).

| Model | Code |
|---|---|
| `Views`, `Closes` | a screen is opened with the ticket's version, and left |
| `Moves` | a person's move of the ticket, with the version it was shown |
| `Takes`, `Reassigns`, `Assigns` | `take`, `reassign`: the ticket's row, then the team's advisory lock |
| `Reviews`, `Decides`, `Corrects` | `decide` of a review item, whose hand-off is in the same transaction; a corrected category is saved first, which locks the ticket's row before the team's lock |
| `HandoffLocks`, `HandoffPlaces` | `hand_to_team` and `place`: the team's lock, then the ticket's row, with the ticket as it was read |
| `Replies`, `Comments`, `Resumes` | `reply`: the comment in one transaction, `resume` in another |
| `Reopens`, `ReopensNow` | `reopen`, `reopen_now`, followed by the hand-off |
| `Waits`, `Sweeps`, `SweepCloses` | `close_stale` and `close`, with the refusal it remembers |
| `Automates`, `AutomatesTeam` | the actions assign_user and assign_team, the latter with a pick or without, under the team's lock either way |
| `ComesOrGoes` | leave and return |
| `Awaits`, `Deadlocked`, `Aborts`, `BreaksDeadlock` | PostgreSQL aborts one of the transactions that wait for each other, in a cycle of any length: a hand-off is audited as failed, a person is told |

| Property of run `desk` | Says |
|---|---|
| `PeopleActOnWhatTheySaw` | whoever moves, takes or reassigns acts on the status, assignee and team they were shown |
| `PicksKeepTheCap` | a strategy's pick keeps its member within `max_open_per_member`, though two hand-offs run at once |
| `NobodyWaitsInVain` | whoever follows the waits for rows, teams and review items comes to a request that can go on, or to a deadlock: no lock outlives its transaction |
| `ResolutionsStand` | two tabs, or a reopening and a sweep, make one reopening of a resolution (`OneReopeningPerResolution`), and a ticket leaves `resolved` by a reopening, by a person who saw it resolved, or by the resume of a reply to a waiting ticket, and in no other way |
| `EveryRequestEnds` | each request comes to an end, deadlocks included (liveness) |

`PicksKeepTheCap` counts, of a person's open tickets, those that the picking team gave them under
its lock (`placed`): workflow actions assign, and reopenings return, a ticket without it, and so does
another team that shares the person. The code counts a member's tickets over all teams but locks one:
two teams can pick a shared member at once and take them over the cap together, which no document
of the repository excludes.
The last case of `ResolutionsStand` is one a document would hardly want: the sweep or a person resolves
the ticket between a reply's two transactions, and its `resume` moves it on without a reopening.
Two handlers make deadlocks of two; with more, several teams and tickets may be in one, which only
the theorem covers.
`PeopleActOnWhatTheySaw` leaves out what the workflow's own assignments changed since (`told`):
they make no new version. A client of the API may also move a ticket without naming a version
(`request_schema.py:173`, `engine.py:331`): `Moves` is what the console sends, its board and its
ticket page, which always name one.
A corrected category is another team for that hand-off; the ticket's own team-by-category (`Home`) is a
constant, so a later hand-off of the same ticket does not remember the correction.

*Bounds.* Two handlers, two tickets, two teams, a cap of one; three requests, or two with an
absence, a return or a workflow's assignment. Every race here is between two handlers over at
most two tickets; the third request is the one that prepared the situation. *Fairness:* what
was sent is carried out, screens are left in the end, and the database breaks deadlocks.

### Identity: `Organisation`, `MCOrganisation`

The department tree, one team, and who holds which role where. The console, the identity sync
and the access sweep change them in transactions that lock *some* rows: the user's
(`locked_user`) when a grant, a status or a profile changes, the department's when it is edited,
moved or archived. What else they check (the parent of a moved department, the other access
admins, whether a new member is active) they read without a lock, and PostgreSQL's read-committed
snapshots let others commit in between. So a request is two steps: `Ask` reads, checks and
locks; the step named for the operation writes and commits, once the rows it writes, or refers
to by a foreign key, are free. A change of role is three: `Ask` reads the add-ons to keep, as
`set_base_role` does before its transaction; `LockRights` locks the user's row, stops if neither
role nor add-ons differ, and looks for another admin; `Assign` writes, when others may have
committed since. `Abort` is a transaction that fails. One-row operations (sign-in,
`end`, `extend`, `confirm`) are one step, and `Time` lets a grant begin, expire or fall due.

A commit whose facts no longer hold adds the operation and what the facts were about to the
history variable `outdated`. The properties say what holds of everything that was *not* decided on
outdated facts, so they separate what the code guarantees from what it leaves to chance:

| Property | What it shows |
|---|---|
| `GrantsFollowTheStructure` | whoever leads the team or heads a department holds the grant for it, nobody else does, and an archived department's grants have ended |
| `LeaversKeepNothing` | a leaver keeps no team, headship or grant, a new employee no team and no staff grant |
| `DepartmentsFormATree` | the tree has no cycle and a bounded depth, is live up to its root, and active people sit in a live department |
| `AnAdminRemains` | somebody besides the break-glass accounts can grant access, unless a commit took the last whose check was outdated, or who was not looked for |
| `LocksKeepFactsFresh` | no operation that locks the user's row before it reads, and no change of head, ever commits on outdated facts: this is what those locks are for |
| `GrantsEndForAReason` | no grant is deleted, revived, or ended without its date, its review, its person, its structure or a person being the reason, or one of the two races below |

The exceptions named in them are reachable, each in a handful of steps, and several break what
`docs/requirements/phase-2/06-F14-org-access.md` states absolutely:

* BR-F14-08 (line 185), that there is always an active access admin: two managers suspended, made
  to leave or given another role at once are each the other's remaining admin
  (`grants.py:258`, `rights.py:68-69`), and the identity sync does not ask.
* BR-F14-10 (line 187), a tree without cycles and of bounded depth: two moves at once make a cycle
  (`departments.py:99`; `subtree_ids` and `depth` then never end, so that such a department can be
  neither moved nor given a child), or a tree too deep. Everybody's being in a department:
  somebody reactivated, or signing in through Keycloak, returns into one archived since.
* BR-F14-14 (line 191), that a leaver loses every grant and team at once: a leaver gets back an add-on
  (`rights.py:42`), a team or a headship that was being given meanwhile; a grant that starts in
  the future survives its person's leaving and its department's archiving, because `active()`
  does not list it.
* The docstring of `set_base_role` (`rights.py:36-37`), "keeping their add-on grants": one
  granted after the role's change read which to keep is ended, also when the role stays the same.

* BR-F14-11 (line 188), that a department's head has the grant while they are head: a structural
  grant can be given an end date, which leaves a lead or head without rights. Besides, a leaving
  removes whoever became the head of the leaver's department after it listed the leaver's headships.
* BR-F14-13 (line 190), that a mover's grant stays if it is confirmed: the sweep ends one confirmed a
  moment ago (`grants.py:371`).

Each is excused by the record of the commit that did it, or named in the property. The
properties therefore do not catch these races going wrong; they show that everything else holds,
beside them and after them, for whoever no such commit was about.

`Init` takes any scene that is in order (`InOrder`): the rows agree, as they do when operations come
one at a time. `MCOrganisation` begins with one of four scenes (a team lead and head who leaves, moves or changes
role; two shapes of tree; two managers) and lets every choice of three requests about it, four for
those that cross a leaver's, arrive in any order at two handlers: three people, one of them
break-glass, four departments, depth three. Three requests suffice to set up a state and cross two
transactions in it; with four of every kind the same holds. The instance shares the run
`algorithms` with the two pure algorithms: `MCAlgorithms` starts with a question for one of them,
and the organisation idle, or with the organisation.

Left out: permissions and who may ask, several teams, several add-on roles (one stands for the set), custom roles' contents, access reviews, line
managers, sessions, the creation and linking of accounts, the release of a leaver's tickets.

## 3. Findings

Three runs expect a violation; the counterexample is the scenario.

| Run | What the code does |
|---|---|
| `lifecycle_dropped_run` | `finalize` completes a transfer that was retried just before, with the retried run still queued |
| `pipeline_decided_twice` | a redelivery after a crash numbers a new attempt, so a ticket is decided, and its decision carried out, again |
| `pipeline_unblocked` | a degraded run bypasses the hard gates: a ticket with a secret goes to ordinary review without an alert |

Other behaviours were met on the way. They are what the bounds or the wording of a passing
property exclude:

* *A late result* (`lifecycle_engine` has no retries): `runner.finish` asks for a RUNNING row,
  not for its own attempt, so after a timeout, a person's retry and another worker's claim, a
  late worker writes its result over the new attempt, and the attempt's owner is told `OWNED`.
  With `MaxRetries = 1` TLC finds it at once.
* *A redirected move* (`lifecycle_engine` has one transfer): a run claimed before the
  pipeline's `system_move` loads its cancelled transfer after it; a `move_status` action then
  moves the ticket out of the status the pipeline chose.
* *An early answer* (`Answer` needs the run to wait): an n8n callback that arrives before the
  run is stored as waiting is refused, and the run times out.
* *A deleted target* (`lifecycle_chains` states the ticket's place only): a status may be
  deleted under a pending move to it, whose commit then fails each time it is retried.
* *Numbers of attempts* (`Undisturbed`): with one redelivery two deliveries
  may share an attempt's number and the later shows the other's proposal; a stale PII level
  lets a critical ticket wait for its requester; a release runs under another decision's
  shadow mode. The numbering is the cause of all three.
* *A slow sender* and *a change that is being saved*: sections 2.4 and 2.5.
* *A rebuild from an old copy*: `sweep` and `rebuild_sla` rebuild with a ticket they loaded before
  the rebuild's transaction. If a person changed the priority in between, the clocks get the old
  targets, while the ticket keeps the new priority; if the ticket had no priority when it was loaded, `start` saves
  the initial one over the person's (`edited`); if it was linked then and is not now, a confirmed incident
  keeps the clock paused when the requester's wait ends, with nobody to release it (`kept`).
* *A hold for an incident that is over* (`kept`): `attach` asks the incident that `classify`
  found, several calls before, whether it is confirmed. One resolved or dismissed in between leaves the
  clock on hold with nobody left to release it. So may a link that waited for the incident's row while
  a manager confirmed it: the clock then runs (`unheld`).
* *A release that is lost* (`unreleased`): when resolving an incident stops after its status is
  committed (the broadcast masks its note and may fail), nobody releases the clocks it held;
  `docs/requirements/phase-2/06-F7-mass-incident.md:159` (BR-F7-07) says they resume.
* *Unheld clocks* (`unheld`): a clock that starts, reopens or is rebuilt in a confirmed incident
  runs, for starting and reopening do not look at the incident.
* *Old copies* (`late`, `kept`, `copy`): handlers of an incident decide by the ticket they read
  before the lock whether it waits on its requester and what its due time is; attaching an
  escalated ticket always writes with such a copy.
* *A breach that is not marked*: a clock paused or met before the sweep comes is never marked
  breached; a rebuild that raises ends that beat of the sweep.
* *A reply against a resolution*: a reply reads the ticket as unresolved, stores its comment, and
  then resumes it as it is by then. Under the default open policy it takes a ticket resolved
  meanwhile back without a reopening; one read before the wait began does not resume, and the
  sweep may close the wait it answered. Auto-close asks whether the ticket waits, not whether
  it is still the wait that lasted.
* *A hand-off against a person*: `assign_after_handoff` places the ticket it read, over what a
  person did with it meanwhile, and takes its locks in the opposite order of `take`, `reassign` and a
  decision that corrects the category; the database breaks the deadlock.
* *A reopened ticket counts against its own holder's cap* when `inherited` asks whether the
  holder may have it back.
* *Two reviewers* may claim and decide the same item: the second decision is carried out too.

## 4. Proofs

Each proof holds for all values of the constants that satisfy the module's assumptions. TLC
evaluates the assumptions in every run and has checked each inductive invariant on the small
instances first. The type invariants (`TypeOK`) are in no run any more, as their proofs cover every
instance.

**`LifecycleProofs`**

* `TypeCorrect`: `Spec => []TypeOK`. `TypeOK` is not inductive: `ReadRuns(w)` indexes
  `runs` by the task of `w`. `TypeInv` adds `TaskOK(w)` (what a worker's program counter
  says of its task and of the run it claimed) and `DeletionOK`.
* `OneMoveInFlight`: `Spec => []MovesHoldTheTicket`. Its parts (the lock, the place of the
  ticket, triage) are proved together through `Safe`, which adds that every recorded transfer
  is a move between statuses of people (`Sound`): without it a retry could bring a ticket out
  of triage. Each operation that touches transfers has its own lemma (`SafeRecordMove`,
  `SafeClose`, `SafeCommit`, `SafeRetry`, `SafeCancel`), and `SafeStep` goes through the
  actions of `Next`.
* `StatusIsTheSystems`, `RulesHoldOnEveryEntry`, `EveryTicketHasAStatus` and
  `EngineKeepsItsPromise`: `Spec => StatusIsAccountedFor`, `Spec => RulesHoldOnEntry`,
  `Spec => []TicketHasAStatus` and `Spec => MovesAsPromised`, the refinement of `TicketMoves`. None
  needs to know what the workers are doing. `MoveStep` names the eight things a step may do to the
  ticket, its transfers and their runs (`Records`, `Overrides`, `Cancels`, `Transplants`, `RetryFailed`, `Ends`,
  `Enters`, or `Stays`, which writes one run or none, or orphans those of a dead worker); `EveryStepMoves` shows from `TypeInv` and `Safe` that every action of
  `Next` is one of them, and each theorem then has one case for each. For the refinement, the open
  moves before and after are computed case by case (`OneEffect`, `CancelEffect`, `RecordEffect`,
  `SystemEffect`), `Safe` saying that there is one at most.
* `FinishedIsFinal`: `Spec => FinishedStays`. Neither half is inductive: a dead worker's runs lose
  their owner, and a run of a cancelled transfer could still be claimed. `Owned` (only a running
  run has an owner) and `Over` (a cancelled transfer has no queued or running run) exclude both.
  `KeepsRows` is what any step keeps of the rows that are there and of those it records.
* `ChainsEnd`: `Spec => []ChainsAreBounded`. The depth is checked when a handler runs and used when
  the transfer has completed, by a worker that may be another one. `Chains` follows the check
  from the one to the other: what a worker is about to note (`Heeds`), what a run has noted, and
  what a worker has still to move all belong to transfers below the limit, and `KeepsRows` keeps a
  transfer's depth and a run's action.
* `NothingIsDropped` and `WritesItsOwn`: `Spec => [](spent.retries = 0 => CompletedRanEverything)`
  and `Spec => OnlyTheOwnerWrites` (which says the same of its steps), from one invariant,
  `InOrderUntilRetried`. `InOrder` says how far the phases of a move have come wherever its
  next step may come from: a message supposes the phases before its own to be over (`Ready`); so
  does a running run, and an entered transfer; a worker knows which runs of its phase it has yet to
  see the end of (`Left`), what it has passed (`Reached`), and that the run it claimed is its own or
  over (`Owns`). Its steps split in two: `RowsProceed` is what any step but a retry makes of the rows
  (a run that is over stays over, one starts only for a worker that takes it), from the cases of
  `MoveStep`, and keeps whoever does not act as it was (`OthersReady`); each action of a worker
  then has a lemma on its own record (`ReadReady`, `ClaimReady`, `FinishReady`, `AdvanceReady`,
  ...). A person's retry is excluded because it breaks the invariant: it queues failed runs
  again while a worker may still be passing their phase (`lifecycle_dropped_run`) or handling
  them (the late result of section 3).

The rows are handled by a small algebra of lemmas (`RunUpdate`, `TransferUpdate`,
`RowsAppended`, `TasksGrow`), so that each action's proof names the operation on the rows
and the change of the workers, and nothing else.

**`TicketPipelineProofs`**

* `TypeCorrect`: through `TypeInv`, which adds to `TypeOK` what a worker's program counter
  says of the rows it refers to and that the stamps of decisions are in order.
* `EveryTicketFound`: `Spec => []EveryTicketIsInHand`. That a new ticket has its message is
  inductive with `TypeInv`; that every other has a row that leads to it goes through
  `HeldIsRecorded`: a held decision is on record, so that it can be released.
* `DecidedOnceEach`, `HeldIsDecided`, `AutomationAuthorised`: `[]OneDecisionPerRequest`,
  `[]HeldAsDecided` and `[]AutomationIsAuthorised`, from one invariant, `Undisturbed => Orderly`.
  Without a crash a ticket has at most one message or busy worker (`OneAtATime`), so what a worker
  read is still so when it writes (`UpToDate`), the stamps of decisions are in the order of their
  commits (`InOrder`, and with it `LatestIsLast`), there are no more decisions than requests, and
  one fewer while one is at work (`Counted`), and what was done is what was decided last
  (`AsDecided`).
* `OneQuestion`: a ticket is asked once under a cap of at most one question. `OneDelivery` says
  how many deliveries can be about; `Unasked`, that a worker about to ask knows of no question.
* `BranchesEarned`, about `Router`: of a tuple of gates the first that fires decides, and one always fires (the
  last has no condition), so `Route` is total. One lemma for each block of gates (`HardRoute`,
  `AutoReplyRoute`, `RouteRoute`, `ClarifyRoute`, `RunbookRoute`) says what it decides; together
  they are the conditions of `BranchIsEarned`.
* `BetterSignals` compares two tickets through these conditions, without the gates.
  `QuestionsAreCapped` is the part of `BranchesEarned` about questions.
  `EarnedThroughout` and `ImprovementsNeverHurt` are these as properties of `SignalsSpec`, for any
  set of inputs and any cap: each improvement `RouterSignals` can make is no worse
  (`ImprovingIsNoWorse`).

**`OutboxProofs`**

* `TypeCorrect`: `TypeInv` adds that a worker that is about to write has the outcome of a
  send.
* `DuplicatesNeedReasons`: `Spec => OnceForEachReason`, by counting. The copies accepted,
  plus one if the message is queued, plus the workers that may still have it accepted or put it
  back in the queue (`Hands`), are at most `1 + again`. The attempts are bounded in the same
  way, by the workers whose write may raise them (`Tries`). The property alone is not
  inductive: it does not say that a queued message has used every reason but one. The proof
  assumes that the workers are finitely many (`WorkersAssumption`).
* `DeliveredStays`: `Spec => DeliveredIsFinal`, a step property, from `TypeInv`; it is the last part of
  `OnceForEachReason`.

**`RunbooksProofs`**

* `TypeCorrect`: `TypeInv` adds what a worker's program counter says of its record and that
  an execution that does not exist yet has left no trace.
* `EffectsAreSingle`: `Spec => []OneEffect`. An execution has at most one worker, and its
  effect is either still to come or on record (`StagesOK`). The failed executions whose effect
  may come or has come (`Wrong`) are those a person misjudged, and grow by one only there. All
  executions that took effect are among these and the last one.
* `RecordsAreTrue`: `Spec => []TheTrailIsTrue`. A step other than `Execute` changes the state of
  at most one execution that has not failed (`StepCloses`), and `VersionsOK` relates the
  version an execution was checked against to the change that is live and to the one that
  is being saved.

**`BusinessTimeProofs`**, for every calendar whose hours `parse_hours` accepts, days and weeks of any
length and any holidays:

* `ElapsedCounts` and `WholeDaysCount`: `elapsed` is the number of working units between two
  moments, and `whole_days` counts the days that had one and have none left. A sum of overlaps is
  the size of a union of disjoint sets of units (`SumOfSizes`): over the intervals of a day,
  which are in order (`SpansInOrder`, `WorkedOnIs`), and then over the days.
* `ElapsedAdds`: elapsed time is never negative, grows with its end and adds up.
* `AddCounts`: the moment `add` returns has just the asked working time before it and ends a working
  unit; where it gives up, the days it walks have less. `AsFar` is the invariant of its two
  nested loops: the units still to walk and those between the start and the place reached make up
  the amount. It is kept by an interval (`WalkStep`), hence by a day (`WalkedDay`) and by the days
  (`WalkDaysIs`).
* `AddIsTheFirst`: that moment is the first by which the time has passed, which is how `AddTime` of
  `SlaClocks` chooses it.
* `TargetsAreReached`: on a calendar that is worked on some weekday and has finitely many holidays
  (`Supplies`), the working time since a fixed moment is a `Worked` as `SlaClocks` supposes it, with
  `Times = Nat`: it is counted, never shrinks, and reaches any target from any moment
  (`TimeAssumption`, `GoalAssumption`). After the last holiday (`Bounded`) each week has a worked unit
  (`WorksAgain`). So `SlaClocksProofs` holds of these calendars, save that `add` gives up after
  `MaxDays`, where `AddTime` looks on.
* `HoursRead`: hours are accepted exactly when no moment of a day lies in two intervals, none is
  empty and some time is worked. A sorting order exists (`SortedBy` takes each interval's rank),
  and intervals that do not overlap their next overlap no other (`Chained`).

Loops are recursive functions here. That such a function exists is `Recursion`, and what holds
along it is `Climb`, both from the least number that would be a counterexample. `TimeIsCounted` joins
these theorems as `TimeSpec => []BusinessTimeIsCounted`, for any hours, calendars, moments and bound.

**`SlaClocksProofs`**

* `TypeCorrect`, `ElapsedTrue`, `MirrorTrue`, `FiresOnTime`: `[]TypeOK`, `[]ElapsedIsTrue`,
  `[]MirrorFollows` and `FiredOnTime`, for any calendar whose working time grows with the moment
  (`Worked`), any targets and any number of events. `ElapsedIsTrue` is not inductive: a
  rebuild replays a record of any length at moments that are past. `Works(c, d, at)` says
  what every operation on a clock keeps, at the moment `at` it believes it is: its fold is no
  later than `at`, and what fires is due by its business time (`OnTime`). `ReplayedIs` proves
  that a replay of a well-formed record works at each of its moments; the induction over the
  record takes the least prefix at which it fails (`Least`, from the library's well-founded
  minimum; `ReplayedThrough` states it once, for a family of sets), because an induction rule with
  a predicate as its parameter cannot be used. Each action then has a lemma `…Step` that shows
  `Inv'` and `Fires`, its part of `FiredOnTime`.
* `ClocksFollow`: `[]ClocksFollowTheTicket`. `Follows(clocks, class)` says which states the two
  clocks may have in each class of statuses, and `ApplyFollows` that entering a class takes them
  from one to the other. A rebuild forgets the clocks, so they must follow the ticket from its
  record alone: `Recorded` keeps that the record's classes lead to the ticket's own (a `Journey`),
  and `ReplayedTraces` follows it. When the resolution clock waits needs more (`ResolutionWaits`):
  whoever is yet to let it run, be it the incident, its resolver or the closing of the ticket's
  link, and that a manager who links a ticket finds it unlinked (`LinkerKnows`). Each action has a
  lemma `…Tracks`; for a rebuild it holds of every copy of the ticket (`FromCopy`), read whenever.
* `RebuildAgrees`: `[]ReplayAgrees`. A replay folds a clock only at the moments of the record, the
  ticket's own also when the sweep fires or rebuilds, so the two are not equal: they are `Twins`,
  which no later event can tell apart (both show the same time, are due at the same moment, and
  that moment stays where it is until the clock stops: `Steady`). Every operation
  makes twins of twins (`ApplyTwins`, `RespondTwins`, `MarkedTwins`). The invariant `Telling` says
  that before its incident the record leads (`Replays`) to twins of the ticket's clocks;
  `BeforeTheIncident` is the list of the steps that can be taken then, and each has a lemma
  `…Tells`. `ReplayedTwins` shows that a rebuild gives twins of what the record leads to, and
  `RebuildTells` that one from any copy of the ticket does too, unless it undoes a person's priority.

**`DeskProofs`**

* `TypeCorrect`: `TypeInv` adds that whoever is about to place a ticket has a team for it.
* `PeopleSeeWhatTheyDo`: `Spec => PeopleActOnWhatTheySaw`. A write makes a row that follows the
  one before (`Follows`): of the same version only if its status, and what its version tells,
  are the same. So what a screen was shown holds as long as the version it was shown is the
  row's (`ScreensOK`), and between the check of the version and the write, which are two steps
  with a wait for the team's lock between them, the row's lock keeps it so (`LocksOK`).
* `ReopenedOnce`: `Spec => []OneReopeningPerResolution`. The number of reopenings stays below
  that of resolutions while the ticket is resolved (`CountsOK`).
* `PicksFitTheCap`: `Spec => PicksKeepTheCap`. Whoever has chosen holds the team's lock, and the
  one chosen has room (`Capped`); only a hand-off under that lock adds to what a team gave
  (`GivesNone`). The theorem is about one team at a time because the lock is.
* `WaitsEndSomewhere`: `Spec => []NobodyWaitsInVain`. `LocksOwned` says who may hold a lock: a row,
  whoever takes or reassigns its ticket or hands it off with its category corrected; a team, whoever
  is placing a ticket there. So whoever is
  waited for is at work (`AwaitedIsBusy`), and of handlers that wait only for each other a least set
  has nobody at its edge: it is a deadlock (`LeastIsDeadlocked`, by the well-foundedness of
  inclusion; handlers are finitely many, `HandlersAssumption`).
* `ResolutionsAreUndoneKnowingly`: `Spec => ResolutionsStand`: `ReopenedOnce`, and a step property from
  `ScreensOK`.

**`OrganisationProofs`**

* `TypeCorrect`: `TypeInv` adds that the rows a handler listed are its own person's (`Lists`).
* `FactsStayFresh`: `Spec => []LocksKeepFactsFresh`. The property alone is not inductive: that a
  commit matches its facts says nothing of the time before it. `Fresh` says that what a handler
  with a lock has checked stands now (`Stands`; not for a change of role, which reads before it has
  the lock) and that nobody else holds that lock.
  Whatever a step writes, it leaves alone whom others have locked (`LockSpared`): everybody but
  the step's own person is `Spared`, and its own person is locked by nobody else (`CommitSpares`).
  `StandsStays` is then the only place where facts are looked at; each action has a lemma `…Step`
  that says which rows it writes (`Rewritten`).
* `GrantsFollow` and `NothingIsKept`: `[]GrantsFollowTheStructure` and `[]LeaversKeepNothing`, by
  one invariant (`Ordered`), as a leaver loses the seats that their grants lead to. It adds that
  structural grants begin at once (`Structural`), that only a live department has a head, and what
  a handler that is to commit has seen of the rows it will end (`Foreseen`). `StepKeeps` reduces a
  step to the people and departments it writes about; for these, either the facts stood or the
  commit is on record (`CommitMarks`).
* `EverybodyHasAPlace`: `[]PeopleHaveADepartment`, the part of `DepartmentsFormATree` about people.
* `DepartmentsAreATree`: `[]DepartmentsFormATree`, by `Tree`: of each live department, that the
  parent is live and that the line up to the root is short enough, or that a commit on outdated facts
  is on the way. The model's walks go up as many steps as there are departments; `Line` is the least
  set that holds a department and the parent of each member, which no proof need count through,
  and `LineIs` shows that the walk meets just that set (`WalkTurns`: a longer walk has met a
  department twice). `LineKept` and `LineBelow` say whose line a new parent changes, and
  `TreeMoved`, `TreeGrown` and `TreePruned` what a move, a new department and an archived one
  make of the tree, given what the commit checked (`FitsIs`, `HeightIs`).
* `AdminRemains`: `Spec => []AnAdminRemains`, by what every commit that takes access from a
  manager leaves: another admin, if its check is true of the moment it commits, or else its mark
  (`LastAdminMarked`). The check made before, of rows it did not lock, proves nothing.
* `GrantsEndAsTheyShould`: `Spec => GrantsEndForAReason`, a step property: the rows each action
  ends, with their reason; for the sweep and for removal from the team the reason is in `Lists`
  and in `Mismatch`, for a change of role in what it read (`AssignReasoned`).

## 5. What is only model-checked

Liveness under fairness (`EveryMoveEnds`, `EveryTicketIsDecided`, `EveryMessageEnds`,
`EveryRunEnds`, `SweepCatchesUp`, `EveryRequestEnds`), which is out of the provers' reach. Every
other property of a passing run has a theorem.

## 6. What is not modelled

* *Regular expressions, encryption, prompts, retrieval, ranking, budgets*: functions of data,
  which the models take as nondeterministic inputs (a masking level, an analysis, an outage).
* *The database*: transactions are atomic and available. A transaction that fails as a whole
  leaves a state the models reach by a crash at the same point.
* *People's permissions*, except the two that decide a step (the pipeline's override, the
  approver of a runbook).
* *Comments, notices and audit rows* written within a modelled transaction: nothing modelled
  reads them.
* *Of the clocks*: the row-level interleavings within a rebuild (it deletes the clocks and makes them
  anew, without the ticket's row, and is one step here; a move at the same time may find no clocks, or
  be missing from what is replayed), a failure inside `guarded` while an escalated ticket is attached, the truncation of seconds
  to integers, daylight saving.
* *Of the desk*: ratings, the follow-up ticket a reply starts after the reopening window, the
  change of category on a reassignment, inactive teams, claims of a queue, the answers a
  duplicate inherits, and the order of `last_assigned_at` among the
  candidates of a pick (any of them may be picked).
* *Of the organisation*: what `Organisation` leaves out, above.
* *Of the lifecycle*: the runs of `ticket_created` and `field_changed` events, which belong to
  no transfer, and the editing of workflows, forms and templates (one transaction each).
* The parts `PROJECT.json` lists as `not_modelled`, each with its reason.

## 7. What is left

The ticket's path is modelled from the first message to the last effect: `TicketPipeline` and
`Router` (what is decided), `Lifecycle` (what moves it), `SlaClocks` and `BusinessTime` (what
is owed and when), `Desk` (what people do with it), `Outbox` and `Runbooks` (what leaves the
system), and `Organisation` (who may do it). In the order in which they would add most:

1. Event runs in `Lifecycle`, whose lost message nothing finds.
2. The composition of `Desk` with `Lifecycle`: a reply and the resumed ticket, two
   transactions that `Desk` takes in order and `Lifecycle` one by one.
3. `Sessions`: the rotation of refresh tokens, with the window in which an old one is served.
4. Chat conversations, reveal approvals, knowledge-base drafts: each a row with a state.

Proofs: the invariants of what is modelled next. What the modules suppose of each other (that
`SlaClocks` and `Desk` see a ticket move as `Lifecycle` moves it) is stated by no theorem; a
composition would.
