# A TLA+ model of scheck

scheck reads the security posture of a small company: hosts over SSH or
locally, domains and web assets, GitHub organizations, Google Workspace. Every
request to a third party goes through one component, the scope gate, every
command on a host through one runner, and every run keeps a directory that a
later session may resume. This project models the parts of that system whose
correctness depends on what tests hardly reach: concurrent requests, throttles,
retries, crashes between two writes, sessions that follow each other on one
directory, answers that differ from one query to the next, and verdicts given
on part of the evidence.

`PROJECT.json` maps every definition to the source lines it translates and
lists the runs, the hazards, the findings and the theorems.

## The system

| Component | Source (under `src/internal`) | State | Operations | Hard behaviour |
|---|---|---|---|---|
| Throttle | `engagement/gate/throttle.go`, `admit.go` `throttle`, `send.go` `dialer` | limiters (slots, next tick) by asset, provider, address | acquire, release, dial, close | a dial that outlives its request; several limiters held at once; waits that are given up |
| Gate | `engagement/gate/{gate,admit,send,audit,resume,credential}.go` | request ids, stopped providers, pages, redirects, kept answers, principals | `Send`: admission in 13 steps, send, classify, retry | state read before a wait and used after it; retries; a clock that passes a deadline; concurrent callers |
| Audit log | `policy/audit.go`, `gate/audit.go` | lines | record | writes that fail |
| Run directory | `engagement/rundir.go`, `cmd/scheck/run.go` | directory, flock, `run.json` | create, probe, lock, release, atomic write | several invocations; crashes |
| Sessions and resume | `engagement/resume.go`, `stages.go` | manifest, files and their hashes, prior | open, stages, keep, record, close | crashes and failures between two writes; edits by hand; clocks set back |
| Workspace session | `engagement/gate/{workspace,google_credential,mailbox_auth}.go` | token, binding, inventory, mailbox tokens, breaker | bootstrap, bind, exchange, read, drop | expiry during a session; approvals that end; nested sends |
| DNS | `engagement/gate/dns.go` | the chain followed, pointed names, SPF's budget | look up, read records, follow a target | a resolver that answers each query differently; excluded names in a chain |
| Scope decision | `engagement/{scope,locator,resolve}.go` | the resolved engagement, suspended confirmations | subject, path, name, addresses | precedence of excludes; evidence withdrawn between two steps of an admission |
| Exclusion in responses | `engagement/gate/{pipeline,admit}.go` | the set of excluded users | build from a list's pages, filter | pages of several listings interleaved; a page asked for again |
| Discovery, follow-ups | `engagement/{discover,followup}.go` | names, caps, rounds | look up, classify, ask | caps, inventing resolvers, termination |
| Host collection | `engagement/hostasset`, `runner`, `target/{local,ssh}`, `baseline` | session, sheet, audit, budgets | dial, canary, run a check, elevate, record | a timeout racing the command's end; a lost session |
| Collectors | `collector/{github,web,workspace}` | evidence | select, collect, judge | lists cut by a budget or a failure; SPF limits |
| Findings, severity, rules | `finding`, `engagement/{severity,rules}`, `baseline` | store | report, merge, rule out, grade | precedence of rule and model; partial captures |
| Reports | `engagement/report` | none | build | acceptances, absence over part of a listing, the exit code |
| Bounded analysis, agent | `bounded`, `agent`, `llm` | budget, transcript | ask, call, decide | a model's answers out of bounds; several calls in one reply |
| Interview | `engagement/interview*.go`, `cmd/scheck/init.go` | draft, file | ask, apply, take back, write | a refused answer half applied |
| Operator, command line | `operator`, `cmd/scheck` | none that lasts | merge, print | |

Interaction: `cmd/scheck run` creates or locks a run directory (RunLock) and
calls `engagement.Run`, which goes through the stages intake, scope, recon,
plan, check, analyze, report (Resume). Stages hand requests to one gate (Gate),
which asks the scope decision (Scope), looks names up (Dns) and waits for its
throttles (Throttle) before it sends. A Workspace request first goes through
the session of its asset (Workspace), which may send a request of its own for a
token, and its answer is filtered by the excluded users (Exclusion). Scope
discovers names (Discovery), Recon collects hosts (Host), Check selects
repositories (Selection) and asks the follow-ups (FollowUp). Rules judge what
was read (MailAuth, GitHubAccess, WebRules, TenantRules, HostRules), severity
grades it and the report says what became of it (Severity, Report); the two
arms that ask a model (Agent, Bounded) file into a store of findings
(Findings). Production code calls the gate from one goroutine today; its
contract is that it is safe for concurrent use, and the transport's dials
really are concurrent.

What makes each part correct:

- no slot leaked and no wait without an end (Throttle); nothing outside the
  scope or after a stop is sent, everything sent is on record, pages are read
  once, every call ends (Gate);
- one session at a time, and no session or count lost (RunLock); nothing kept
  that is mixed, too old, of other inputs or silently edited (Resume);
- no read of a tenant without a binding of the token it uses, no sign-in as a
  mailbox without a current approval, a budget and a breaker (Workspace);
- no command before the canary, every command accounted for in the host's trace
  and what audit.jsonl has of it in order, a status that tells a whole reading
  from a cut one (Host);
- absence only where it was asked for, an exclude that wins however the place is
  spelled, caps that cost the least important name (Dns, Scope, Exclusion,
  Discovery, Selection, FollowUp); a file that says what was heard of the answers
  accepted (Interview);
- a partial read proves presence and never absence (the rule modules); no
  verdict of a rule lost to a model, no grade lowered by knowing more, no
  absence reported that was not read, no budget passed (Findings, Severity,
  Report, Agent, Bounded).

## Modules

Modules fall into four groups. Each of the first has an instance of its own;
the parts of the others do not share state at run time, or only through
verdicts, so one MC module composes them and a behaviour is of one part.

### The gate and the run

**`Throttle`** (with `MCThrottle`). One action per point at which a goroutine
may lose the processor. A request (`pc`) takes its asset's and its provider's
limiter: `TakeSlot` is the send on `limiter.sem`, `TakeTick` the reservation of
`limiter.next` under the lock, `Wake` the end of `sleepCtx`, `GiveUp` a context
that ended in either wait. Its dial (`dpc`) is the transport's goroutine:
`DialSlot`, `DialTick`, `DialWake` are the per-address limiter, `DialCheck` the
section under `dialer.mu`, `DialNet` the connection. `Close` is `dialer.close`,
`Cleanup` the release of the request's own slots. Time is relative: each
limiter has the distance to its next tick, each sleeper what it has left, and
`Tick` is a unit of time for everyone.

**`Gate`** (with `MCGate`). Each member of `Sends` is a call of `Gate.Send`:
`Call`, `Admit` (steps 1 to 11, in the code's order where two can refuse),
`ResolveFails`/`Resolved` (step 12), `AnswerFromPrior`, `ThrottleFails`, `Send`
(the send line and the request), one action per class of answer (`AnswerOK`,
`AnswerRedirect`, `AnswerGap`, `AnswerExhausted`, `AnswerRetry`, `AnswerCut`),
and the retry loop (`Retry`, `RetriesOut`, `CutRetry`, `CancelRetry`). Pages,
redirects, stops, kept answers and audit lines are shared. Requests are chosen
from small sets, including ones that follow a page or a redirect. Throttle and
Gate are two views of one component: Gate has the wait as a step that ends or
fails, and Throttle shows that it ends and what it costs.

**`RunLock`** (proofs in `RunLockProofs`). Invocations of scheck on one
directory: `Mkdir`, `Probe`, `ProbeClose`, `CreateLock` are `CreateRunDir`;
`Stat`, `LockRunDir`, `LoadPrior` a resume; `OpenManifest`, `Work`,
`KeepRequests`, `Return`, `CloseSession`, `Close` the session. `Crash` may come
anywhere, and any write of `run.json` may fail.

**`Resume`** (with `MCResume`, proofs in `ResumeProofs`). One session at a
time, which is what RunLock shows. `r.write` is two actions, `WriteFile` (the
file, and its hash in memory) and `SaveFile` (`run.json`); a failure or a
`Crash` may come between any two actions. A file's hash is its content. `Edit`
is a file changed or placed by hand between sessions. Documents say who wrote
them (`by`), which the code never reads: the properties do. A Scope document of
no session that a session kept and wrote again is the run's own from then on
(`adopted`, history): `run.json` has its hash, and putting the same document
back by hand is no edit.

**`Workspace`** (with `MCWorkspace`). The gate's session with one Workspace
tenant. `Send` holds `workspaceMu` for a whole call, so there is one call at a
time, in three phases between which time passes: admission, which is
`attachWorkspace` and `workspaceOptionalCredential` (`Attach`, `Expire`,
`Authenticate`, `SurfaceHalts`, `Cached`, `CapReached`, `Ask`, `NotApproved`);
the token exchange it may send (`Authenticated`, `SurfaceToken`,
`SignInRefused`, `SignedIn`); and the answer (`CustomerRead`, `DomainsRead`,
`AliasesRead`, `UnitsRead`, `UsersRead`, `DetailRead`, `MailDisabled`,
`NoAnswer`, `Unauthorized`). A customer id is named by the authentication it
was read with, so that evidence of two tokens can be told apart, which the code
never does. `asked`, `signIns`, `tried` and `ended` are history.

### Hosts

**`Runner`** has the runner's decisions as operators: what the path policy
makes of a path (in the order of its tables), what stands in for a
metadata-only file, what elevation does to a command, and what the end of a
command is recorded as. `Host` and `Bounded` use them.

**`Host`** (with `MCHost`). The collection of one host over a local target, an
SSH session or a jump host: `DialTCP`, `Handshake`, `OpenThroughHop`, the
canary, platform and root probes, then `NextCheck`, `StartCheck`, `EndProbe`,
`EndCheck` for each planned check and `Record` for Recon's outcome. A command
(`cmd`) has a life of its own: `CommandEnds`, `DeadlinePasses`, `LinkDrops` and
`CloseSeen` come in any order, and where the command's end and its deadline are
both ready `TakeTimeout` and the ending actions are both enabled, as `select`
may take either. The run's timeout and the engagement's end may come anywhere.
A line of the audit goes to two places (`Recorded`): `trace`, the copy in memory
that the report carries and that takes every line, and `file`, audit.jsonl,
where each write may fail. The code then tells its verbose log and goes on, and
so does the model (`Filed`); a line torn in the middle counts as lost.

**`HostPromise`** is the abstract specification: what is known of the session,
how many checks are answered, and the one status recorded at the end. `Host`
implements it: `Promise == INSTANCE HostPromise WITH ...` maps the sheet and
the canary's echo to `trust`, results to `answered`, and the outcome and its
reason to `status`.

### What is read

Composed in **`MCReads`**, one part in a behaviour.

- **`Dns`**: `Resolve` admits a lookup, `AskAddress` and `AskCNAME` are its
  queries, with any answer to each; `Extend` follows the chain hop by hop and
  stops at an excluded name. `ReadRecords` and `FollowTarget` read records and
  the names they point at under SPF's budget.
- **`Scope`**: one admission of a web request as the gate asks it:
  `AdmitSubject`, `AdmitPath`, `LookName`, `AdmitAddresses`, with `Suspend` (a
  collector withdraws a confirmation) in between. Locators keep kind, host,
  addresses, scheme, port and path; `Forms` and `Carried` are the IPv4 and IPv6
  forms of one machine.
- **`Exclusion`**: `UsersPage` builds the set of excluded users' keys from the
  pages of several listings in any order, `ReferencesRead` is a read that names
  users and is filtered by the set.
- **`Discovery`**: `ControlInvalid` and `ControlWildcard` find out whether the
  resolver invents answers, `LookUp` takes the next name in `Ordered`.
- **`Selection`**: tiers, then one kind of read after the other over all
  repositories under the budget (`ReadKind`, `CutKind`, `SkipKind`).
- **`FollowUp`**: `StartRound`, `AskPair`, `NotAskedPair`, `FuEnds`.
- **`Interview`**: `AskQuestion` parses, applies and validates an answer and
  takes it back (`TakeBack`) when a block is refused; `CutOff` is the end of
  the input, `WriteFile` the parse of the whole and the write. An answer is
  typed as paragraphs of lines, and `BlocksOf` hears blocks in it as the parser
  does: a line without a field and a field the question does not have are passed
  over, of a field given twice the last line counts (`LastSaid`), and a block is
  refused only for a field it needs or a value that does not parse. Questions
  read a line at a time refuse the line instead.

### What is concluded

Composed in **`MCRules`**: `MailAuth` (SPF tree, DMARC, DKIM), `GitHubAccess`
(owners, members, people who left, roles), `WebRules` (names, takeover, TLS,
pages), `TenantRules` (accounts, administrators, two-step, grants, mailboxes),
`HostRules` (posture predicates, accounts, listeners, firewall, SSH). A world is
chosen in `Init`; one step reads it with some reads lost, cut or redacted; the
rules are operators over the evidence, and the properties compare their
verdicts with those on the whole evidence.

Composed in **`MCVerdicts`**: `Findings` (`Report` and `RuleOut` on the store,
`Merge`, the host grade table), `Severity` (the engagement's table; `GradeAll`
is a further declaration), `Report` (`LoseRead`, `LoseCheck`; acceptances,
assessments, coverage, exit code; as intake requires, an id is either reported
per subject and each of its entries names one, or about the asset as a whole,
with one instance on an asset and entries that name none: `ValidWorld`), `Agent` (`AgentTurn`, `Post`, `Reply`,
`Call`, `EndTurn`, `AgentTimesOut`), `Bounded` (`TakeItem`, `Resolve`, `Ask`,
`BoundedTimesOut`, `BoundedReturns`).

## Runs

| Run | Instance | Shows |
|---|---|---|
| `throttle` | two web requests with two shared addresses, one of which may dial twice; or three requests to one provider, one of an organization with a throttle of its own | `SlotsHold`: the slots taken are exactly those someone will give back (`SlotsAccounted`), and sleepers wake an interval apart whoever gives up (`TicksApart`). `AllSlotsReturn`: everything ends with all slots free although no timeout is assumed |
| `gate_calls` | three concurrent calls, on the pages of one list under rate limits, a retry and the deadline, or to a site with redirects in and out of scope and probes under the window and cancellation | `AuditHolds`: the audit lines of each attempt come in order and match the counters. `PagesHold`: a page is followed once (`PagesFollowOnce`) and free unless someone follows it (`PageReaders`). `SendsAllowed`: what is sent is in scope (`ScopeHolds`), was begun before any stop (`StopHonoured`), and a rate limit stops its provider (`RateLimitStops`). `WindowCutsReads` |
| `gate_resume` | two calls, an answer on record, two accounts, one failing audit write | `ReuseHolds`: reuse is bound to the account (`ReuseSamePrincipal`), `Result.Sent` counts what was sent (`SentAccounts`). `SendReturns` |
| `run_lock` | three invocations, two requests each | `CreatorWaitsForProbe`, `SentOnRecord`, `SessionsOnlyGrow`, `CreatorLocks` |
| `resume` | three sessions that are cut, twice over two engagement files, once with a build without a commit or in a `--host` run; or cut once and edited once; or whole, with up to three edits of Scope's document; or whole, at three times in any order | `HostKeptWhole`, `NothingOldKept`; `ScopeHonest`: without a cut Scope is kept only for its own inputs (`ScopeKeptUncut`), and every edited file the session used is named (`EditsNamed`) |
| `workspace` | two accounts in two domains, two authentications, an approval current for one unit of time | `OneAuthentication`: binding, reads and tokens are of one authentication (`BindingOneToken`, `ReadsBound`, `TokensExtend`). `SignInsHold`: every sign-in is admitted, counted and none comes after the surface stopped (`SignInAdmitted`, `SignInsCounted`, `SurfaceStops`). `ActedAsComplete` |
| `host` | two checks that need elevation, over the three kinds of target, with up to two audit lines that cannot be written | `HostAccounts`: the canary first (`CanaryFirst`), refused only for cause (`RefusedForCause`), each command traced once and in order, and what audit.jsonl has in the trace's order (`CommandsAudited`, `FileOfTrace`). `KeepsPromise`: Host implements HostPromise. `HostReturns` |
| `reads` | the parts of MCReads | `LookupsHold`: absence is said only where the final name was asked for it (`AbsenceAsked`), no excluded name is asked (`ExcludedNeverAsked`), SPF's limit holds over the whole tree (`SpfBudgetHolds`). `ReadsEarned`: a name is read on evidence or on a resolver known not to invent, and the cap costs the least important name (`CapSparesEarlier`). `BudgetHonest`: a cut follows the order (`BudgetFollowsOrder`) and is recorded (`UnreadExplained`). `ExcludeWins`, `EvidenceHeld` (scope), `ExcludedUnseen` (users), `WrittenAsHeard` (interview). `ReadsEnd`: lookups end, and follow-ups end with every pair settled and nothing asked after a stop |
| `rules` | the worlds of MCRules | one property per collector, `MailLossSafe`, `AccessLossSafe`, `WebLossSafe`, `TenantLossSafe`, `HostLossSafe`: a verdict on part of the evidence is never the opposite of the one on the whole |
| `verdicts` | the parts of MCVerdicts | `StoreSound`: findings and ruled-out ids stay apart, a disproof stands and the table stops at high. `ReportHonest`: findings, acceptances, outcomes and the exit code agree (`OutcomesAgree`), and no absence is reported of what is there (`AbsenceEarned`; a `matters_most` "read" only over a whole listing). `FloorKept`, `GradesHold` (critical only where it is earned, more declared never lowers), `BudgetsHold` (with `CompleteIsEarned`: a cut assessment is not called complete), `FiledOnSignal` |
| `resume_scope` | two engagement files, one fault | expected violation of `ScopeKept` |
| `host_audit` | as `host`, local and over SSH, one line that cannot be written | expected violation of `AuditWhole` |

For every property of a passing run there is a mutant of the code it is about
(an operator just before the definition it mutates, marked "Mutant"), under
which TLC finds it violated.

### Bounds

Named in each module's CONSTANTS.

- `throttle`: two requests per limiter and two addresses are the smallest number
  at which hold-and-wait can close a circle; a third request to the provider
  lets a waiter give up between two others.
- `gate_calls`: three calls, since a page has a reader, one that lost the race
  and one that comes later. `Retries` is 1 (3 in the code): a first attempt, a
  middle and a last one do not differ in the loop except by being the last.
  `MaxRedirects` is 1, so that the limit is met. `MaxIds` (4) and `WebIds` (3)
  bound the attempts so that every call has one and one of them has two.
- `resume`: `MaxSessions` is 3, a session that writes, one that is cut, one that
  keeps; two faults when nothing else is odd, one in a `--host` run, with a build
  that names no commit or beside an edit, none beside clocks set back (that
  what is kept is whole and fresh is proved for any number of faults).
  `MaxEdits` is 3 for Scope's document, which is the number at which a document
  placed by hand, kept and written again by a session can be replaced and put
  back; one edit stands for the others elsewhere. One host and one request stand for many, since the code keeps each of
  them by itself. `MaxTime` and `MaxKept` are 2: an age of one is kept and
  written again, an age of two is too old, and a session may start before the
  one it resumes. The other arms have one time, so that age never hides what
  they check.
- `workspace`: the budget is 2 and the breaker 1 and 2, since a mailbox whose
  sign-in failed is not asked again under the same binding and there are two of
  them: the first failure ends the surface, and a success first makes the second
  condition the one that counts. The approval is current at time 1 only, so that
  it is not yet current, current and expired while tokens of any length are
  held; two authentications are the number at which evidence could be mixed.
- `host`: two checks let a timeout, a lost session or the run's end fall
  before, between and in the last of them, and elevation be probed once and
  used again. `MaxLost` bounds the lines audit.jsonl may lose: two, so that the
  two lines of a probe may both be lost, or two lines apart with one between.
- `reads`: a chain of two hops and two further names (`MaxChain` 2, `MaxHops` 2)
  meets the limit with an excluded name in the middle; SPF's limit of 2 (10 in
  the code) is met by three reads. Discovery's caps of 2 and 1 are met by three
  or four names of seven kinds. Selection's budget of 4 runs out among three
  repositories and three kinds. Two leavers, four repositories and a cap of 2
  let a round be cut. Scope has four sets of roots, nine of excludes, four of
  confirmations, and requests over two schemes, four ports and five paths.
  Three accounts, pages of at most four rows and two listings let one listing
  interrupt another. The interviews start from no file, from one that sets areas
  aside, from one with people and tenants, and from one with servers, with
  accepted and refused answers to each question.
- `rules`: SPF trees two includes deep with up to three terms; organizations,
  sites, tenants and machines of two or three subjects, which is what a verdict
  over a population and one subject outside the part that was read need.
  GitHub's listings are lost or cut two at a time, or read before a leaving
  date beside one that is lost.
- `verdicts`: five catalog ids of which one presupposes another; budgets of 2;
  up to two acceptances of which one may cover the other; two checks of a family.

Deadlock checking is off except in `host`: calls, sessions, lookups and
invocations come to an end, and what must not stop early is stated as a
liveness property.

### Fairness

- Throttle: goroutines run and due timers fire. `Expire` is not fair, since a
  run need not set `limits.timeout`. The first dial of a request is fair with
  its other steps; a second dial by the transport is not.
- Gate (`gate_resume`): every step of a call is weakly fair. A wait for the
  throttle ends (Throttle), a request in flight has a total timeout, and `sleep`
  ends.
- RunLock: a process that is not dead takes its next step, and a run's stages
  come to an end. Crashes, new invocations and requests are not fair.
- Host: the code's own steps, its deadlines and the report of a session's end
  after it was closed. A command need never end by itself, the link need not
  drop and the run need not time out.
- Dns and FollowUp (`ReadsEnd`): a query is answered or fails, since it has a
  timeout of its own, and the loop takes its next step.

## Findings

With a run:

- `resume_scope`: Scope's inputs are set in the manifest before Scope runs, and
  are saved when it fails; the document of an earlier session then stands
  beside the inputs of this one, and the next resume keeps it. `ScopeKeptUncut`
  shows that it takes a failure or a crash.
- `host_audit`: when the line of a host command cannot be written to
  audit.jsonl, the runner tells its verbose log and goes on
  (`runner/runner.go:414`; `VerifyCanary` does the same and says so): the host
  is recorded as collected, and the file does not have every command in it, as
  the documents say of it (`docs/spec/runs.md:45`). `HostAccounts` is what
  holds: the trace, which the report carries, has every command, and the file
  has lines of the trace in its order.

From reading the same code, without a run of their own:

- `engagement.yaml` is in place before `run.json` has its hash; a `--host` run
  cut there is refused for good as edited by hand (`resume.go:248`).
- A mailbox sign-in that ended before it was sent with a decision other than a
  refusal (its name did not resolve, the send line could not be written) is
  recorded as acting as the mailbox and counts toward budget and breaker
  (`gate/workspace.go:654`). `ActedAsComplete` shows the other direction.
- A model's report merged into a rule's finding may lower its grade by naming
  the listener it is about (`finding/store.go:306`); `FloorKept` is what holds.
- A socket on `::` is taken to receive IPv4 too unless a `0.0.0.0`
  socket of its port is in the list, also when the list is known to be partial
  (`rules/listeners.go:98`); a database is then found open over a family another
  program has. `HostLossSafe` shows that it takes such a lost twin.
- The run timeout passing during the last planned check leaves the host recorded
  as collected (`baseline/baseline.go:61`).

Not counted as findings, but worth knowing when the code changes:

- admission reads that a provider was stopped (step 11) before it waits for the
  resolver and the throttle, so of two concurrent calls the one that waits is
  still sent. `StopHonoured` is what holds: an attempt that begins after the
  stop sends nothing;
- the `installed` probe that times out is reported as a missing command; after
  a timeout `Exec` waits for the session's end without a bound (`ssh.go:381`),
  which is why `HostReturns` needs `CloseSeen` to be fair;
- a first turn that reports no usage does not make the price of the total
  unknown (`llm.go:121`); a bounded item is counted
  as judged before it is decided (`bounded.go:69`); follow-up reads may pass
  their bound by one listing (`docs/spec/bounded.md:284`);
- when the two address queries of one lookup are answered with different
  chains, the addresses need not belong to the last name of `Chain`, which its
  comment says (`gate/dns.go:87`);
- a former person or an unexpected owner that fires on a cut listing may be left
  open by the whole one, when another listing was read before the leaving date
  (`AccessLossSafe` excepts it: `Stands`);
- the administrators' `dedupeKey` drops a later, unrestricted grant of a role; the
  OAuth rule sets the assessment's own grant aside, which only the whole list
  tells from another (`TenantLossSafe` excepts it);
- of a first-party site that is not declared, a lost redirect hop may change a
  verdict (`WebLossSafe` is of declared sites); one clean front page disproves a
  takeover when the other, which may carry the marker, was lost, as
  `docs/spec/web-collector.md:155` allows (`WebLossSafe` excepts it: `FrontLost`);
- `FieldOutside` looks at the fields it has and not at whether the fact is
  partial (`rule.go:277`); its one rule reads a file's mode, which is one record
  (`OneMode` in HostRules assumes it);
- the rule on declared services leaves a port to the rule on databases once one
  of its owners is a database, so a port it judged on a part may be none of its
  own on the whole (`HostLossSafe` excepts it);
- in the interview, `not_used: hosts` beside an answer that declares a host makes
  the parse at the end refuse and every answer is lost; a `reach` or `deploys`
  block that names an existing asset overwrites it; of two `admins` blocks for
  one tenant the second replaces the first. `WrittenAsHeard` allows that the same
  question, asked once and answered in many blocks, replaces what an earlier
  block said of the same tenant or asset (`Replaces`), and nothing else;
- the interview's parser drops a line without a colon, a field it does not know
  (`use_by` for `used_by`) and all but the last line of a repeated field, and
  tells nobody (`interview.go:1080`): a typo in an optional field is an answer
  that is accepted and not written. `WrittenAsHeard` says what is kept of the
  answers typed, and does not say that all of it is;
- `data.matters_most` may say "read" of an asset although the listing was cut
  and what was left out is there (`AbsenceEarned` is of whole listings for it).
  "Likely fixed" and "subject not found" are earned over any listing, because
  intake refuses an entry that would cover subjects nobody named
  (`validate.go:1084`).

## Proofs

`tlapm` checks all proofs. They assume only what the modules' named ASSUMEs say
of the constants, which TLC evaluates in the runs: sets of processes, addresses,
candidates and repositories are finite, bounds are numbers of the kind the code
gives them (a limiter has at least one slot, a host's plan at least one check),
tables have the values their types have, and `None`, which stands for a nil, is
no record. Where the code's own shape justifies more it is said there: the web
provider's only operation is an unauthenticated get, a control name is neither
under a root nor excluded, a lookup of DNS has at least one hop.

Every safety invariant and every action property that the runs check is proved,
but for those named at the end of this section. None of them is inductive by itself; each
proof states an invariant (`IInv`, or one with the component's name), shows that
`Init` gives it, that every action keeps it, one lemma per action, and that it
implies the property.

**RunLockProofs**, for any set of invocations and any `MaxSent`:
`TypeCorrect`, `CreatorBehindProbe`, `NothingSentIsLost`, `SessionsKept`.
`IInv` adds: the lock is held exactly by the
invocation that is where the code holds it (`LockHeld`); while a creator waits
nobody is past the probe and there is no `run.json` (`CreatorAlone`, from
`NoDir`); who goes for the lock as a resume has seen `run.json` (`SeenRun`); a
session opens on what `run.json` has (`OpensOnRun`); and a session in progress
is the last of `run.json`, not ended, its own copy differing in that entry only
(`OwnsLast`). With the last, every save is an append or a change of the
session's own entry, which is why no session is lost and why a count that was
not saved belongs to a session that is not marked as ended.

**ResumeProofs**, for any number of sessions, faults, edits and configurations:
`KeptHostIsWhole`, `KeptIsFresh`, `ScopeAlwaysHonest`. The first invariant is
about manifests, not files:
in every manifest (on disk, in memory, loaded) a record names an envelope of
its own session and status (`Whole`), because `recordHost` takes the envelope's
hash from the manifest in which the same session has just put it (`Writing`),
and an edited file's hash never gets into a manifest. `keptHost` compares both
files with the manifest and the record's envelope with both, so what it keeps
is whole whatever is on disk. `Dated` says that a Scope document carries the
date of the session that made it through every rewrite. `ScopeAlwaysHonest`
rests on four layers more (`HInv`): the types of all documents (`TypesHold`);
that no manifest has the hash of a document placed by hand unless a session
wrote it again (`Known`), so that an edit never passes for the run's own; that
an edited file which was used is named, or is a request that the next
`keepRequests` will name (`Named`, `Pending`); and, where nothing failed, that
the Scope document stands beside the inputs it was made of except while its
first write is on its way (`Matched`), for which one must know in which stage
each step can be (`Placed`).

**ThrottleProofs**, for any requests, limiters, addresses, concurrency and
pace: `SlotsAlwaysHold`. `SlotsAccounted` counts the slots of each limiter as
the ones owed by a request, a dial or a dialer's release. It is kept by a dial
only because the addresses of the dial under way that the dialer already owes a slot for
have been tried (`HandedOver`), which is what makes a second `release` of one
slot impossible, and because a dialer closes only when its request has ended
(`ClosedAtEnd`): a slot taken after that is given back by the dial itself. What
is owed stays a finite set (`OwedFinite`), and each step moves one element of it.

**GateProofs**, for any operations, subjects, callers, retries and failing
audit writes: `AuditAlwaysHolds`, `PagesAlwaysHold`, `SendsAlwaysAllowed`,
`ReuseAlwaysHolds`, `WindowAlwaysCutsReads`. `IInv` says of each call what its
attempt's id, redirect and page are (`Calls`, `IdsKnown`); which lines an
attempt has while it goes on and when it is over (`InProgressLines`,
`EndedLines`); that past admission the subject is in scope and the attempt began
before the deadline and any stop (`AdmittedHolds`, `BeganHolds`), which is what
`StopHonoured` comes from; that a stored page is the one after the last page
its listing read (`Stored`, `Rooted`, `Unanswered`), and that a page marked as
being read has exactly one attempt that follows it (`Followed`), without which
the page two attempts race for could be followed twice; and that a rate limit
stops its provider at the latest when the retries end (`LimitStops`). The
lemmas are by kind of step: what a step that only moves a call leaves alone
(`Moves...`), what the first step of an attempt makes (`Begins...`), what an
answer does to pages (`Pages...`).

**CollectorProofs**, for any accounts, domains, inventories, budgets and
approval window: `AlwaysOneAuthentication`, `SignInsAlwaysHold`,
`ActedAsAlwaysComplete`. `Sound` says that what the session holds was read with
the token it holds (`SameToken`) and that the breaker's counters cover the
sign-ins that were sent (`Counts`), including that a surface, once ended, is
remembered as such as long as the approval lasts (`Kept`): the approval's end
gives a surface new counters, and it is only because the window cannot open
again that this loses nothing. `InCall` carries the conditions of admission to
the answer, and `Budget` counts a sign-in that is on its way.

It also holds `AccessAlwaysLossSafe`, for any organizations, declared people and
cuts of the listings: what JudgeAccess fires on a part of the listings stands on
the whole ones and what it disproves does not fire there. `FiresAt`,
`DisprovedAt` and `NoneAt` say of the evidence when a rule fires on a subject,
is disproved of one, and is disproved for want of one; every judgment says no
more than that (`SaidSound`, `GapSound`) and all that fires is said
(`FiresSaid`). A cut collection is part of the whole one (`OrgPart`), listing by
listing: its accounts are among the listing's, it is whole only if they are all
there, and a permission is answered only as the whole would be. Then each
predicate passes from the part to the whole: an owner seen is an owner, a count
above the limit stays above it, an account missing from whole listings holds
nothing, and a disabled second factor is believed only of an account the other
listing shows. Two rules wait for leaving dates that every listing they count on
must have been read after (`Timely`): a former person or an unexpected owner
that a part fires on may be left open on whole listings read as early, which
is the one exception. The assumptions (`AccessAssumption`) are that an
organization's setting is a boolean, that its owners and members are finite, and
that `-` and `org` name neither an account nor a repository.

And it holds `WebAlwaysLossSafe`, for any declared site and any losses of its
reads. A page as it was read shows some of the page that is there (`Shows`,
`SeenShows`: a lost page keeps its URL, a cut one loses only what came late, an
inspected connection hides the certificate), and what was read of a site is part
of the site (`PartOfSite`, `EvidencePart`). Each rule then has a lemma on what
such a part does to its verdict (`VersionsPart`, `HstsPart`, `TlsPart` and the
others): the rules of a single page pass page by page, HSTS and the headers by
every entry page being readable, and the two rules whose last settling page
decides by there being at most one that settles. `add` is last: judgments that
differ in id or subject never meet (`SamePart`), a finding is one some rule made
and a disproved rule is one every judgment disproved (`AddSays`), so a part and
the whole oppose each other only where two raw judgments do. The assumption
(`WebAssumption`) types the pages and records, and says that the site's first
page is its https front page, that a restricted URL is requested once, and that
of the pages `security.txt` leads to all but one are redirects, as the collector
reads them.

**HostProofs**, for any plan, kinds of target and elevation:
`HostAlwaysAccounts`, and `HostKeepsPromise`, the refinement: Host implements
HostPromise. `IInv` says where a command may be in flight (`InHand`), that
everything after the canary runs on a session that was proved (`Session`), which
checks have a result when (`Baseline`), what has been decided when (`Ending`),
and that each command sent has its line in the trace once it is over, in order,
whatever writes failed, with audit.jsonl a part of the trace in the same order
(`Ledger`, on lemmas about the two sequences of lines: `Filing`, `FileSteps`). For the refinement each
action of Host is shown to be `Prove`, `Answer` or `Close` of HostPromise or a
stutter under the mapping; `HowMany`, that the checks answered are the ones the
plan has passed, is what relates the count to the sheet.

**ReadsProofs**, for any engagement file, lookups, candidates, repositories
and accounts: `ExcludeAlwaysWins`, `EvidenceAlwaysHeld`, `BudgetAlwaysHonest`,
`ReadsAlwaysEarned`, `LookupsAlwaysHold`, `ExcludedAlwaysUnseen`,
`AlwaysWrittenAsHeard`. Selection
needs that each kind of read goes down the order and stops where the budget ran
out (`FollowsOrder`, and a reason for each place passed); Discovery that each
record is of the candidate at its place and that the counters count the names
sent and trusted (`Earned`); Dns that an excluded name stays outside the chain
followed so far (`Live`) and that the reads of an evaluation are at most the
ones admitted; Exclusion that the copy of a set carried from page to page is
what the rows of its own listing make it (`BuiltFrom`), whatever listings
alternate with it.

The interview's theorem reads a file as the set of facts it says (`Facts`) and a
block as the facts it says of its question (`BlockSays`). One lemma per question,
joined in `BlockSaysSo`: a block that is taken adds its facts, adds nothing else,
and loses only what its question says of the same tenant or asset (`Moves`,
`Lost`); what it loses an accepted block had said is what `Replaces` allows
(`LostIsReplaced`), because a repository picked for its data, the one fact two
questions write, is picked after what is deployed was asked. An answer is a
recursive function over its blocks (`AppliedIs`), so that what one block keeps
(`HeldStep`) a whole answer keeps (`AnswerHolds`), by the least block that would
not. `InterviewIInv` then says that the draft holds what was accepted and no more
(`Held`), which a refused answer, taken back, cannot disturb, and that the disk
has the file found until the interview is over. What was typed is tied to the blocks
by one lemma on the parser (`BlockHears`): a paragraph's block has each of its
lines but those passed over and those given again. `InterviewAssumption` gives the
constants the types of the file and of what is typed; a reply may hold lines of
any field and value, malformed ones included.

**VerdictProofs**, for any catalog, rules, reports, context, subjects, budgets
and replies: `StoreAlwaysSound`, `FloorAlwaysKept`, `ReportAlwaysHonest` (from
`OutcomesAlwaysAgree` and `AbsenceAlwaysEarned`), `BudgetsAlwaysHold`,
`AlwaysFiledOnSignal`, `GradesAlwaysHold`. The store's invariant says that a rule's finding was
matched and a custom one is outside the catalog, so that the premise of a
presupposed rule cannot be one the rules disproved; the agent's, that a model
that is still talked to was stopped by no budget, that what it was handed is
part of what was accounted for, and that the calls answered and the calls left
are the calls of the reply; the bounded arm's, that an item is sent at most
once and was counted before.

A grade is what a chain of moves makes of a base, and `After` is a recursive
function over the chain. That it has a value at each step (`RunExists`,
`AfterIs`), and what it keeps, is shown by the least step at which it would not
(`LeastOf`, from the well-foundedness of the naturals): no move leaves the
scale, passes the ceiling or passes high without being one that may
(`MoveHolds`, `AfterHolds`), and a chain whose moves include another's ends no
lower (`RaiseHolds`, `AfterGrows`). The first gives `ChainEarned`; the second,
with `RowsGrow` (declaring more only adds rows, and each only raises), gives
`ChainGrows`. `SeverityAssumption` types the judgments and the declarations; a
collector's own steps may be any integers and as many as it likes.

It also holds `TenantAlwaysLossSafe`, for any finite set of accounts: what the
tenant rules conclude from a part of a tenant's evidence (`PartOf`) is never the
opposite of what the whole says. The only invariant it needs is that the
evidence held is a `Collect` of the tenant; the rest is one lemma per rule, that
a claim a part supports is one the whole supports about the same account, and
that a rule which disproves it on the part had read all it needs to: which
accounts are administrators is only believed when every source of it was read,
a count of them is a lower bound, and a grant, a mailbox or a unit that is
missing leaves its rule undecided.

And `HostAlwaysLossSafe`, for any hosts, declared services, exposure and
captures that fail, keep the beginning of a text or lose lines of a listing.
What is captured is part of what the host has (`PartOfHost`, `CapturedPart`);
the rest follows each rule over both. The first ufw rule that decides on a
beginning is the first on the whole (`FirstOfBeginning`, `WalkPart`), so a
family found open is never filtered on the whole and one found filtered is
(`OpenPart`); listeners that are seen reach no more than the host's, a lost twin
excepted (`ReachMore`), and a disproval stands only over a listing that was read
whole (`SocketsPart`, `DbJudged`, `ServiceJudged`); an account's line decides
unless it is the last before the cut (`ShellPart`). The assumptions on the
constants (`HostAssumption`) are the types of the facts, that a file's mode is
one value, and that no declared service is on port 0.

For these proofs some definitions have the form of what they compute instead of
how: an order is a set of sorted sequences (`Ordered`, `Select`, `Enumerate`),
a chain of aliases is closed off by where it repeats (`Loops`, `Ends`), a page's
rows are added to a set at once (`AddRows`), a list of at most one account is
read by its one member (`TheOnly`). TLC evaluates the same definitions.

What is not proved, and why:

- liveness (`AllSlotsReturn`, `SendReturns`, `CreatorLocks`, `HostReturns`,
  `ReadsEnd`), which needs fairness and ENABLED;
- `MailLossSafe`: the SPF walk is recursive, and so is everything composed with
  it in MCRules, and the property compares two walks of a tree of records; it
  is checked on the worlds of MCRules.

## Not modelled

- The GitHub mirror and CI reads, operator context, and the evaluation harness.
- Text: YAML and date parsing, redaction patterns, header, cookie and secret
  patterns, wire formats, workflow files and commit history, wording and layout
  of reports, prompts. Their verdicts are inputs where a modelled part asks for
  them. Of the gate's operations, the typed parameters and the projection of a
  body.
- The sections of the engagement file that no interview answer reaches, and
  settings one assignment checks (jump hosts, throttles, dates). Of the
  interview's lines: comments, the date somebody left, mail services and
  selectors, a server's identity, environment and jump host, the audience and
  reason of an exposed URL. A paragraph without any field stands for an answer
  that has none, which is refused, and for one shaped like a credential, which is
  too; between other paragraphs it is a blank line.
- Of an admission (`Admit`): the page is marked as read before the last refusals
  and released by the attempt's cleanup; the model marks it when nothing refused
  it, in the same step.
- Of a command's end (`Classify`): a check's `Extract` that finds nothing
  (`extract_error`), which keeps no output, as a failed parse does.
- Rebuilding a host's fact sheet from its envelope (`RestoreSheet`), which may
  refuse to keep it for reasons of its own and only keeps less; the reuse of DNS
  records on a resume, whose answers are kept again (`gate/dns.go:926`, `1093`)
  and are not requests the model counts.
- Of the Workspace session: assignment reads and their budget, and settings that
  change during a session (which drop every optional token and refuse the call).
- Of the rules: MX and NS service rules, alerts, the selection of mailboxes, and
  the data of the posture rules beyond their predicates. Branches that only make
  a rule abstain more, or that read a field of one record: GitHub's triage
  permission and a role whose text was redacted, members that are Bots or Apps, invitations that cannot be told apart and a leaving
  date that may be before or after a read; root by its uid, or with a
  uid that was not read, `ListenAddress` ports, a socket's protocol and inetd; the narrowing of
  two-step verification for another sign-in provider; a mailbox's `usable` gate.
- The file system is taken to rename atomically, and `flock` to be released when
  a process ends.

## Plan

What a next step would prove is `MailLossSafe`, with the SPF walk written as a
recursive function over the depth of includes, and one lemma per mechanism on
what a lost record leaves undecided.
