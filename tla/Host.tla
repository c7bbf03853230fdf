-------------------------------- MODULE Host --------------------------------
(***************************************************************************)
(* The collection of one host: hostasset.Collect from the first dial to    *)
(* the status reconStage records, over a local target, an SSH session, or  *)
(* an SSH session through a jump host.  A command in flight, its deadline, *)
(* the run timeout, the engagement's context and the peer move             *)
(* independently; Exec's select may take either of two ready channels.     *)
(***************************************************************************)
EXTENDS Runner, Sequences, FiniteSets

CONSTANTS
    Plan,      \* the planned checks, in order: a sequence of check records
    Modes,     \* the targets explored: a subset of {"local", "ssh", "jump"}
    Elevates,  \* the elevations explored: a subset of {"none", "sudo"}
    MaxLost    \* bound: how many lines audit.jsonl may lose

ASSUME HostAssumption ==
    /\ Modes \subseteq {"local", "ssh", "jump"} /\ Elevates \subseteq {"none", "sudo"}
    /\ Len(Plan) \in Nat \ {0} /\ MaxLost \in Nat

VARIABLES
    mode, elevate,  \* the asset's target, and the runner's elevation
    pc,             \* where Collect and reconStage stand
    ended,          \* ctx.Err() of the engagement: "no", "deadline" or "canceled"
    run,            \* the same of the run timeout's context, a child of it
    link,           \* the connection to the host: "none", "up" or "lost"
    open,           \* Target.client is not nil
    verified,       \* Target.verified
    reach,          \* the Reach flags reported
    cmd,            \* the command in flight
    at,             \* the planned check the baseline is at
    result,         \* FactSheet.Results: reason code of each check, "none" before it ran
    sheet,          \* FactSheet.Incomplete and FactSheet.Lost
    err,            \* the error Collect returned, "none" when it returned a collection
    echo,           \* how the canary came back, "none" before it did
    sent,           \* the commands that reached the host, in order
    trace,          \* the host's lines in memory, in order, which the report carries
    file,           \* its lines in audit.jsonl, whose writes may fail
    outcome         \* the status and reason reconStage records

env  == <<ended, run, link>>
vars == <<mode, elevate, pc, ended, run, link, open, verified, reach, cmd, at, result, sheet,
          err, echo, sent, trace, file, outcome>>

N == Len(Plan)
NoReach == [dialled |-> FALSE, connected |-> FALSE, jdialled |-> FALSE, jconnected |-> FALSE]
Idle == [what |-> "none", st |-> "idle", end |-> "good", late |-> FALSE, took |-> "none",
         sudo |-> FALSE, begun |-> FALSE]

TypeOK ==
    /\ pc \in {"start", "dial_hop", "hs_hop", "open", "dial", "hs", "canary", "platform", "root",
               "plan", "elevate", "exec", "returned", "done"}
    /\ ended \in {"no", "deadline", "canceled"} /\ run \in {"no", "deadline", "canceled"}
    /\ link \in {"none", "up", "lost"}
    /\ cmd.end \in Ends /\ cmd.st \in {"idle", "running", "ended"}
    /\ at \in 1..(N + 1)
    /\ result \in [1..N -> Codes \cup {"none"}]

Init ==
    /\ mode \in Modes /\ elevate \in Elevates
    /\ pc = "start" /\ ended = "no" /\ run = "no" /\ link = "none"
    /\ open = FALSE /\ verified = FALSE
    /\ reach = NoReach
    /\ cmd = Idle /\ at = 1
    /\ result = [i \in 1..N |-> "none"]
    /\ sheet = [incomplete |-> FALSE, lost |-> FALSE]
    /\ err = "none" /\ echo = "none" /\ sent = <<>> /\ trace = <<>> /\ file = <<>>
    /\ outcome = [status |-> "none", reason |-> "none"]

(* Collect returns: the deferred Close ends the session. *)
Return(e) ==
    /\ pc' = "returned" /\ err' = e /\ open' = FALSE

-----------------------------------------------------------------------------
(* Reaching the host: Dial, dialTCP, handshake. *)

(* Before Collect: an engagement that is over reads nothing; options       *)
(* Collect or dial refuses (a profile, an elevation, a host with no SSH    *)
(* user, an identity or a known_hosts file it cannot use) are usage errors,*)
(* no home directory to look for known_hosts in is a failure.              *)
Start ==
    /\ pc = "start"
    /\ \/ /\ ended # "no"
          /\ pc' = "done" /\ outcome' = [status |-> "not_collected", reason |-> "limit_reached"]
          /\ UNCHANGED <<err, open, verified>>
       \/ /\ ended = "no" /\ UNCHANGED <<outcome, verified>>
          /\ Return("access") \/ (mode # "local" /\ Return("unreachable"))
       \/ /\ ended = "no"
          /\ pc' = [local |-> "root", ssh |-> "dial", jump |-> "dial_hop"][mode]
          /\ open' = (mode = "local") /\ verified' = (mode = "local")
          /\ UNCHANGED <<err, outcome>>
    /\ UNCHANGED <<mode, echo, elevate, env, reach, cmd, at, result, sheet, sent, trace, file>>

(* dialTCP to the jump host or to the host itself, every address it        *)
(* resolves to held against Allow, then the one dialled: refused or        *)
(* unresolved before anything is sent, or attempted (perhaps after another *)
(* address was refused, whose error is then the one returned), or open.    *)
DialTCP(hop) ==
    /\ pc = IF hop THEN "dial_hop" ELSE "dial"
    /\ \E e \in {"excluded", "unreachable", "none"}, tried \in BOOLEAN :
          /\ e = "none" => tried /\ ended = "no"
          /\ reach' = IF hop THEN [reach EXCEPT !.jdialled = tried, !.jconnected = (e = "none")]
                      ELSE [reach EXCEPT !.dialled = tried, !.connected = (e = "none")]
          /\ IF e = "none" THEN pc' = (IF hop THEN "hs_hop" ELSE "hs") /\ UNCHANGED <<err, open>>
             ELSE Return(e)
    /\ UNCHANGED <<mode, echo, elevate, env, verified, cmd, at, result, sheet, sent, trace, file, outcome>>

(* handshake: a key scheck cannot verify or a failed authentication is     *)
(* access; a reset, an EOF or its deadline is unreachable.                 *)
Handshake(hop) ==
    /\ pc = IF hop THEN "hs_hop" ELSE "hs"
    /\ \E e \in {"access", "unreachable", "none"} :
          IF e # "none" THEN Return(e) /\ UNCHANGED link
          ELSE /\ pc' = IF hop THEN "open" ELSE "canary"
               /\ open' = ~hop /\ link' = (IF hop THEN link ELSE "up") /\ UNCHANGED err
    /\ UNCHANGED <<mode, echo, elevate, ended, run, verified, reach, cmd, at, result, sheet,
                   sent, trace, file, outcome>>

(* The jump host is asked to forward one connection to the host. *)
OpenThroughHop ==
    /\ pc = "open"
    /\ \E ok \in BOOLEAN :
          /\ ok => ended = "no"
          /\ reach' = [reach EXCEPT !.dialled = TRUE, !.connected = ok]
          /\ IF ok THEN pc' = "hs" /\ UNCHANGED <<err, open>> ELSE Return("unreachable")
    /\ UNCHANGED <<mode, echo, elevate, env, verified, cmd, at, result, sheet, sent, trace, file, outcome>>

-----------------------------------------------------------------------------
(* Target.Exec. *)

(* What a command is recorded under: its check id. *)
Id(what) == <<what, IF what = "check" THEN at ELSE 0>>

(* One session per call: a connection already lost opens none, and nothing *)
(* is sent.                                                                *)
Begin(what, sudo) ==
    /\ open /\ (verified \/ what = "canary")
    /\ pc' = "exec"
    /\ IF mode # "local" /\ link = "lost"
       THEN cmd' = [Idle EXCEPT !.what = what, !.st = "ended", !.end = "lost", !.sudo = sudo]
            /\ UNCHANGED sent
       ELSE cmd' = [Idle EXCEPT !.what = what, !.st = "running", !.sudo = sudo, !.begun = TRUE]
            /\ sent' = Append(sent, Id(what))

(* The context the command was started under. *)
Over == CASE cmd.what = "canary"   -> ended
          [] cmd.what = "platform" -> ended
          [] OTHER                 -> run

(* ctx.Done() is ready: the command's own deadline, or its caller's end.   *)
ExpiredWithRun == Over # "no"
Expired == cmd.late \/ Over # "no"

(* select takes ctx.Done(): the session is closed, and Exec still waits    *)
(* for the command to be done with.                                        *)
TakeTimeout ==
    /\ pc = "exec" /\ cmd.took = "none" /\ Expired
    /\ cmd' = [cmd EXCEPT !.took = "timeout"]
    /\ UNCHANGED <<mode, echo, elevate, pc, env, open, verified, reach, at, result, sheet,
                   err, sent, trace, file, outcome>>

(* The end Exec returns.  A local command is ended by its context, which   *)
(* is asked once it has been waited for, unless its binary is not there;   *)
(* an SSH one by whichever channel select took.                            *)
Returns(e) ==
    /\ pc = "exec" /\ cmd.st = "ended"
    /\ \/ cmd.took = "timeout" /\ e = "timeout"
       \/ cmd.took = "none" /\ e = cmd.end /\ (mode = "local" /\ e # "missing" => ~Expired)

(* record: the result is retained under its reference, and its line goes   *)
(* to the trace, which takes every line, and then to audit.jsonl.  A write *)
(* there that fails is told only to the verbose log: the command has run,  *)
(* its reference stays used, and the collection goes on without the line.  *)
Line(what, ran) ==
    LET before == {k \in DOMAIN trace : trace[k].ref[1] = Id(what)}
    IN  [ref |-> Reference(Id(what), Cardinality(before)), ran |-> ran]
Filed(f, line) == {f, Append(f, line)}
Spared == Len(trace') - Len(file') <= MaxLost
Recorded(what, ran) ==
    /\ trace' = Append(trace, Line(what, ran))
    /\ file' \in Filed(file, Line(what, ran)) /\ Spared

-----------------------------------------------------------------------------
(* The session's own commands: VerifyCanary, DetectPlatform, DetectRoot. *)

(* Verify allows exactly this call. *)
StartCanary ==
    /\ pc = "canary" /\ verified' = TRUE /\ Begin("canary", FALSE)
    /\ UNCHANGED <<mode, echo, elevate, env, open, reach, at, result, sheet, err, trace, file, outcome>>

(* The echo must be the canary, byte for byte, with exit 0.  A session     *)
(* lost or timed out, or an engagement that is over, is a transport        *)
(* failure; any other end is a shell that altered the output.              *)
CanaryError(e) == IF e \in {"lost", "timeout"} \/ ended # "no" THEN "transport" ELSE "canary"
CanaryPassesOnExit(e) == e \in Statuses
CanaryPasses(e) == e = "good"
EndCanary ==
    /\ cmd.what = "canary"
    /\ \E e \in Ends :
          /\ Returns(e) /\ echo' = e
          /\ IF CanaryPasses(e) THEN pc' = "platform" /\ UNCHANGED <<verified, open, err>>
             ELSE verified' = FALSE /\ Return(CanaryError(e))
    /\ Recorded("canary", cmd.begun) /\ cmd' = Idle
    /\ UNCHANGED <<mode, elevate, env, reach, at, result, sheet, sent, outcome>>

StartPlatform ==
    /\ pc = "platform" /\ Begin("platform", FALSE)
    /\ UNCHANGED <<mode, echo, elevate, env, open, verified, reach, at, result, sheet, err, trace, file,
                   outcome>>
EndPlatform ==
    /\ cmd.what = "platform"
    /\ \E e \in Ends, known \in BOOLEAN :
          /\ Returns(e)
          /\ IF Classify(e, FALSE, ended) = "ok" /\ known THEN pc' = "root" /\ UNCHANGED <<err, open>>
             ELSE Return("platform")
    /\ Recorded("platform", cmd.begun) /\ cmd' = Idle
    /\ UNCHANGED <<mode, echo, elevate, env, verified, reach, at, result, sheet, sent, outcome>>

(* The run timeout starts here.  sys.uid is read only without sudo; a      *)
(* local platform scheck does not support ends the collection.             *)
StartRoot ==
    /\ pc = "root"
    /\ run' = ended
    /\ \/ mode = "local" /\ Return("platform") /\ UNCHANGED <<cmd, sent>>
       \/ elevate = "none" /\ Begin("uid", FALSE) /\ UNCHANGED <<err, open>>
       \/ elevate = "sudo" /\ pc' = "plan" /\ UNCHANGED <<cmd, sent, err, open>>
    /\ UNCHANGED <<mode, echo, elevate, ended, link, verified, reach, at, result, sheet, trace, file, outcome>>
EndRoot ==
    /\ cmd.what = "uid"
    /\ \E e \in Ends, zero \in BOOLEAN :
          /\ Returns(e)
          /\ elevate' = IF Classify(e, FALSE, run) = "ok" /\ zero THEN "root" ELSE elevate
    /\ Recorded("uid", cmd.begun) /\ cmd' = Idle /\ pc' = "plan"
    /\ UNCHANGED <<mode, echo, env, open, verified, reach, at, result, sheet, err, sent, outcome>>

-----------------------------------------------------------------------------
(* The baseline: baseline.Run over runCheck. *)

(* The loop's head: a context that is over ends it, incomplete. *)
CutShortSilently == FALSE
CutShort == at <= N
NextCheck ==
    /\ pc = "plan"
    /\ IF at <= N /\ run = "no" THEN pc' = "elevate" /\ UNCHANGED <<sheet, err, open>>
       ELSE /\ sheet' = [sheet EXCEPT !.incomplete = @ \/ CutShort]
            /\ Return("none")
    /\ UNCHANGED <<mode, echo, elevate, env, verified, reach, cmd, at, result, sent, trace, file, outcome>>

(* A check's result: the sheet takes it, and a lost session stops the plan.*)
Take(code, lost) ==
    /\ result' = [result EXCEPT ![at] = code]
    /\ sheet' = [incomplete |-> lost, lost |-> lost]
    /\ IF lost THEN Return("none") /\ UNCHANGED at ELSE pc' = "plan" /\ at' = at + 1 /\ UNCHANGED <<err, open>>

(* Elevation decides what runs first: the check, or under sudo the probe   *)
(* for its binary, which a path-qualified one skips.                       *)
StartCheck ==
    /\ pc = "elevate"
    /\ LET how == Elevation(Plan[at], elevate) IN
       \/ /\ how = "refused" /\ Take("requires_elevation", FALSE)
          /\ Recorded("check", FALSE) /\ UNCHANGED <<cmd, sent>>
       \/ /\ how = "probe" /\ \E qualified \in BOOLEAN :
                Begin(IF qualified THEN "check" ELSE "which", qualified)
          /\ UNCHANGED <<result, sheet, err, open, at, trace, file>>
       \/ /\ how = "plain" /\ Begin("check", FALSE)
          /\ UNCHANGED <<result, sheet, err, open, at, trace, file>>
    /\ UNCHANGED <<mode, echo, elevate, env, verified, reach, outcome>>

(* The probe is recorded; the check runs under sudo, or its own result is. *)
ProbeLines == <<Line("which", cmd.begun), Line("check", FALSE)>>
EndProbe ==
    /\ cmd.what = "which"
    /\ \E e \in Ends :
          /\ Returns(e)
          /\ IF Installed(e)
             THEN /\ Recorded("which", cmd.begun) /\ Begin("check", TRUE)
                  /\ UNCHANGED <<result, sheet, err, open, at>>
             ELSE /\ trace' = trace \o ProbeLines
                  /\ \E f \in Filed(file, ProbeLines[1]) : file' \in Filed(f, ProbeLines[2])
                  /\ Spared
                  /\ Take(ProbeCode(e), e = "lost") /\ cmd' = Idle /\ UNCHANGED sent
    /\ UNCHANGED <<mode, echo, elevate, env, verified, reach, outcome>>

EndCheck ==
    /\ cmd.what = "check"
    /\ \E e \in Ends :
          /\ Returns(e) /\ Take(Classify(e, cmd.sudo, run), e = "lost")
    /\ Recorded("check", cmd.begun) /\ cmd' = Idle
    /\ UNCHANGED <<mode, echo, elevate, env, verified, reach, sent, outcome>>

-----------------------------------------------------------------------------
(* reconStage: what Collect's return is recorded as. *)

Usage(e) == e \in {"access", "excluded", "canary"}
Outcome(e) ==
    IF e = "none"
    THEN CASE sheet.lost                       -> [status |-> "incomplete", reason |-> "failed"]
           [] sheet.incomplete /\ ~sheet.lost  -> [status |-> "incomplete", reason |-> "limit_reached"]
           [] OTHER                            -> [status |-> "collected", reason |-> "none"]
    ELSE CASE ended # "no"                     -> [status |-> "not_collected", reason |-> "limit_reached"]
           [] ended = "no" /\ Usage(e)         -> [status |-> "refused", reason |-> "refused"]
           [] OTHER                            -> [status |-> "failed", reason |-> "failed"]
Record ==
    /\ pc = "returned" /\ pc' = "done" /\ outcome' = Outcome(err)
    /\ UNCHANGED <<mode, echo, elevate, env, open, verified, reach, cmd, at, result, sheet, err, sent, trace, file>>

-----------------------------------------------------------------------------
(* What the code does not decide. *)

rest == <<mode, elevate, pc, open, verified, reach, at, result, sheet, err, echo, sent, trace, file, outcome>>

(* The command ends on the host with an exit status, or, locally, cannot   *)
(* be started.  The canary knows no missing binary or sudo apart from a    *)
(* wrong echo.                                                             *)
CommandEnds ==
    /\ cmd.st = "running" /\ link # "lost"
    /\ \E e \in Statuses \cup (IF mode = "local" THEN {"failed"} ELSE {}) :
          /\ e = "sudo" => cmd.sudo
          /\ cmd' = [cmd EXCEPT !.st = "ended", !.end = e]
    /\ UNCHANGED <<rest, env>>

(* The end of a session that Exec closed is seen: the peer answered. *)
CloseSeen ==
    /\ cmd.st = "running" /\ cmd.took = "timeout"
    /\ cmd' = [cmd EXCEPT !.st = "ended"]
    /\ UNCHANGED <<rest, env>>

(* The connection is lost, and with it the command in flight. *)
LinkDrops ==
    /\ link = "up" /\ link' = "lost"
    /\ cmd' = IF cmd.st = "running" THEN [cmd EXCEPT !.st = "ended", !.end = "lost"] ELSE cmd
    /\ UNCHANGED <<rest, ended, run>>

(* The command's own deadline passes. *)
DeadlinePasses ==
    /\ cmd.st = "running" /\ ~cmd.late /\ cmd' = [cmd EXCEPT !.late = TRUE]
    /\ UNCHANGED <<rest, env>>

(* The run timeout passes. *)
RunTimesOut ==
    /\ pc \in {"plan", "elevate", "exec"} /\ cmd.what \notin {"canary", "platform"} /\ run = "no"
    /\ run' = "deadline" /\ UNCHANGED <<rest, cmd, ended, link>>

(* limits.timeout passes, or the operator cancels the engagement. *)
EngagementEnds ==
    /\ pc # "done" /\ ended = "no" /\ ended' \in {"deadline", "canceled"}
    /\ run' = IF run = "no" THEN ended' ELSE run
    /\ UNCHANGED <<rest, cmd, link>>

Step == \/ Start \/ (\E hop \in BOOLEAN : DialTCP(hop) \/ Handshake(hop)) \/ OpenThroughHop
        \/ TakeTimeout \/ StartCanary \/ EndCanary \/ StartPlatform \/ EndPlatform
        \/ StartRoot \/ EndRoot \/ NextCheck \/ StartCheck \/ EndProbe \/ EndCheck \/ Record
Environment == CommandEnds \/ CloseSeen \/ LinkDrops \/ DeadlinePasses \/ RunTimesOut \/ EngagementEnds
Finished == pc = "done" /\ UNCHANGED vars
Next == Step \/ Environment \/ Finished

(* The code's own steps are taken, its timers fire, and the end of a closed*)
(* session is reported; a command need never end by itself.                *)
Spec == Init /\ [][Next]_vars /\ WF_vars(Step) /\ WF_vars(DeadlinePasses) /\ WF_vars(CloseSeen)

-----------------------------------------------------------------------------
(* The first command on a session is the canary, nothing is sent after one *)
(* that did not come back whole, and nothing is sent before the connection *)
(* Reach reports (Verify, VerifyCanary, Collect).                          *)
CanaryFirst ==
    mode # "local" =>
        /\ sent # <<>> => sent[1][1] = "canary" /\ reach.connected
        /\ Len(sent) > 1 => verified /\ echo = "good"

(* An asset is recorded as refused, which the run exits 3 for, only for    *)
(* what the operator's configuration, the scope or the host decided: never *)
(* for a connection lost, a command cut by a deadline or an engagement     *)
(* that ended first (reconStage, Collect's canary branch).                 *)
RefusedForCause ==
    outcome.status = "refused" =>
        /\ err \in {"access", "excluded", "canary"} /\ ended = "no"
        /\ err = "canary" => echo \in Statuses \ {"good"}
        /\ err # "canary" => sent = <<>>

(* The collection keeps what HostPromise promises: a host is recorded as   *)
(* collected only when every planned check was answered on a proved session*)
(* that was never found lost; a plan cut short and a lost session are told *)
(* apart, whatever else ended meanwhile (baseline.Run, reconStage).        *)
Trust == IF sheet.lost THEN "lost"
         ELSE IF mode = "local" \/ echo = "good" THEN "proved"
         ELSE IF echo \in {"none", "lost", "timeout"} THEN "none" ELSE "altered"
Answered == Cardinality({i \in 1..N : result[i] # "none"})
Told == CASE outcome.status = "none"          -> "open"
          [] outcome.status = "not_collected" -> "unread"
          [] outcome.status = "incomplete"    -> IF outcome.reason = "failed"
                                                 THEN "incomplete_failed" ELSE "incomplete_limit"
          [] OTHER                            -> outcome.status
Promise == INSTANCE HostPromise WITH
    Planned <- N, trust <- Trust, answered <- Answered, status <- Told
KeepsPromise == Promise!Spec

(* Every command that reached the host has its line in the trace once it   *)
(* is over, in the order they were sent, and no two lines share a          *)
(* reference, also when the write of one to audit.jsonl failed; and what   *)
(* audit.jsonl holds are lines of the trace, in its order and none twice   *)
(* (record, retain, VerifyCanary).                                         *)
InFlight == IF cmd.st # "idle" /\ cmd.begun THEN 1 ELSE 0
Ran == {k \in DOMAIN trace : trace[k].ran}
FileOfTrace ==
    /\ \A i \in DOMAIN file : \E k \in DOMAIN trace : trace[k] = file[i]
    /\ \A i, j \in DOMAIN file, k, l \in DOMAIN trace :
          i < j /\ trace[k] = file[i] /\ trace[l] = file[j] => k < l
CommandsAudited ==
    /\ Cardinality(Ran) + InFlight = Len(sent)
    /\ \A k \in Ran : trace[k].ref[1] = sent[Cardinality({j \in Ran : j <= k})]
    /\ \A j, k \in DOMAIN trace : trace[j].ref = trace[k].ref => j = k
    /\ FileOfTrace

(* What the documents say of audit.jsonl, "every request, command and API  *)
(* call, in order" (docs/spec/runs.md): of a host that was collected, the  *)
(* line of every command sent to it.  It does not hold: record and         *)
(* VerifyCanary go on when the write of a line fails.                      *)
AuditWhole ==
    outcome.status = "collected" => \A k \in Ran : \E i \in DOMAIN file : file[i] = trace[k]

(* What is sent to a host is earned by its canary, answered for in the     *)
(* trace, and refused only for cause.                                      *)
HostAccounts == TypeOK /\ CanaryFirst /\ RefusedForCause /\ CommandsAudited

(* The collection of a host comes to an end, whatever its commands do:     *)
(* every command has a deadline (runCheck, Collect's canary).              *)
HostReturns == <>(pc = "done")
=============================================================================
