-------------------------------- MODULE Gate --------------------------------
(***************************************************************************)
(* The scope gate (internal/engagement/gate): the life of the requests     *)
(* that collectors hand to Gate.Send, which "is safe for concurrent use".  *)
(* Each member of Sends is one call of Send. A call makes up to            *)
(* 1 + Retries attempts, each with a request id of its own and each        *)
(* admitted again from the first check (admit.go, attempt): bind, scope,   *)
(* level, window and credential; time and provider; addresses; the earlier *)
(* run's answer; the throttle; the send line of the audit log; the answer. *)
(* A step that reads shared state after a wait is an action of its own.    *)
(*                                                                         *)
(* Abstracted: a request is its op, asset, subject (the bound URL or name) *)
(* and the requests it follows; a response is the class classify and the   *)
(* pipeline put it in; times are the facts the gate asks of them (the      *)
(* deadline has passed, the window is over, the wait is longer than the    *)
(* gate honours). Throttle.tla has the limiters. Google Workspace ops have *)
(* a session of their own and are not modelled here.                       *)
(***************************************************************************)
EXTENDS Integers, FiniteSets

CONSTANTS
    Sends,        \* calls of Gate.Send
    Op,           \* the registry: op -> [provider, class, auth, level]
    Assets, Subjects,
    Place,        \* [Subjects -> "in" | "out_of_scope" | "excluded" | "entry_point"]
    Under,        \* [Subjects -> SUBSET Assets]: the assets a subject falls under
    Accounts,     \* who the credential may be
    Prior,        \* identities with a success on record (a resume)
    Ceiling,      \* the level this build admits: "observe"; "probe" in the gate's tests
    Floor,        \* the providers whose rate limit has a floor (GitHub)
    Retries,      \* bound: len(retryDelays), 3 in the code
    MaxRedirects, \* bound: maxRedirects, 3 in the code
    MaxIds,       \* bound: request ids handed out
    MaxFaults,    \* bound: audit writes that fail
    Clock,        \* which of "deadline", "window" and "cancel" may happen
    None

Ids       == 1 .. MaxIds
Providers == {Op[o].provider : o \in DOMAIN Op}
Events    == {"refused", "reused", "send", "result"}

\* A collector's request. nextOf and redirectOf name any id handed out, 0 none.
Requests == [op : DOMAIN Op, asset : Assets, subject : Subjects,
             nextOf : 0 .. MaxIds, redirectOf : 0 .. MaxIds]

\* What the gate keeps of a list page that has another after it (page), and
\* of a 3xx it received (redirect).
PageRecords == [op : DOMAIN Op, asset : Assets, subject : Subjects,
                reading : BOOLEAN, n : Nat, root : Ids]
HopRecords  == [asset : Assets, target : Subjects, depth : 0 .. MaxRedirects]

\* What the history keeps of an attempt and of the page it read.
BeganRecords == [by : Sends, late : BOOLEAN, stopped : BOOLEAN, hops : Nat]
ReadRecords  == [root : Ids, n : Nat, more : BOOLEAN]

\* A web op carries no credential and sends no query, so it has no cursor
\* either: it is no list with pages (op.go, checkDestination, validateBody).
ASSUME ConstantsAssumption ==
    /\ \A o \in DOMAIN Op :
        /\ Op[o].class \in {"get", "list", "principal"}
        /\ Op[o].auth \in BOOLEAN
        /\ Op[o].level \in {"observe", "probe"}
        /\ Op[o].provider = "web" => Op[o].class = "get" /\ ~Op[o].auth
    /\ Place \in [Subjects -> {"in", "out_of_scope", "excluded", "entry_point"}]
    /\ Under \in [Subjects -> SUBSET Assets]
    /\ Retries \in Nat /\ MaxRedirects \in Nat /\ MaxIds \in Nat /\ MaxFaults \in Nat

\* None is what a nil stands for: no record is one.
ASSUME NoneAssumption ==
    /\ None \notin Requests /\ None \notin PageRecords /\ None \notin HopRecords
    /\ None \notin BeganRecords /\ None \notin ReadRecords
    /\ None \notin Prior /\ None \notin {"evidence", "transient", "rate_limit"}

VARIABLES
    \* the gate
    seq,        \* Gate.seq
    lines,      \* the audit lines written for each request id
    stopped,    \* providers the gate stopped sending to
    pages,      \* request id -> the list page after it, None when there is none
    redirects,  \* request id -> the 3xx it received, None when there is none
    kept,       \* Gate.kept: identities a later resume may reuse
    principal,  \* Gate.principals: who the credential was resolved to, or None
    \* each call of Send
    pc, req,
    cur,        \* the id of its attempt
    n,          \* Entry.Attempt
    prev,       \* pending.prev: the list page the attempt follows
    depth,      \* pending.hopDepth
    who,        \* the credential's principal as step 10 copied it
    rt,         \* the attempt's retry, None when it may not be retried
    res,        \* the Result so far: [decision, reason, id]
    sent,       \* Result.Sent
    \* the environment
    deadline,   \* limits.timeout has passed
    over,       \* the authorization window has ended
    canceled,   \* the run's context is cancelled
    account,    \* who the credential in the environment really is
    faults,     \* audit writes that failed
    \* history, for the properties only
    began,      \* request id -> how its attempt began
    read        \* request id -> the list page it kept: [root, n, more]

gateVars == <<seq, lines, stopped, pages, redirects, kept, principal>>
sendVars == <<pc, req, cur, n, prev, depth, who, rt, res, sent>>
envVars  == <<deadline, over, canceled, account, faults>>
vars     == <<gateVars, sendVars, envVars, began, read>>

op(s)   == Op[req[s].op]
prov(s) == op(s).provider
web(s)  == prov(s) = "web"
probe(s) == op(s).level = "probe"

Init ==
    /\ seq = 0
    /\ lines = [i \in Ids |-> {}]
    /\ stopped = {}
    /\ pages = [i \in Ids |-> None]
    /\ redirects = [i \in Ids |-> None]
    /\ kept = {}
    /\ principal = None
    /\ pc = [s \in Sends |-> "idle"]
    /\ req = [s \in Sends |-> None]
    /\ cur = [s \in Sends |-> 0]
    /\ n = [s \in Sends |-> 0]
    /\ prev = [s \in Sends |-> None]
    /\ depth = [s \in Sends |-> 0]
    /\ who = [s \in Sends |-> None]
    /\ rt = [s \in Sends |-> None]
    /\ res = [s \in Sends |-> None]
    /\ sent = [s \in Sends |-> FALSE]
    /\ deadline = FALSE
    /\ over = FALSE
    /\ canceled = FALSE
    /\ account \in Accounts
    /\ faults = 0
    /\ began = [i \in Ids |-> None]
    /\ read = [i \in Ids |-> None]

-----------------------------------------------------------------------------
(* The audit log and how a request ends.                                   *)

\* record: the write succeeds, or, at most MaxFaults times, fails.
WriteOutcomes == IF faults < MaxFaults THEN BOOLEAN ELSE {TRUE}
Record(i, event, ok) ==
    /\ lines' = IF ok THEN [lines EXCEPT ![i] = @ \cup {event}] ELSE lines
    /\ faults' = IF ok THEN faults ELSE faults + 1

\* reasonOf: the coverage reason of a decision that read nothing.
ReasonOf(decision) ==
    CASE decision = "refused:excluded" -> "excluded_by_operator"
      [] decision = "refused:no_credentials" -> "no_credentials"
      [] decision \in {"refused:deadline", "refused:rate_limit", "refused:canceled",
                       "refused:window", "unavailable:deadline",
                       "unavailable:window_ended", "unavailable:canceled"} -> "limit_reached"
      [] decision \in {"refused:bind", "refused:redirect", "refused:redirect_depth",
                       "refused:out_of_scope", "refused:entry_point", "refused:level"}
            -> "unavailable:refused_by_gate"
      [] decision \in {"sent", "reused"} -> ""
      [] OTHER -> decision

Ended(decision, i) == [decision |-> decision, reason |-> ReasonOf(decision), id |-> i]

\* The page an attempt follows is no longer being read.
Unread(i, ps) ==
    [j \in Ids |-> IF j = i /\ ps[j] # None THEN [ps[j] EXCEPT !.reading = FALSE] ELSE ps[j]]

ForgetPending(s) ==
    /\ prev' = [prev EXCEPT ![s] = None]
    /\ depth' = [depth EXCEPT ![s] = 0]
    /\ who' = [who EXCEPT ![s] = None]

\* Gate.Send returns r; what the attempt held in its pending is gone.
Return(s, r) ==
    /\ res' = [res EXCEPT ![s] = r]
    /\ pc' = [pc EXCEPT ![s] = "done"]
    /\ rt' = [rt EXCEPT ![s] = None]
    /\ ForgetPending(s)

\* halted: a genuine hop off scope is a coverage gap, not a defect. The one
\* line of the request is written (a failed write is not the gate's to
\* report).
Halted(s, rule) ==
    LET decision == IF req[s].redirectOf # 0 /\ rule = "refused:out_of_scope"
                    THEN "unavailable:redirect_out_of_scope"
                    ELSE IF req[s].redirectOf # 0 /\ rule = "refused:entry_point"
                    THEN "unavailable:redirect_not_entry_point"
                    ELSE rule
    IN /\ Return(s, Ended(decision, cur[s]))
       /\ \E ok \in WriteOutcomes : Record(cur[s], "refused", ok)

-----------------------------------------------------------------------------
(* Send and its attempts.                                                  *)

\* nextID, and the attempt begins at the first check.
Begin(s, k) ==
    /\ seq < MaxIds
    /\ seq' = seq + 1
    /\ cur' = [cur EXCEPT ![s] = seq + 1]
    /\ n' = [n EXCEPT ![s] = k]
    /\ rt' = [rt EXCEPT ![s] = None]

Began(s, q, k) ==
    began' = [began EXCEPT ![seq + 1] =
        [by |-> s, late |-> deadline, stopped |-> Op[q.op].provider \in stopped,
         hops |-> IF q.redirectOf = 0 THEN 0 ELSE began[q.redirectOf].hops + 1]]

\* A collector calls Send; it can name only ids the gate has handed out.
Call(s) ==
    /\ pc[s] = "idle" /\ seq < MaxIds
    /\ \E q \in [op : DOMAIN Op, asset : Assets, subject : Subjects, nextOf : 0 .. seq, redirectOf : 0 .. seq] :
        /\ q.nextOf # 0 => Op[q.op].class = "list"
        /\ q.redirectOf # 0 => Op[q.op].provider = "web"
        /\ Op[q.op].provider # "web" => Place[q.subject] # "entry_point"
        /\ req' = [req EXCEPT ![s] = q]
        /\ pc' = [pc EXCEPT ![s] = "admit"]
        /\ Begin(s, 1)
        /\ Began(s, q, 1)
        /\ UNCHANGED <<lines, stopped, pages, redirects, kept, principal, prev, depth, who, res, sent, envVars, read>>

\* bindParams: the page before is this op's and asset's, and no one reads on.
Mine(s) ==
    LET p == pages[req[s].nextOf] IN
    p # None /\ p.op = req[s].op /\ p.asset = req[s].asset /\ p.subject = req[s].subject
\* Mutant: two requests may follow one page.
NeverBusy(s) == FALSE
Busy(s) == pages[req[s].nextOf].reading

\* followHop: the hop goes where a 3xx this gate received pointed.
Hop(s) == redirects[req[s].redirectOf]
HopGenuine(s) == Hop(s) # None /\ Hop(s).asset = req[s].asset /\ Hop(s).target = req[s].subject

\* Steps 1 to 11, none of which waits: the first check that fails, "" when
\* none does. Step 11 is the last to ask whether the provider was stopped.
AdmitHalt(s) ==
    CASE req[s].nextOf # 0 /\ ~Mine(s) -> "refused:bind"
      [] req[s].nextOf # 0 /\ Busy(s) -> "refused:bind"
      [] req[s].redirectOf # 0 /\ ~HopGenuine(s) -> "refused:redirect"
      [] req[s].redirectOf # 0 /\ Hop(s).depth + 1 > MaxRedirects -> "refused:redirect_depth"
      [] req[s].asset \notin Under[req[s].subject] -> "refused:out_of_scope"
      [] Place[req[s].subject] = "out_of_scope" -> "refused:out_of_scope"
      [] Place[req[s].subject] = "excluded" -> "refused:excluded"
      [] probe(s) /\ Ceiling # "probe" -> "refused:level"
      [] web(s) /\ Place[req[s].subject] = "entry_point" -> "refused:entry_point"
      [] probe(s) /\ over -> "refused:window"
      [] op(s).auth /\ account = None -> "refused:no_credentials"
      [] deadline -> "refused:deadline"
      [] prov(s) \in stopped -> "refused:rate_limit"
      [] OTHER -> ""

Admit(s) ==
    /\ pc[s] = "admit"
    /\ IF AdmitHalt(s) # ""
       THEN /\ Halted(s, AdmitHalt(s))
            /\ UNCHANGED <<pages, principal>>
       ELSE /\ pc' = [pc EXCEPT ![s] = "resolve"]
            /\ pages' = IF req[s].nextOf = 0 THEN pages
                        ELSE [pages EXCEPT ![req[s].nextOf].reading = TRUE]
            /\ prev' = [prev EXCEPT ![s] = IF req[s].nextOf = 0 THEN None ELSE pages[req[s].nextOf]]
            /\ depth' = [depth EXCEPT ![s] =
                    IF req[s].redirectOf = 0 THEN 0 ELSE Hop(s).depth + 1]
            \* attachCredential: a principal op forgets who the credential was.
            /\ principal' = IF op(s).class = "principal" THEN None ELSE principal
            /\ who' = [who EXCEPT ![s] = IF op(s).auth THEN principal' ELSE None]
            /\ UNCHANGED <<lines, faults, res, rt>>
    /\ UNCHANGED <<seq, stopped, redirects, kept, req, cur, n, sent,
                   deadline, over, canceled, account, began, read>>

\* Step 12: the name is resolved now, and every address passes.
ResolveHalts == {"refused:excluded", "unavailable:address"}

ResolveFails(s) ==
    /\ pc[s] = "resolve"
    /\ \E rule \in ResolveHalts : Halted(s, rule)
    /\ pages' = Unread(req[s].nextOf, pages)
    /\ UNCHANGED <<seq, stopped, redirects, kept, principal, req, cur, n, sent,
                   deadline, over, canceled, account, began, read>>

\* Mutant: who the credential is is no part of the identity.
IdentityAnyone(s) ==
    IF op(s).class # "get" THEN None
    ELSE <<req[s].op, req[s].subject, CHOOSE a \in Accounts : \E k \in Prior : k[3] = a>>

\* identity: what a resume finds a success under, None when it is never reused.
Identity(s) ==
    IF op(s).class # "get" \/ (op(s).auth /\ who[s] = None) THEN None
    ELSE <<req[s].op, req[s].subject, who[s]>>

Resolved(s) ==
    /\ pc[s] = "resolve"
    /\ Identity(s) \notin Prior
    /\ pc' = [pc EXCEPT ![s] = "throttle"]
    /\ UNCHANGED <<gateVars, req, cur, n, prev, depth, who, rt, res, sent, envVars, began, read>>

\* answerFromPrior: the earlier run's success answers, with its own line.
AnswerFromPrior(s) ==
    /\ pc[s] = "resolve"
    /\ Identity(s) \in Prior
    /\ \E ok \in WriteOutcomes :
        /\ Record(cur[s], "reused", ok)
        /\ Return(s, Ended(IF ok THEN "reused" ELSE "unavailable:audit_failed", cur[s]))
    /\ UNCHANGED <<seq, stopped, pages, redirects, kept, principal, req, cur, n, sent,
                   deadline, over, canceled, account, began, read>>

\* Step 13: the wait for the throttle is cut by the deadline or a cancelled
\* run, or outlasted the window.
ThrottleFails(s) ==
    /\ pc[s] = "throttle"
    /\ \/ probe(s) /\ over /\ Halted(s, "refused:window")
       \/ deadline /\ Halted(s, "refused:deadline")
       \/ canceled /\ ~deadline /\ Halted(s, "refused:canceled")
    /\ pages' = Unread(req[s].nextOf, pages)
    /\ UNCHANGED <<seq, stopped, redirects, kept, principal, req, cur, n, sent,
                   deadline, over, canceled, account, began, read>>

\* Step 14: the send line is written, then the request is sent; a line that
\* cannot be written stops it.
Send(s) ==
    /\ pc[s] = "throttle"
    /\ ~(probe(s) /\ over)
    /\ \E ok \in WriteOutcomes :
        /\ Record(cur[s], "send", ok)
        /\ sent' = [sent EXCEPT ![s] = @ \/ ok]
        /\ IF ok
           THEN /\ pc' = [pc EXCEPT ![s] = "flight"]
                /\ UNCHANGED <<pages, prev, depth, who, res, rt>>
           ELSE /\ Return(s, Ended("unavailable:audit_failed", cur[s]))
                /\ pages' = Unread(req[s].nextOf, pages)
    /\ UNCHANGED <<seq, stopped, redirects, kept, principal, req, cur, n,
                   deadline, over, canceled, account, began, read>>

-----------------------------------------------------------------------------
(* The answer.                                                             *)

\* Mutant: the window is only read before the send.
AlwaysInWindow(s) == TRUE

\* The read completed, or failed, inside its authorization window.
InWindow(s) == ~(probe(s) /\ over)

\* finish: the result line is written, whether or not the write succeeds.
ResultLine(s) == \E ok \in WriteOutcomes : Record(cur[s], "result", ok)

\* stopProvider: a site's rate limit never stops the web.
Stop(s) == IF web(s) THEN stopped ELSE stopped \cup {prov(s)}

\* classify, checkFloor: an answer may show that little of the limit is left.
FloorOutcomes(s) == IF prov(s) \in Floor THEN {stopped, Stop(s)} ELSE {stopped}

\* keepPage: the page after this one is stored, and the page before is spent.
PageNumber(s) == IF prev[s] = None THEN 1 ELSE prev[s].n
PageRoot(s)   == IF prev[s] = None THEN cur[s] ELSE prev[s].root
NextPage(s) ==
    [op |-> req[s].op, asset |-> req[s].asset, subject |-> req[s].subject, reading |-> FALSE,
     n |-> PageNumber(s) + 1, root |-> PageRoot(s)]
KeepPage(s, more) ==
    [i \in Ids |-> IF i = cur[s] /\ more THEN NextPage(s)
                   ELSE IF i = req[s].nextOf THEN None ELSE pages[i]]

\* A success: kept for a resume when it has an identity; a list's page is
\* kept; a principal op's answer binds the credential.
AnswerOK(s) ==
    /\ pc[s] = "flight" /\ InWindow(s)
    /\ ResultLine(s)
    /\ Return(s, Ended("sent", cur[s]))
    /\ stopped' \in FloorOutcomes(s)
    /\ kept' = IF Identity(s) = None THEN kept ELSE kept \cup {Identity(s)}
    /\ principal' = IF op(s).class = "principal" THEN account ELSE principal
    /\ \E more \in BOOLEAN :
        /\ more => op(s).class = "list"
        /\ pages' = IF op(s).class = "list" THEN KeepPage(s, more) ELSE pages
        /\ read' = IF op(s).class = "list"
                   THEN [read EXCEPT ![cur[s]] =
                            [root |-> PageRoot(s), n |-> PageNumber(s), more |-> more]]
                   ELSE read
    /\ UNCHANGED <<seq, redirects, req, cur, n, sent,
                   deadline, over, canceled, account, began>>

\* noteRedirect: a 3xx is evidence, and where it points may be asked for.
AnswerRedirect(s) ==
    /\ pc[s] = "flight" /\ InWindow(s) /\ web(s)
    /\ ResultLine(s)
    /\ Return(s, Ended("sent", cur[s]))
    /\ \E to \in Subjects :
        redirects' = [redirects EXCEPT ![cur[s]] =
            [asset |-> req[s].asset, target |-> to, depth |-> depth[s]]]
    /\ UNCHANGED <<seq, stopped, pages, kept, principal, req, cur, n, sent,
                   deadline, over, canceled, account, began, read>>

\* classify, pipeline, failed: an answer that is a gap (a permission, a body
\* that could not be kept, a transport error), and is not retried.
GapResults(s) ==
    {Ended(IF deadline THEN "unavailable:deadline"
           ELSE IF canceled THEN "unavailable:canceled" ELSE "unavailable:read", cur[s])}
    \cup (IF web(s) THEN {}
          ELSE {[decision |-> "sent", reason |-> "insufficient_permission", id |-> cur[s]]})

AnswerGap(s) ==
    /\ pc[s] = "flight" /\ InWindow(s)
    /\ ResultLine(s)
    /\ \E r \in GapResults(s) : Return(s, r)
    /\ stopped' \in FloorOutcomes(s)
    /\ pages' = Unread(req[s].nextOf, pages)
    /\ UNCHANGED <<seq, redirects, kept, principal, req, cur, n, sent,
                   deadline, over, canceled, account, began, read>>

LimitReached(s) == [decision |-> "sent", reason |-> "limit_reached", id |-> cur[s]]

\* classify: the provider's limit is used up and it named no wait.
AnswerExhausted(s) ==
    /\ pc[s] = "flight" /\ InWindow(s) /\ ~web(s)
    /\ ResultLine(s)
    /\ Return(s, LimitReached(s))
    /\ stopped' = Stop(s)
    /\ pages' = Unread(req[s].nextOf, pages)
    /\ UNCHANGED <<seq, redirects, kept, principal, req, cur, n, sent,
                   deadline, over, canceled, account, began, read>>

\* classify, failed: an answer that may be tried again, and what the attempt
\* ends as if it is not. "transient" is a provider's 502, 503 or 504, or a
\* connection reset before any response.
RetryKinds(s) == IF web(s) THEN {"evidence", "transient"} ELSE {"transient", "rate_limit"}
RetryResult(s, kind) ==
    CASE kind = "evidence" -> Ended("sent", cur[s])
      [] kind = "rate_limit" -> LimitReached(s)
      [] kind = "transient" -> Ended("unavailable:transient", cur[s])

AnswerRetry(s) ==
    /\ pc[s] = "flight" /\ InWindow(s)
    /\ ResultLine(s)
    /\ \E kind \in RetryKinds(s) :
        /\ rt' = [rt EXCEPT ![s] = kind]
        /\ res' = [res EXCEPT ![s] = RetryResult(s, kind)]
    /\ pc' = [pc EXCEPT ![s] = "backoff"]
    /\ ForgetPending(s)
    /\ pages' = Unread(req[s].nextOf, pages)
    /\ UNCHANGED <<seq, stopped, redirects, kept, principal, req, cur, n, sent,
                   deadline, over, canceled, account, began, read>>

\* cutAtEnd: a probe's answer at or after its window's end keeps nothing; a
\* stop the answer led to stands.
AnswerCut(s) ==
    /\ pc[s] = "flight" /\ ~InWindow(s)
    /\ ResultLine(s)
    /\ Return(s, Ended(IF deadline THEN "unavailable:deadline" ELSE "unavailable:window_ended", cur[s]))
    /\ stopped' \in {stopped, Stop(s)}
    /\ pages' = Unread(req[s].nextOf, pages)
    /\ UNCHANGED <<seq, redirects, kept, principal, req, cur, n, sent,
                   deadline, over, canceled, account, began, read>>

-----------------------------------------------------------------------------
(* Between attempts.                                                       *)

\* exhausted: the retries ran out. A site's last answer is kept as evidence;
\* a rate limit stops the provider.
Exhausted(s) ==
    /\ stopped' = IF rt[s] = "rate_limit" THEN Stop(s) ELSE stopped
    /\ Return(s, res[s])

\* Mutant: one attempt too many is waited for.
RetriesOutLate(s) ==
    /\ pc[s] = "backoff"
    /\ n[s] = Retries + 2
    /\ Exhausted(s)
    /\ UNCHANGED <<seq, lines, pages, redirects, kept, principal, req, cur, n, sent, envVars, began, read>>

RetriesOut(s) ==
    /\ pc[s] = "backoff"
    /\ n[s] = Retries + 1
    /\ Exhausted(s)
    /\ UNCHANGED <<seq, lines, pages, redirects, kept, principal, req, cur, n, sent, envVars, began, read>>

\* cutRetry, the wait is longer than the gate honours and inside the deadline.
WaitTooLong(s) ==
    /\ pc[s] = "backoff"
    /\ n[s] <= Retries
    /\ ~deadline
    /\ rt[s] # "rate_limit"
    /\ Exhausted(s)
    /\ UNCHANGED <<seq, lines, pages, redirects, kept, principal, req, cur, n, sent, envVars, began, read>>

\* Mutant: the refused retry has no line.
RefuseRetrySilently(s, decision) ==
    /\ Begin(s, n[s] + 1)
    /\ Began(s, req[s], n[s] + 1)
    /\ UNCHANGED <<lines, faults>>
    /\ res' = [res EXCEPT ![s] = Ended(decision, seq + 1)]
    /\ pc' = [pc EXCEPT ![s] = "done"]

\* A retry that is not sent has an id and a refused line of its own.
RefuseRetry(s, decision) ==
    /\ Begin(s, n[s] + 1)
    /\ Began(s, req[s], n[s] + 1)
    /\ \E ok \in WriteOutcomes : Record(seq + 1, "refused", ok)
    /\ res' = [res EXCEPT ![s] = Ended(decision, seq + 1)]
    /\ pc' = [pc EXCEPT ![s] = "done"]

\* cutRetry otherwise: the wait would pass the deadline, or a rate limit asks
\* for a longer wait than the gate honours.
CutRetry(s) ==
    /\ pc[s] = "backoff"
    /\ n[s] <= Retries
    /\ \E past \in BOOLEAN :
        /\ deadline => past
        /\ past => "deadline" \in Clock
        /\ past \/ rt[s] = "rate_limit"
        /\ RefuseRetry(s, IF past THEN "refused:deadline" ELSE "refused:rate_limit")
    /\ stopped' = IF rt[s] = "rate_limit" THEN Stop(s) ELSE stopped
    /\ UNCHANGED <<pages, redirects, kept, principal, req, prev, depth, who, sent,
                   deadline, over, canceled, account, read>>

\* The run is cancelled during the wait.
CancelRetry(s) ==
    /\ pc[s] = "backoff"
    /\ n[s] <= Retries
    /\ canceled /\ ~deadline
    /\ RefuseRetry(s, "refused:canceled")
    /\ UNCHANGED <<stopped, pages, redirects, kept, principal, req, prev, depth, who, sent,
                   deadline, over, canceled, account, read>>

\* Mutant: a retry is sent under the admission of the first attempt.
RetryAdmitted(s) ==
    /\ pc[s] = "backoff"
    /\ n[s] <= Retries
    /\ Begin(s, n[s] + 1)
    /\ Began(s, req[s], n[s] + 1)
    /\ pc' = [pc EXCEPT ![s] = "throttle"]
    /\ UNCHANGED <<lines, stopped, pages, redirects, kept, principal, req, prev, depth, who, res, sent, envVars, read>>

\* The wait is over: the next attempt is admitted again from the first check.
Retry(s) ==
    /\ pc[s] = "backoff"
    /\ n[s] <= Retries
    /\ Begin(s, n[s] + 1)
    /\ Began(s, req[s], n[s] + 1)
    /\ pc' = [pc EXCEPT ![s] = "admit"]
    /\ UNCHANGED <<lines, stopped, pages, redirects, kept, principal, req, prev, depth, who, res, sent, envVars, read>>

-----------------------------------------------------------------------------
(* The environment, and the specification.                                 *)

DeadlinePasses ==
    /\ "deadline" \in Clock /\ ~deadline /\ deadline' = TRUE
    /\ UNCHANGED <<gateVars, sendVars, over, canceled, account, faults, began, read>>
WindowEnds ==
    /\ "window" \in Clock /\ ~over /\ over' = TRUE
    /\ UNCHANGED <<gateVars, sendVars, deadline, canceled, account, faults, began, read>>
RunCanceled ==
    /\ "cancel" \in Clock /\ ~canceled /\ canceled' = TRUE
    /\ UNCHANGED <<gateVars, sendVars, deadline, over, account, faults, began, read>>

Step(s) ==
    \/ Admit(s) \/ ResolveFails(s) \/ Resolved(s) \/ AnswerFromPrior(s)
    \/ ThrottleFails(s) \/ Send(s)
    \/ AnswerOK(s) \/ AnswerRedirect(s) \/ AnswerGap(s) \/ AnswerExhausted(s)
    \/ AnswerRetry(s) \/ AnswerCut(s)
    \/ RetriesOut(s) \/ WaitTooLong(s) \/ CutRetry(s) \/ CancelRetry(s) \/ Retry(s)

Next ==
    \/ \E s \in Sends : Call(s) \/ Step(s)
    \/ DeadlinePasses \/ WindowEnds \/ RunCanceled

Spec == Init /\ [][Next]_vars

\* A call runs on: the resolver answers or times out, the throttle grants a
\* slot or its context ends (Throttle.tla), and a request in flight has a
\* total timeout.
Fairness == \A s \in Sends : WF_vars(Step(s))
FairSpec == Spec /\ Fairness

-----------------------------------------------------------------------------
(* Properties.                                                             *)

PCs == {"idle", "admit", "resolve", "throttle", "flight", "backoff", "done"}

\* The type of the gate's state and of each call's.
TypeOK ==
    /\ seq \in 0 .. MaxIds
    /\ lines \in [Ids -> SUBSET Events]
    /\ stopped \subseteq Providers \ {"web"}
    /\ pc \in [Sends -> PCs]
    /\ cur \in [Sends -> 0 .. seq]
    /\ n \in [Sends -> 0 .. Retries + 1]
    /\ depth \in [Sends -> 0 .. MaxRedirects]
    /\ sent \in [Sends -> BOOLEAN]
    /\ \A s \in Sends : pc[s] # "idle" => req[s] \in Requests
    /\ \A s \in Sends : rt[s] # None <=> pc[s] = "backoff"

InProgress(i) == cur[began[i].by] = i /\ pc[began[i].by] \notin {"backoff", "done"}
AuditKept == faults = 0

\* The audit log answers for every request: a request id has the one line of a
\* refusal or of a reused answer, or a send line and then its result, and
\* nothing is missing once the attempt ended, whatever retries, cuts and
\* cancellations there were; the id a result carries has the line its
\* decision says (audit.go Entry, docs/spec/scope.md "Audit").
AuditTrail ==
    /\ \A i \in Ids : lines[i] \in {{}, {"refused"}, {"reused"}, {"send"}, {"send", "result"}}
    /\ AuditKept => \A i \in 1 .. seq :
        InProgress(i) \/ lines[i] \in {{"refused"}, {"reused"}, {"send", "result"}}
    /\ AuditKept => \A s \in Sends : pc[s] = "done" =>
        /\ res[s].decision = "sent" => lines[res[s].id] = {"send", "result"}
        /\ res[s].decision = "reused" => lines[res[s].id] = {"reused"}
        /\ res[s].decision \in {"refused:deadline", "refused:rate_limit", "refused:canceled"}
              => lines[res[s].id] = {"refused"}

\* Result.Sent counts a request budget: it is set exactly when a send line was
\* written for the request or one of its retries, however the call ended
\* (gate.go Result.Sent, sendRetrying).
SentAccounts ==
    \A s \in Sends : pc[s] = "done" =>
        (sent[s] <=> \E i \in 1 .. seq : began[i].by = s /\ "send" \in lines[i])

\* Nothing outside the scope is sent or answered from an earlier run: the
\* subject is under its asset, not excluded and an entry point, in this
\* session, also on a retry, a redirect hop and a resume (admit.go attempt).
ScopeHolds ==
    \A i \in 1 .. seq : lines[i] \cap {"send", "reused"} # {} =>
        LET q == req[began[i].by] IN
        /\ q.asset \in Under[q.subject]
        /\ Place[q.subject] = "in"
        /\ Op[q.op].level = "observe" \/ Ceiling = "probe"
        /\ began[i].hops <= MaxRedirects

\* An attempt that begins after limits.timeout passed, or after the gate
\* stopped its provider, sends nothing: every retry is admitted again from
\* the first check (Send's comment in gate.go).
StopHonoured ==
    \A i \in 1 .. seq : "send" \in lines[i] => ~began[i].late /\ ~began[i].stopped

\* A page of a list is followed once: no two requests keep the same page of
\* one list, and a page that was read but not kept can be asked for again
\* (send.go keepPage).
PagesFollowOnce ==
    /\ \A i, j \in 1 .. seq :
        (read[i] # None /\ read[j] # None /\ i # j) =>
            <<read[i].root, read[i].n>> # <<read[j].root, read[j].n>>
    /\ \A i \in 1 .. seq : (read[i] # None /\ read[i].more) =>
        \/ pages[i] # None
        \/ \E j \in 1 .. seq : read[j] # None /\ read[j].root = read[i].root /\ read[j].n = read[i].n + 1

\* A page is marked as being read exactly while one attempt follows it: an
\* attempt that ends, however it ends, leaves it free (bindParams' cleanup).
Follows(s, i) == req[s] # None /\ req[s].nextOf = i /\ pc[s] \in {"resolve", "throttle", "flight"}
PageReaders ==
    \A i \in 1 .. seq : pages[i] # None =>
        (pages[i].reading <=> Cardinality({s \in Sends : Follows(s, i)}) = 1)

\* A call that ends on the provider's rate limit leaves the provider stopped,
\* so that no later request is admitted to it (classify, exhausted, cutRetry).
RateLimitStops ==
    \A s \in Sends :
        (pc[s] = "done" /\ ~web(s) /\ \/ res[s].decision = "refused:rate_limit"
                                      \/ res[s].decision = "sent" /\ res[s].reason = "limit_reached")
          => prov(s) \in stopped

\* What is sent was allowed when its attempt began: in scope, before the
\* deadline, to a provider no rate limit had stopped, and a rate limit stops
\* it for the calls after (admit.go attempt, send.go classify).
SendsAllowed == ScopeHolds /\ StopHonoured /\ RateLimitStops

\* The pages of a list, between the calls that race for them (bindParams,
\* keepPage): each is followed once, and free unless someone follows it.
PagesHold == PagesFollowOnce /\ PageReaders

\* The audit log and the gate's own counters agree (audit.go, gate.go).
AuditHolds == TypeOK /\ AuditTrail

\* An authenticated answer is reused only when the credential of this session
\* was resolved to the account the answer was recorded under (identity,
\* bindPrincipal).
ReuseSamePrincipal ==
    \A i \in 1 .. seq : "reused" \in lines[i] =>
        LET q == req[began[i].by] IN
        Op[q.op].auth => <<q.op, q.subject, account>> \in Prior

\* What a resumed run takes from the earlier one, and what it counts as sent,
\* also when the audit log cannot be written (identity, Result.Sent).
ReuseHolds == ReuseSamePrincipal /\ SentAccounts

\* Once its authorization window is over a probe leaves nothing behind that a
\* later request or run could use (cutAtEnd).
WindowCutsReads ==
    [][over =>
        /\ \A k \in kept' \ kept : Op[k[1]].level # "probe"
        /\ \A i \in Ids : (redirects'[i] # redirects[i] \/ read'[i] # read[i]) =>
                Op[req[began[i].by].op].level # "probe"]_vars

\* Every call of Send returns.
SendReturns == \A s \in Sends : pc[s] = "admit" ~> pc[s] = "done"
=============================================================================
