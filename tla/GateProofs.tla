---------------------------- MODULE GateProofs ----------------------------
(***************************************************************************)
(* Proofs about Gate.tla: for any number of concurrent calls of Send, ops, *)
(* subjects, providers and retries, and any failing writes of the audit    *)
(* log, what is sent was allowed, the audit log answers for it, the pages  *)
(* of a list are followed once and an answer is reused under one account.  *)
(***************************************************************************)
EXTENDS Gate, FiniteSetTheorems, TLAPS

-----------------------------------------------------------------------------
(* The inductive invariant.                                                *)

RetryNames == {"evidence", "transient", "rate_limit"}

\* The type of every variable. The credential was resolved to its account, or
\* to nobody yet.
Typed ==
    /\ seq \in 0 .. MaxIds
    /\ lines \in [Ids -> SUBSET Events]
    /\ stopped \subseteq Providers \ {"web"}
    /\ pages \in [Ids -> PageRecords \cup {None}]
    /\ redirects \in [Ids -> HopRecords \cup {None}]
    /\ principal \in {None, account}
    /\ pc \in [Sends -> PCs]
    /\ req \in [Sends -> Requests \cup {None}]
    /\ cur \in [Sends -> 0 .. MaxIds]
    /\ n \in [Sends -> 0 .. Retries + 1]
    /\ prev \in [Sends -> PageRecords \cup {None}]
    /\ depth \in [Sends -> 0 .. MaxRedirects]
    /\ who \in [Sends -> {None, account}]
    /\ rt \in [Sends -> RetryNames \cup {None}]
    /\ res = [s \in Sends |-> res[s]]
    /\ sent \in [Sends -> BOOLEAN]
    /\ deadline \in BOOLEAN /\ over \in BOOLEAN
    /\ faults \in 0 .. MaxFaults
    /\ began \in [Ids -> BeganRecords \cup {None}]
    /\ read \in [Ids -> ReadRecords \cup {None}]

\* A call's request and its attempt's id.
CallOf(s) ==
    /\ req[s] \in Requests
    /\ cur[s] \in 1 .. seq /\ began[cur[s]].by = s
    /\ req[s].nextOf < cur[s] /\ req[s].redirectOf < cur[s]
    /\ req[s].nextOf # 0 => op(s).class = "list"
    /\ req[s].redirectOf # 0 => web(s)
    /\ ~web(s) => Place[req[s].subject] # "entry_point"
    /\ began[cur[s]].hops = IF req[s].redirectOf = 0 THEN 0 ELSE began[req[s].redirectOf].hops + 1
    /\ pc[s] \in {"backoff", "done"} => res[s].id = cur[s]
    /\ rt[s] # None <=> pc[s] = "backoff"
Calls == \A s \in Sends : IF pc[s] = "idle" THEN req[s] = None /\ rt[s] = None /\ cur[s] = 0 ELSE CallOf(s)

\* An id that was handed out belongs to a call; the others have nothing.
IdsKnown ==
    \A i \in Ids :
        IF i <= seq
        THEN began[i] \in BeganRecords /\ pc[began[i].by] # "idle"
        ELSE /\ lines[i] = {} /\ pages[i] = None /\ redirects[i] = None
             /\ began[i] = None /\ read[i] = None

\* The lines of an attempt in progress.
InProgressLines ==
    \A s \in Sends :
        /\ pc[s] \in {"admit", "resolve", "throttle"} => lines[cur[s]] = {}
        /\ pc[s] = "flight" => lines[cur[s]] = {"send"}

\* The lines of an attempt that ended, when every write succeeded.
Shapes == {{}, {"refused"}, {"reused"}, {"send"}, {"send", "result"}}
Finals == {{"refused"}, {"reused"}, {"send", "result"}}
EndedLines ==
    /\ \A i \in Ids : lines[i] \in Shapes
    /\ AuditKept => \A i \in 1 .. seq : InProgress(i) \/ lines[i] \in Finals
    /\ AuditKept => \A s \in Sends : pc[s] \in {"backoff", "done"} =>
        /\ res[s].decision = "sent" => lines[res[s].id] = {"send", "result"}
        /\ res[s].decision = "reused" => lines[res[s].id] = {"reused"}
        /\ res[s].decision \in {"refused:deadline", "refused:rate_limit", "refused:canceled"}
              => lines[res[s].id] = {"refused"}

\* Past admission: the subject is in scope, and the attempt began before the
\* deadline and any stop.
Admitted(s) ==
    /\ req[s].asset \in Under[req[s].subject] /\ Place[req[s].subject] = "in"
    /\ op(s).level = "observe" \/ Ceiling = "probe"
    /\ depth[s] = began[cur[s]].hops
    /\ ~began[cur[s]].late /\ ~began[cur[s]].stopped
AdmittedHolds == \A s \in Sends : pc[s] \in {"resolve", "throttle", "flight"} => Admitted(s)

\* What was so when an attempt began is so still, and a redirect is as deep as
\* the attempt that received it.
BeganHolds ==
    \A i \in 1 .. seq :
        /\ began[i].late => deadline
        /\ began[i].stopped => prov(began[i].by) \in stopped
        /\ redirects[i] # None => redirects[i].depth = began[i].hops

\* A stored page is the one after the page its id read, and the list was read
\* no further.
Stored ==
    \A i \in 1 .. seq : pages[i] # None =>
        /\ read[i] # None
        /\ pages[i].root = read[i].root /\ pages[i].n = read[i].n + 1
        /\ \A j \in 1 .. seq :
              (read[j] # None /\ read[j].root = pages[i].root) => read[j].n < pages[i].n

\* Every list that was read on has a first page.
Rooted == \A i \in 1 .. seq : read[i] # None => read[i].root \in 1 .. seq /\ read[read[i].root] # None

\* Only an attempt that has its answer has read a page.
Unanswered == \A s \in Sends : pc[s] \in {"admit", "resolve", "throttle", "flight"} => read[cur[s]] = None

\* A page is followed by one attempt at a time, which has a copy of it.
Following(s) == pc[s] \in {"resolve", "throttle", "flight"}
Followed ==
    /\ \A s \in Sends : Following(s) =>
        IF req[s].nextOf = 0 THEN prev[s] = None
        ELSE LET p == pages[req[s].nextOf] IN
             /\ p # None /\ p.reading
             /\ prev[s] # None /\ prev[s].root = p.root /\ prev[s].n = p.n
    /\ \A s, t \in Sends :
        (Following(s) /\ Following(t) /\ req[s].nextOf = req[t].nextOf /\ req[s].nextOf # 0) => s = t
    /\ \A i \in Ids : (pages[i] # None /\ pages[i].reading) =>
        \E s \in Sends : Following(s) /\ req[s].nextOf = i

\* sent counts the send lines.
SentCounts ==
    \A s \in Sends : sent[s] <=> \E i \in 1 .. seq : began[i].by = s /\ "send" \in lines[i]

\* A rate limit stops the provider, at the latest when the retries end.
Limited(s) == res[s].decision = "sent" /\ res[s].reason = "limit_reached"
LimitStops ==
    \A s \in Sends :
        /\ (pc[s] = "done" /\ ~web(s) /\ (Limited(s) \/ res[s].decision = "refused:rate_limit"))
              => prov(s) \in stopped
        /\ pc[s] = "backoff" =>
              (res[s].decision # "refused:rate_limit" /\ (Limited(s) => rt[s] = "rate_limit"))

IInv ==
    /\ Typed /\ Calls /\ IdsKnown
    /\ InProgressLines /\ EndedLines
    /\ AdmittedHolds /\ BeganHolds /\ ScopeHolds /\ StopHonoured
    /\ Stored /\ Rooted /\ Unanswered /\ Followed /\ PagesFollowOnce
    /\ SentCounts /\ ReuseSamePrincipal /\ LimitStops

-----------------------------------------------------------------------------
(* What a step of one call leaves alone.                                   *)

\* A call's request, its op and its id are what they should be.
LEMMA CallFacts ==
    ASSUME IInv, NEW s \in Sends, pc[s] # "idle"
    PROVE  /\ CallOf(s)
           /\ cur[s] \in Ids /\ cur[s] \in 1 .. seq /\ seq \in Nat
           /\ began[cur[s]] \in BeganRecords
           /\ req[s].op \in DOMAIN Op /\ req[s].asset \in Assets /\ req[s].subject \in Subjects
           /\ op(s).class \in {"get", "list", "principal"} /\ op(s).level \in {"observe", "probe"}
           /\ op(s).auth \in BOOLEAN /\ prov(s) \in Providers
           /\ web(s) => (op(s).class = "get" /\ ~op(s).auth)
           /\ req[s].nextOf # 0 => (req[s].nextOf \in 1 .. seq /\ req[s].nextOf \in Ids)
           /\ req[s].redirectOf # 0 => (req[s].redirectOf \in 1 .. seq /\ req[s].redirectOf \in Ids)
           /\ req[s].nextOf \in Nat /\ req[s].redirectOf \in Nat
<1>1. CallOf(s)
  BY DEF IInv, Calls
<1>2. seq \in Nat /\ seq <= MaxIds /\ MaxIds \in Nat
  BY ConstantsAssumption DEF IInv, Typed, ConstantsAssumption
<1>3. cur[s] \in 1 .. seq /\ cur[s] \in Ids
  BY <1>1, <1>2 DEF CallOf, Ids
<1>4. began[cur[s]] \in BeganRecords
  BY <1>2, <1>3 DEF IInv, IdsKnown, Ids
<1>5. req[s] \in Requests
  BY <1>1 DEF CallOf
<1>6. /\ req[s].op \in DOMAIN Op /\ req[s].asset \in Assets /\ req[s].subject \in Subjects
      /\ req[s].nextOf \in Nat /\ req[s].redirectOf \in Nat
  BY <1>5 DEF Requests
<1>7. /\ op(s).class \in {"get", "list", "principal"} /\ op(s).level \in {"observe", "probe"}
      /\ op(s).auth \in BOOLEAN /\ prov(s) \in Providers
      /\ web(s) => (op(s).class = "get" /\ ~op(s).auth)
  BY <1>6, ConstantsAssumption DEF ConstantsAssumption, op, prov, web, Providers
<1>8. /\ req[s].nextOf # 0 => (req[s].nextOf \in 1 .. seq /\ req[s].nextOf \in Ids)
      /\ req[s].redirectOf # 0 => (req[s].redirectOf \in 1 .. seq /\ req[s].redirectOf \in Ids)
  BY <1>1, <1>2, <1>3, <1>6 DEF CallOf, Ids
<1> QED
  BY <1>1, <1>2, <1>3, <1>4, <1>6, <1>7, <1>8

\* A call goes on with the attempt it is at; the other calls stay.
Moves(s, to) ==
    /\ pc[s] # "idle" /\ to \in PCs \ {"idle"} /\ pc' = [pc EXCEPT ![s] = to]
    /\ UNCHANGED <<seq, req, cur, began, account>>
    /\ \A t \in Sends \ {s} : /\ res'[t] = res[t] /\ rt'[t] = rt[t] /\ sent'[t] = sent[t]
                              /\ depth'[t] = depth[t] /\ prev'[t] = prev[t] /\ who'[t] = who[t]
    /\ \A i \in Ids \ {cur[s]} : lines'[i] = lines[i] /\ redirects'[i] = redirects[i] /\ read'[i] = read[i]

\* Its request and its id stay what they were.
LEMMA MovesBase ==
    ASSUME IInv, NEW s \in Sends, NEW to, Moves(s, to),
           to \in {"backoff", "done"} => res'[s].id = cur[s],
           rt'[s] # None <=> to = "backoff",
           \A i \in Ids : i > seq => pages'[i] = None
    PROVE  Calls' /\ IdsKnown'
<1>1. cur[s] \in 1 .. seq /\ seq \in Nat
  BY CallFacts DEF Moves
<1>2. \A t \in Sends : pc'[t] = IF t = s THEN to ELSE pc[t]
  BY DEF Moves, IInv, Typed
<1>3. ASSUME NEW t \in Sends \ {s}
      PROVE  IF pc'[t] = "idle" THEN req'[t] = None /\ rt'[t] = None /\ cur'[t] = 0 ELSE CallOf(t)'
  <2>1. pc'[t] = pc[t] /\ res'[t] = res[t] /\ rt'[t] = rt[t]
    BY <1>2 DEF Moves
  <2> QED
    BY <2>1 DEF IInv, Calls, CallOf, Moves, op, web, prov
<1>4. CallOf(s)'
  BY <1>2 DEF IInv, Calls, CallOf, Moves, op, web, prov
<1>5. Calls'
  BY <1>2, <1>3, <1>4 DEF Calls, Moves
<1>6. IdsKnown'
  <2> SUFFICES ASSUME NEW i \in Ids
               PROVE  IF i <= seq THEN began[i] \in BeganRecords /\ pc'[began[i].by] # "idle"
                      ELSE /\ lines'[i] = {} /\ pages'[i] = None /\ redirects'[i] = None
                           /\ began[i] = None /\ read'[i] = None
    BY DEF IdsKnown, Moves
  <2>1. CASE i <= seq
    BY <1>2, <2>1 DEF IInv, IdsKnown, BeganRecords, Moves
  <2>2. CASE ~(i <= seq)
    <3>1. i # cur[s] /\ i > seq
      BY <1>1, <2>2 DEF Ids
    <3> QED
      BY <2>2, <3>1 DEF IInv, IdsKnown, Moves
  <2> QED
    BY <2>1, <2>2
<1> QED
  BY <1>5, <1>6

\* Its lines follow it.
LEMMA MovesLines ==
    ASSUME IInv, NEW s \in Sends, NEW to, Moves(s, to),
           lines'[cur[s]] \in Shapes,
           to \in {"admit", "resolve", "throttle"} => lines'[cur[s]] = {},
           to = "flight" => lines'[cur[s]] = {"send"},
           AuditKept' => AuditKept,
           AuditKept' /\ to \in {"backoff", "done"} =>
              /\ res'[s].id = cur[s]
              /\ lines'[cur[s]] \in Finals
              /\ res'[s].decision = "sent" => lines'[cur[s]] = {"send", "result"}
              /\ res'[s].decision = "reused" => lines'[cur[s]] = {"reused"}
              /\ res'[s].decision \in {"refused:deadline", "refused:rate_limit", "refused:canceled"}
                    => lines'[cur[s]] = {"refused"}
    PROVE  InProgressLines' /\ EndedLines'
<1>1. cur[s] \in 1 .. seq /\ cur[s] \in Ids /\ began[cur[s]].by = s
  BY CallFacts DEF Moves, CallOf
<1>2. \A t \in Sends : pc'[t] = IF t = s THEN to ELSE pc[t]
  BY DEF Moves, IInv, Typed
<1>3. \A t \in Sends : (t # s /\ pc[t] # "idle") =>
        /\ cur[t] # cur[s] /\ cur[t] \in Ids /\ lines'[cur[t]] = lines[cur[t]]
        /\ pc[t] \in {"backoff", "done"} => res[t].id = cur[t]
  BY <1>1, CallFacts DEF CallOf, Moves
<1>4. InProgressLines'
  <2> SUFFICES ASSUME NEW t \in Sends
               PROVE  /\ pc'[t] \in {"admit", "resolve", "throttle"} => lines'[cur[t]] = {}
                      /\ pc'[t] = "flight" => lines'[cur[t]] = {"send"}
    BY DEF InProgressLines, Moves
  <2>1. CASE t = s
    BY <1>2, <2>1
  <2>2. CASE t # s
    <3>1. pc'[t] = pc[t] /\ (pc[t] # "idle" => lines'[cur[t]] = lines[cur[t]])
      BY <1>2, <1>3, <2>2
    <3> QED
      BY <3>1 DEF IInv, InProgressLines
  <2> QED
    BY <2>1, <2>2
<1>5. \A i \in Ids : lines'[i] \in Shapes
  BY <1>1 DEF IInv, EndedLines, Moves
<1>6. ASSUME AuditKept', NEW i \in 1 .. seq
      PROVE  InProgress(i)' \/ lines'[i] \in Finals
  <2>1. i \in Ids /\ began[i].by \in Sends
    BY ConstantsAssumption DEF IInv, IdsKnown, Typed, Ids, ConstantsAssumption, BeganRecords
  <2>2. InProgress(i) \/ lines[i] \in Finals
    BY <1>6 DEF IInv, EndedLines
  <2>3. CASE i = cur[s]
    BY <1>1, <1>2, <1>6, <2>3 DEF InProgress, Moves, PCs
  <2>4. CASE i # cur[s]
    BY <1>1, <1>2, <2>1, <2>2, <2>4 DEF InProgress, Moves
  <2> QED
    BY <2>3, <2>4
<1>7. ASSUME AuditKept', NEW t \in Sends, pc'[t] \in {"backoff", "done"}
      PROVE  /\ res'[t].decision = "sent" => lines'[res'[t].id] = {"send", "result"}
             /\ res'[t].decision = "reused" => lines'[res'[t].id] = {"reused"}
             /\ res'[t].decision \in {"refused:deadline", "refused:rate_limit", "refused:canceled"}
                   => lines'[res'[t].id] = {"refused"}
  <2>1. CASE t = s
    BY <1>2, <1>7, <2>1
  <2>2. CASE t # s
    <3>1. pc[t] \in {"backoff", "done"} /\ res'[t] = res[t] /\ res[t].id = cur[t]
          /\ lines'[cur[t]] = lines[cur[t]]
      BY <1>2, <1>3, <1>7, <2>2 DEF Moves
    <3> QED
      BY <1>7, <3>1 DEF IInv, EndedLines
  <2> QED
    BY <2>1, <2>2
<1>8. EndedLines'
  BY <1>5, <1>6, <1>7 DEF EndedLines, Moves
<1> QED
  BY <1>4, <1>8

\* What it sends was admitted; what is recorded of the others stands.
LEMMA MovesAdmitted ==
    ASSUME IInv, NEW s \in Sends, NEW to, Moves(s, to),
           stopped \subseteq stopped', deadline => deadline',
           to \in {"resolve", "throttle", "flight"} => Admitted(s)',
           lines'[cur[s]] \cap {"send", "reused"} # {} =>
              (lines[cur[s]] \cap {"send", "reused"} # {} \/ Admitted(s)),
           "send" \in lines'[cur[s]] => ("send" \in lines[cur[s]] \/ Admitted(s)),
           redirects'[cur[s]] = redirects[cur[s]] \/ redirects'[cur[s]].depth = began[cur[s]].hops
    PROVE  AdmittedHolds' /\ BeganHolds' /\ ScopeHolds' /\ StopHonoured'
<1>1. cur[s] \in 1 .. seq /\ cur[s] \in Ids /\ began[cur[s]].by = s /\ began[cur[s]] \in BeganRecords
  BY CallFacts DEF Moves, CallOf
<1>2. \A t \in Sends : pc'[t] = IF t = s THEN to ELSE pc[t]
  BY DEF Moves, IInv, Typed
<1>3. \A i \in 1 .. seq : i \in Ids
  BY ConstantsAssumption DEF IInv, Typed, Ids, ConstantsAssumption
<1>4. AdmittedHolds'
  <2> SUFFICES ASSUME NEW t \in Sends, pc'[t] \in {"resolve", "throttle", "flight"}
               PROVE  Admitted(t)'
    BY DEF AdmittedHolds
  <2>1. CASE t = s
    BY <1>2, <2>1
  <2>2. CASE t # s
    BY <1>2, <2>2 DEF IInv, AdmittedHolds, Admitted, op, Moves
  <2> QED
    BY <2>1, <2>2
<1>5. BeganHolds'
  <2> SUFFICES ASSUME NEW i \in 1 .. seq
               PROVE  /\ began[i].late => deadline'
                      /\ began[i].stopped => prov(began[i].by)' \in stopped'
                      /\ redirects'[i] # None => redirects'[i].depth = began[i].hops
    BY DEF BeganHolds, Moves
  <2>1. redirects'[i] = redirects[i] \/ redirects'[i].depth = began[i].hops
    BY <1>3 DEF Moves
  <2> QED
    BY <2>1 DEF IInv, BeganHolds, Moves, prov, op
<1>6. ScopeHolds'
  <2> SUFFICES ASSUME NEW i \in 1 .. seq, lines'[i] \cap {"send", "reused"} # {}
               PROVE  LET q == req[began[i].by] IN
                      /\ q.asset \in Under[q.subject] /\ Place[q.subject] = "in"
                      /\ Op[q.op].level = "observe" \/ Ceiling = "probe"
                      /\ began[i].hops <= MaxRedirects
    BY DEF ScopeHolds, Moves
  <2>1. CASE lines[i] \cap {"send", "reused"} # {}
    BY <2>1 DEF IInv, ScopeHolds
  <2>2. CASE lines[i] \cap {"send", "reused"} = {}
    <3>1. i = cur[s]
      BY <1>3, <2>2 DEF Moves
    <3>2. Admitted(s)
      BY <2>2, <3>1
    <3>3. depth[s] <= MaxRedirects
      BY ConstantsAssumption DEF IInv, Typed, ConstantsAssumption
    <3> QED
      BY <1>1, <3>1, <3>2, <3>3 DEF Admitted, op
  <2> QED
    BY <2>1, <2>2
<1>7. StopHonoured'
  <2> SUFFICES ASSUME NEW i \in 1 .. seq, "send" \in lines'[i]
               PROVE  ~began[i].late /\ ~began[i].stopped
    BY DEF StopHonoured, Moves
  <2>1. CASE "send" \in lines[i]
    BY <2>1 DEF IInv, StopHonoured
  <2>2. CASE "send" \notin lines[i]
    <3>1. i = cur[s]
      BY <1>3, <2>2 DEF Moves
    <3> QED
      BY <2>2, <3>1 DEF Admitted
  <2> QED
    BY <2>1, <2>2
<1> QED
  BY <1>4, <1>5, <1>6, <1>7

\* What was sent is counted, what is reused is the account's, and a rate limit
\* stops the provider.
LEMMA MovesCounts ==
    ASSUME IInv, NEW s \in Sends, NEW to, Moves(s, to),
           stopped \subseteq stopped',
           sent'[s] <=> (sent[s] \/ "send" \in lines'[cur[s]]),
           lines[cur[s]] \subseteq lines'[cur[s]],
           "reused" \in lines'[cur[s]] =>
              ("reused" \in lines[cur[s]] \/ (op(s).auth => <<req[s].op, req[s].subject, account>> \in Prior)),
           (to = "done" /\ ~web(s) /\ (Limited(s)' \/ res'[s].decision = "refused:rate_limit"))
              => prov(s) \in stopped',
           to = "backoff" => (res'[s].decision # "refused:rate_limit" /\ (Limited(s)' => rt'[s] = "rate_limit"))
    PROVE  SentCounts' /\ ReuseSamePrincipal' /\ LimitStops'
<1>1. cur[s] \in 1 .. seq /\ cur[s] \in Ids /\ began[cur[s]].by = s
  BY CallFacts DEF Moves, CallOf
<1>2. \A t \in Sends : pc'[t] = IF t = s THEN to ELSE pc[t]
  BY DEF Moves, IInv, Typed
<1>3. \A i \in 1 .. seq : i \in Ids
  BY ConstantsAssumption DEF IInv, Typed, Ids, ConstantsAssumption
<1>4. SentCounts'
  <2> SUFFICES ASSUME NEW t \in Sends
               PROVE  sent'[t] <=> \E i \in 1 .. seq : began[i].by = t /\ "send" \in lines'[i]
    BY DEF SentCounts, Moves
  <2>1. sent[t] <=> \E i \in 1 .. seq : began[i].by = t /\ "send" \in lines[i]
    BY DEF IInv, SentCounts
  <2>2. \A i \in 1 .. seq : i # cur[s] => lines'[i] = lines[i]
    BY <1>3 DEF Moves
  <2>3. CASE t = s
    BY <1>1, <2>1, <2>2, <2>3
  <2>4. CASE t # s
    BY <1>1, <2>1, <2>2, <2>4 DEF Moves
  <2> QED
    BY <2>3, <2>4
<1>5. ReuseSamePrincipal'
  <2> SUFFICES ASSUME NEW i \in 1 .. seq, "reused" \in lines'[i], Op[req[began[i].by].op].auth
               PROVE  <<req[began[i].by].op, req[began[i].by].subject, account>> \in Prior
    BY DEF ReuseSamePrincipal, Moves
  <2>1. CASE "reused" \in lines[i]
    BY <2>1 DEF IInv, ReuseSamePrincipal
  <2>2. CASE "reused" \notin lines[i]
    <3>1. i = cur[s]
      BY <1>3, <2>2 DEF Moves
    <3> QED
      BY <1>1, <2>2, <3>1 DEF op
  <2> QED
    BY <2>1, <2>2
<1>6. LimitStops'
  <2> SUFFICES ASSUME NEW t \in Sends
               PROVE  /\ (pc'[t] = "done" /\ ~web(t)' /\ (Limited(t)' \/ res'[t].decision = "refused:rate_limit"))
                            => prov(t)' \in stopped'
                      /\ pc'[t] = "backoff" =>
                            (res'[t].decision # "refused:rate_limit" /\ (Limited(t)' => rt'[t] = "rate_limit"))
    BY DEF LimitStops
  <2>1. web(t)' = web(t) /\ prov(t)' = prov(t)
    BY DEF web, prov, op, Moves
  <2>2. CASE t = s
    BY <1>2, <2>1, <2>2
  <2>3. CASE t # s
    BY <1>2, <2>1, <2>3 DEF IInv, LimitStops, Limited, Moves
  <2> QED
    BY <2>2, <2>3
<1> QED
  BY <1>4, <1>5, <1>6

-----------------------------------------------------------------------------
(* What a step does to the pages.                                          *)

\* A page that is marked, or no longer, is otherwise the page it was.
LEMMA MarkFacts ==
    ASSUME NEW p \in PageRecords, NEW b \in BOOLEAN
    PROVE  LET u == [p EXCEPT !.reading = b] IN
           u \in PageRecords /\ u # None /\ u.root = p.root /\ u.n = p.n /\ u.reading = b
BY NoneAssumption DEF PageRecords, NoneAssumption

\* A page that is no longer being read is otherwise the page it was.
LEMMA UnreadFacts ==
    ASSUME Typed, NEW i
    PROVE  /\ Unread(i, pages) \in [Ids -> PageRecords \cup {None}]
           /\ \A j \in Ids : Unread(i, pages)[j] # None <=> pages[j] # None
           /\ \A j \in Ids : pages[j] # None =>
                /\ Unread(i, pages)[j].root = pages[j].root
                /\ Unread(i, pages)[j].n = pages[j].n
                /\ Unread(i, pages)[j].reading = (j # i /\ pages[j].reading)
           /\ i \notin Ids => Unread(i, pages) = pages
<1>1. pages \in [Ids -> PageRecords \cup {None}] /\ None \notin PageRecords
  BY NoneAssumption DEF Typed, NoneAssumption
<1>2. ASSUME NEW j \in Ids, pages[j] # None
      PROVE  LET u == [pages[j] EXCEPT !.reading = FALSE] IN
             u \in PageRecords /\ u # None /\ u.root = pages[j].root /\ u.n = pages[j].n /\ ~u.reading
  <2>1. pages[j] \in PageRecords
    BY <1>1, <1>2
  <2> QED
    BY <1>1, <2>1 DEF PageRecords
<1>3. \A j \in Ids : Unread(i, pages)[j] =
        IF j = i /\ pages[j] # None THEN [pages[j] EXCEPT !.reading = FALSE] ELSE pages[j]
  BY DEF Unread
<1>4. Unread(i, pages) \in [Ids -> PageRecords \cup {None}]
  BY <1>1, <1>2, <1>3 DEF Unread
<1>5. i \notin Ids => Unread(i, pages) = pages
  BY <1>1, <1>3, <1>4
<1>6. ASSUME NEW j \in Ids
      PROVE  Unread(i, pages)[j] # None <=> pages[j] # None
  BY <1>2, <1>3
<1>7. ASSUME NEW j \in Ids, pages[j] # None
      PROVE  /\ Unread(i, pages)[j].root = pages[j].root
             /\ Unread(i, pages)[j].n = pages[j].n
             /\ Unread(i, pages)[j].reading = (j # i /\ pages[j].reading)
  <2>1. pages[j].reading \in BOOLEAN
    BY <1>1, <1>7 DEF PageRecords
  <2>2. CASE j = i
    <3>1. Unread(i, pages)[j] = [pages[j] EXCEPT !.reading = FALSE]
      BY <1>3, <1>7, <2>2
    <3>2. ~Unread(i, pages)[j].reading /\ Unread(i, pages)[j].reading \in BOOLEAN
      BY <1>1, <1>7, <3>1 DEF PageRecords
    <3> QED
      BY <1>2, <1>7, <2>2, <3>1, <3>2
  <2>3. CASE j # i
    <3>1. Unread(i, pages)[j] = pages[j]
      BY <1>3, <2>3
    <3> QED
      BY <2>1, <2>3, <3>1
  <2> QED
    BY <2>2, <2>3
<1> QED
  BY <1>4, <1>5, <1>6, <1>7

\* Pages that keep their place in their list, and reads that stay.
LEMMA PagesSame ==
    ASSUME IInv, seq' = seq, read' = read,
           \A i \in Ids : /\ pages'[i] # None <=> pages[i] # None
                          /\ pages[i] # None => (pages'[i].root = pages[i].root /\ pages'[i].n = pages[i].n)
    PROVE  Stored' /\ Rooted' /\ PagesFollowOnce'
<1>1. \A i \in 1 .. seq : i \in Ids
  BY ConstantsAssumption DEF IInv, Typed, Ids, ConstantsAssumption
<1>2. Stored'
  BY <1>1 DEF IInv, Stored
<1>3. Rooted'
  BY DEF IInv, Rooted
<1>4. PagesFollowOnce'
  BY <1>1 DEF IInv, PagesFollowOnce
<1> QED
  BY <1>2, <1>3, <1>4

\* An attempt that goes on follows what it followed.
LEMMA PagesStay ==
    ASSUME IInv, NEW s \in Sends, NEW to, Moves(s, to), pages' = pages, read' = read,
           prev'[s] = prev[s], Following(s), to \in {"resolve", "throttle", "flight"}
    PROVE  Stored' /\ Rooted' /\ Unanswered' /\ Followed' /\ PagesFollowOnce'
<1>1. Stored' /\ Rooted' /\ PagesFollowOnce'
  BY PagesSame DEF Moves
<1>2. \A t \in Sends : Following(t)' <=> Following(t)
  BY DEF Following, Moves, IInv, Typed
<1>3. \A t \in Sends : pc'[t] = IF t = s THEN to ELSE pc[t]
  BY DEF Moves, IInv, Typed
<1>4. Unanswered'
  BY <1>3 DEF IInv, Unanswered, Moves, Following
<1>5. Followed'
  BY <1>2 DEF IInv, Followed, Moves
<1> QED
  BY <1>1, <1>4, <1>5

\* An attempt that ends, however it ends, leaves the page it followed free.
LEMMA PagesLeave ==
    ASSUME IInv, NEW s \in Sends, NEW to, Moves(s, to), to \in {"backoff", "done"}, read' = read,
           IF Following(s) THEN pages' = Unread(req[s].nextOf, pages) ELSE pages' = pages
    PROVE  Stored' /\ Rooted' /\ Unanswered' /\ Followed' /\ PagesFollowOnce'
<1>1. \A t \in Sends : pc'[t] = IF t = s THEN to ELSE pc[t]
  BY DEF Moves, IInv, Typed
<1>2. \A j \in Ids : /\ pages'[j] # None <=> pages[j] # None
                     /\ pages[j] # None => (pages'[j].root = pages[j].root /\ pages'[j].n = pages[j].n)
                     /\ pages[j] # None =>
                          (pages'[j].reading <=> (pages[j].reading /\ ~(Following(s) /\ j = req[s].nextOf)))
  <2>1. CASE Following(s)
    <3>1. Typed /\ pages' = Unread(req[s].nextOf, pages)
      BY <2>1 DEF IInv
    <3> QED
      BY <2>1, <3>1, UnreadFacts
  <2>2. CASE ~Following(s)
    BY <2>2
  <2> QED
    BY <2>1, <2>2
<1>3. Stored' /\ Rooted' /\ PagesFollowOnce'
  BY <1>2, PagesSame DEF Moves
<1>4. Unanswered'
  BY <1>1 DEF IInv, Unanswered, Moves
<1>5. \A t \in Sends : Following(t)' <=> (t # s /\ Following(t))
  BY <1>1 DEF Following
<1>6. Followed'
  <2>1. ASSUME NEW t \in Sends, Following(t)'
        PROVE  IF req[t].nextOf = 0 THEN prev'[t] = None
               ELSE LET p == pages'[req[t].nextOf] IN
                    /\ p # None /\ p.reading
                    /\ prev'[t] # None /\ prev'[t].root = p.root /\ prev'[t].n = p.n
    <3>1. t # s /\ Following(t) /\ prev'[t] = prev[t]
      BY <1>5, <2>1 DEF Moves
    <3>2. CASE req[t].nextOf = 0
      BY <3>1, <3>2 DEF IInv, Followed
    <3>3. CASE req[t].nextOf # 0
      <4>1. req[t].nextOf \in Ids
        BY <3>1, <3>3, CallFacts DEF Following
      <4>2. ~(Following(s) /\ req[t].nextOf = req[s].nextOf)
        BY <3>1, <3>3 DEF IInv, Followed
      <4>3. LET p == pages[req[t].nextOf] IN
                    /\ p # None /\ p.reading
                    /\ prev[t] # None /\ prev[t].root = p.root /\ prev[t].n = p.n
        BY <3>1, <3>3 DEF IInv, Followed
      <4> QED
        BY <1>2, <3>1, <3>3, <4>1, <4>2, <4>3
    <3> QED
      BY <3>2, <3>3
  <2>2. ASSUME NEW t \in Sends, NEW u \in Sends, Following(t)', Following(u)',
               req[t].nextOf = req[u].nextOf, req[t].nextOf # 0
        PROVE  t = u
    BY <1>5, <2>2 DEF IInv, Followed
  <2>3. ASSUME NEW i \in Ids, pages'[i] # None, pages'[i].reading
        PROVE  \E t \in Sends : Following(t)' /\ req[t].nextOf = i
    <3>1. pages[i] # None /\ pages[i].reading /\ ~(Following(s) /\ i = req[s].nextOf)
      BY <1>2, <2>3
    <3>2. PICK t \in Sends : Following(t) /\ req[t].nextOf = i
      BY <3>1 DEF IInv, Followed
    <3> QED
      BY <1>5, <3>1, <3>2
  <2> QED
    BY <2>1, <2>2, <2>3 DEF Followed, Moves
<1> QED
  BY <1>3, <1>4, <1>6

\* An attempt that is admitted marks the page it follows, and copies it.
LEMMA PagesPass ==
    ASSUME IInv, NEW s \in Sends, Moves(s, "resolve"), pc[s] = "admit", read' = read,
           req[s].nextOf # 0 => Mine(s) /\ ~Busy(s),
           pages' = IF req[s].nextOf = 0 THEN pages
                    ELSE [pages EXCEPT ![req[s].nextOf].reading = TRUE],
           prev'[s] = IF req[s].nextOf = 0 THEN None ELSE pages[req[s].nextOf]
    PROVE  Stored' /\ Rooted' /\ Unanswered' /\ Followed' /\ PagesFollowOnce'
<1>1. \A t \in Sends : pc'[t] = IF t = s THEN "resolve" ELSE pc[t]
  BY DEF Moves, IInv, Typed
<1>2. req[s].nextOf # 0 =>
        /\ req[s].nextOf \in Ids /\ pages[req[s].nextOf] # None
        /\ ~pages[req[s].nextOf].reading /\ pages[req[s].nextOf] \in PageRecords
  BY CallFacts DEF Mine, Busy, IInv, Typed
<1>3. \A j \in Ids : j # req[s].nextOf => pages'[j] = pages[j]
  BY <1>2 DEF IInv, Typed
<1>5. req[s].nextOf # 0 =>
        /\ pages'[req[s].nextOf] # None /\ pages'[req[s].nextOf].reading
        /\ pages'[req[s].nextOf].root = pages[req[s].nextOf].root
        /\ pages'[req[s].nextOf].n = pages[req[s].nextOf].n
  <2> SUFFICES ASSUME req[s].nextOf # 0
               PROVE  /\ pages'[req[s].nextOf] # None /\ pages'[req[s].nextOf].reading
                      /\ pages'[req[s].nextOf].root = pages[req[s].nextOf].root
                      /\ pages'[req[s].nextOf].n = pages[req[s].nextOf].n
    OBVIOUS
  <2>1. pages'[req[s].nextOf] = [pages[req[s].nextOf] EXCEPT !.reading = TRUE]
    BY <1>2 DEF IInv, Typed
  <2> QED
    BY <1>2, <2>1, MarkFacts
<1>6. \A i \in Ids : /\ pages'[i] # None <=> pages[i] # None
                     /\ pages[i] # None => (pages'[i].root = pages[i].root /\ pages'[i].n = pages[i].n)
  <2> SUFFICES ASSUME NEW i \in Ids
               PROVE  /\ pages'[i] # None <=> pages[i] # None
                      /\ pages[i] # None => (pages'[i].root = pages[i].root /\ pages'[i].n = pages[i].n)
    OBVIOUS
  <2>1. CASE i = req[s].nextOf /\ i # 0
    BY <1>2, <1>5, <2>1
  <2>2. CASE i # req[s].nextOf
    BY <1>3, <2>2
  <2> QED
    BY <2>1, <2>2 DEF Ids
<1>7. Stored' /\ Rooted' /\ PagesFollowOnce'
  BY <1>6, PagesSame DEF Moves
<1>8. Unanswered'
  BY <1>1 DEF IInv, Unanswered, Moves
<1>9. \A t \in Sends : Following(t)' <=> (t = s \/ Following(t))
  BY <1>1 DEF Following
<1>10. ~Following(s)
  BY DEF Following
<1>11. \A t \in Sends : Following(t) => (req[t].nextOf # req[s].nextOf \/ req[s].nextOf = 0)
  BY <1>2 DEF IInv, Followed
<1>12. ASSUME NEW t \in Sends, Following(t)'
       PROVE  IF req[t].nextOf = 0 THEN prev'[t] = None
              ELSE LET p == pages'[req[t].nextOf] IN
                   /\ p # None /\ p.reading
                   /\ prev'[t] # None /\ prev'[t].root = p.root /\ prev'[t].n = p.n
  <2>1. CASE t = s
    BY <1>2, <1>5, <2>1
  <2>2. CASE t # s
    <3>1. Following(t) /\ prev'[t] = prev[t]
      BY <1>9, <1>12, <2>2 DEF Moves
    <3>2. CASE req[t].nextOf = 0
      BY <3>1, <3>2 DEF IInv, Followed
    <3>3. CASE req[t].nextOf # 0
      <4>1. req[t].nextOf \in Ids
        BY <3>1, <3>3, CallFacts DEF Following
      <4>2. req[t].nextOf # req[s].nextOf
        BY <1>11, <3>1, <3>3
      <4>3. LET p == pages[req[t].nextOf] IN
                    /\ p # None /\ p.reading
                    /\ prev[t] # None /\ prev[t].root = p.root /\ prev[t].n = p.n
        BY <3>1, <3>3 DEF IInv, Followed
      <4>4. pages'[req[t].nextOf] = pages[req[t].nextOf]
        BY <1>3, <4>1, <4>2
      <4> QED
        BY <3>1, <3>3, <4>3, <4>4
    <3> QED
      BY <3>2, <3>3
  <2> QED
    BY <2>1, <2>2
<1>13. ASSUME NEW t \in Sends, NEW u \in Sends, Following(t)', Following(u)',
              req[t].nextOf = req[u].nextOf, req[t].nextOf # 0
       PROVE  t = u
  <2>1. (t = s \/ Following(t)) /\ (u = s \/ Following(u))
    BY <1>9, <1>13
  <2>2. CASE Following(t) /\ Following(u)
    BY <1>13, <2>2 DEF IInv, Followed
  <2>3. CASE ~(Following(t) /\ Following(u))
    BY <1>11, <1>13, <2>1, <2>3
  <2> QED
    BY <2>2, <2>3
<1>14. ASSUME NEW i \in Ids, pages'[i] # None, pages'[i].reading
       PROVE  \E t \in Sends : Following(t)' /\ req[t].nextOf = i
  <2>1. CASE i = req[s].nextOf
    BY <1>9, <2>1
  <2>2. CASE i # req[s].nextOf
    <3>1. pages[i] # None /\ pages[i].reading
      BY <1>3, <1>14, <2>2
    <3>2. PICK t \in Sends : Following(t) /\ req[t].nextOf = i
      BY <3>1 DEF IInv, Followed
    <3> QED
      BY <1>9, <3>2
  <2> QED
    BY <2>1, <2>2
<1>15. Followed'
  BY <1>12, <1>13, <1>14 DEF Followed, Moves
<1> QED
  BY <1>7, <1>8, <1>15

\* The page an attempt reads is the first of a new list, or the one after the
\* last that was read; no other page of its list is stored.
LEMMA ListFacts ==
    ASSUME IInv, NEW s \in Sends, Following(s)
    PROVE  /\ PageNumber(s) \in Nat
           /\ PageRoot(s) \in 1 .. seq
           /\ PageRoot(s) = cur[s] \/ read[PageRoot(s)] # None
           /\ \A j \in 1 .. seq : (read[j] # None /\ read[j].root = PageRoot(s)) => read[j].n < PageNumber(s)
           /\ \A j \in 1 .. seq : (pages[j] # None /\ pages[j].root = PageRoot(s)) => j = req[s].nextOf
           /\ req[s].nextOf # 0 =>
                /\ read[req[s].nextOf] # None
                /\ read[req[s].nextOf].root = PageRoot(s) /\ PageNumber(s) = read[req[s].nextOf].n + 1
           /\ read[cur[s]] = None /\ pages[cur[s]] = None
<1>1. CallOf(s) /\ cur[s] \in 1 .. seq /\ seq \in Nat
  BY CallFacts DEF Following
<1>2. \A j \in 1 .. seq : j \in Ids
  BY ConstantsAssumption DEF IInv, Typed, Ids, ConstantsAssumption
<1>3. \A j \in 1 .. seq : read[j] # None => (read[j].n \in Nat /\ read[j].root \in 1 .. seq /\ read[read[j].root] # None)
  BY <1>2 DEF IInv, Typed, ReadRecords, Rooted
<1>4. read[cur[s]] = None /\ pages[cur[s]] = None
  BY <1>1 DEF IInv, Unanswered, Stored, Following
<1>5. CASE req[s].nextOf = 0
  <2>1. prev[s] = None
    BY <1>5 DEF IInv, Followed
  <2>2. PageNumber(s) = 1 /\ PageRoot(s) = cur[s]
    BY <2>1 DEF PageNumber, PageRoot
  <2>3. \A j \in 1 .. seq : read[j] # None => read[j].root # cur[s]
    BY <1>3, <1>4
  <2>4. \A j \in 1 .. seq : pages[j] # None => pages[j].root # cur[s]
    BY <2>3 DEF IInv, Stored
  <2> QED
    BY <1>1, <1>4, <1>5, <2>2, <2>3, <2>4
<1>6. CASE req[s].nextOf # 0
  <2> DEFINE p == req[s].nextOf
  <2>1. p \in 1 .. seq
    BY <1>6, CallFacts DEF Following
  <2>2. pages[p] # None /\ prev[s] # None /\ prev[s].root = pages[p].root /\ prev[s].n = pages[p].n
    BY <1>6 DEF IInv, Followed
  <2>3. PageNumber(s) = pages[p].n /\ PageRoot(s) = pages[p].root
    BY <2>2 DEF PageNumber, PageRoot
  <2>4. /\ read[p] # None /\ pages[p].root = read[p].root /\ pages[p].n = read[p].n + 1
        /\ \A j \in 1 .. seq : (read[j] # None /\ read[j].root = pages[p].root) => read[j].n < pages[p].n
    BY <2>1, <2>2 DEF IInv, Stored
  <2>5. ASSUME NEW j \in 1 .. seq, pages[j] # None, pages[j].root = pages[p].root, j # p
        PROVE  FALSE
    <3>1. /\ read[j] # None /\ pages[j].root = read[j].root /\ pages[j].n = read[j].n + 1
          /\ \A k \in 1 .. seq : (read[k] # None /\ read[k].root = pages[j].root) => read[k].n < pages[j].n
      BY <2>5 DEF IInv, Stored
    <3>2. read[j].n < read[p].n + 1 /\ read[p].n < read[j].n + 1 /\ read[j].root = read[p].root
      BY <2>1, <2>4, <2>5, <3>1
    <3>3. read[j].n \in Nat /\ read[p].n \in Nat
      BY <1>3, <2>1, <2>4, <3>1
    <3>4. read[j].n = read[p].n
      BY <3>2, <3>3
    <3> QED
      BY <2>1, <2>4, <2>5, <3>1, <3>2, <3>4 DEF IInv, PagesFollowOnce
  <2> HIDE DEF p
  <2>6. pages[p].n \in Nat /\ pages[p].root \in 1 .. seq /\ read[pages[p].root] # None
    BY <1>3, <2>1, <2>4
  <2>7. \A j \in 1 .. seq : (pages[j] # None /\ pages[j].root = PageRoot(s)) => j = p
    BY <2>3, <2>5
  <2>8. /\ PageNumber(s) \in Nat /\ PageRoot(s) \in 1 .. seq /\ read[PageRoot(s)] # None
        /\ read[p] # None /\ read[p].root = PageRoot(s) /\ PageNumber(s) = read[p].n + 1
        /\ \A j \in 1 .. seq : (read[j] # None /\ read[j].root = PageRoot(s)) => read[j].n < PageNumber(s)
    BY <2>3, <2>4, <2>6
  <2> QED
    BY <1>4, <2>7, <2>8 DEF p
<1> QED
  BY <1>5, <1>6

\* What keepPage stores, and the page before it is spent.
LEMMA KeptFacts ==
    ASSUME IInv, NEW s \in Sends, Following(s), NEW more \in BOOLEAN
    PROVE  /\ KeepPage(s, more) \in [Ids -> PageRecords \cup {None}]
           /\ KeepPage(s, more)[cur[s]] = IF more THEN NextPage(s) ELSE None
           /\ \A i \in Ids : i # cur[s] =>
                KeepPage(s, more)[i] = IF i = req[s].nextOf THEN None ELSE pages[i]
           /\ NextPage(s) # None /\ ~NextPage(s).reading
           /\ NextPage(s).root = PageRoot(s) /\ NextPage(s).n = PageNumber(s) + 1
           /\ cur[s] # req[s].nextOf
           /\ [root |-> PageRoot(s), n |-> PageNumber(s), more |-> more] \in ReadRecords
           /\ [root |-> PageRoot(s), n |-> PageNumber(s), more |-> more] # None
<1>1. CallOf(s) /\ cur[s] \in Ids /\ req[s].op \in DOMAIN Op /\ req[s].asset \in Assets
      /\ req[s].subject \in Subjects /\ req[s].nextOf \in Nat /\ seq \in Nat
  BY CallFacts DEF Following
<1>2. cur[s] # req[s].nextOf
  BY <1>1 DEF CallOf
<1>3. PageNumber(s) \in Nat /\ PageRoot(s) \in Ids /\ pages[cur[s]] = None
  BY ListFacts, ConstantsAssumption DEF IInv, Typed, ConstantsAssumption, Ids
<1>4. NextPage(s) \in PageRecords
  BY <1>1, <1>3 DEF NextPage, PageRecords
<1>5. NextPage(s) # None /\ ~NextPage(s).reading
      /\ NextPage(s).root = PageRoot(s) /\ NextPage(s).n = PageNumber(s) + 1
  BY <1>4, NoneAssumption DEF NextPage, NoneAssumption
<1>6. pages \in [Ids -> PageRecords \cup {None}]
  BY DEF IInv, Typed
<1>7. KeepPage(s, more) \in [Ids -> PageRecords \cup {None}]
  BY <1>4, <1>6 DEF KeepPage
<1>8. [root |-> PageRoot(s), n |-> PageNumber(s), more |-> more] \in ReadRecords
  BY <1>3 DEF ReadRecords
<1>9. [root |-> PageRoot(s), n |-> PageNumber(s), more |-> more] # None
  BY <1>8, NoneAssumption DEF NoneAssumption
<1>10. KeepPage(s, more)[cur[s]] = IF more THEN NextPage(s) ELSE None
  BY <1>1, <1>2, <1>3 DEF KeepPage
<1>11. \A i \in Ids : i # cur[s] => KeepPage(s, more)[i] = IF i = req[s].nextOf THEN None ELSE pages[i]
  BY DEF KeepPage
<1> QED
  BY <1>2, <1>5, <1>7, <1>8, <1>9, <1>10, <1>11

\* A list's page is read: the next is stored and the one before is spent, in
\* one step, so the list goes on from one place.
LEMMA PagesRead ==
    ASSUME IInv, NEW s \in Sends, Moves(s, "done"), Following(s), NEW more \in BOOLEAN,
           pages' = KeepPage(s, more),
           read' = [read EXCEPT ![cur[s]] = [root |-> PageRoot(s), n |-> PageNumber(s), more |-> more]]
    PROVE  Stored' /\ Rooted' /\ Unanswered' /\ Followed' /\ PagesFollowOnce'
<1> DEFINE c == cur[s]
           p == req[s].nextOf
           R == PageRoot(s)
           N == PageNumber(s)
<1>1. /\ c \in 1 .. seq /\ c \in Ids /\ c # p /\ N \in Nat /\ R \in 1 .. seq
      /\ read[c] = None /\ pages[c] = None
      /\ p # 0 => (p \in 1 .. seq /\ p \in Ids)
  BY CallFacts, ListFacts, KeptFacts DEF Following
<1>2. \A i \in 1 .. seq : i \in Ids
  BY ConstantsAssumption DEF IInv, Typed, Ids, ConstantsAssumption
<1>3. /\ read'[c] # None /\ read'[c].root = R /\ read'[c].n = N /\ read'[c].more = more
      /\ \A i \in Ids : i # c => read'[i] = read[i]
  <2>1. read' = [read EXCEPT ![c] = [root |-> R, n |-> N, more |-> more]] /\ read \in [Ids -> ReadRecords \cup {None}]
    BY DEF IInv, Typed
  <2>2. [root |-> R, n |-> N, more |-> more] # None
    BY KeptFacts
  <2> QED
    BY <1>1, <2>1, <2>2
<1>4. /\ more => (pages'[c] # None /\ ~pages'[c].reading /\ pages'[c].root = R /\ pages'[c].n = N + 1)
      /\ ~more => pages'[c] = None
      /\ \A i \in Ids : (i # c /\ i # p) => pages'[i] = pages[i]
      /\ p # 0 => pages'[p] = None
  BY <1>1, KeptFacts
<1>5. /\ \A j \in 1 .. seq : (read[j] # None /\ read[j].root = R) => read[j].n < N
      /\ \A j \in 1 .. seq : (pages[j] # None /\ pages[j].root = R) => j = p
      /\ p # 0 => (read[p] # None /\ read[p].root = R /\ N = read[p].n + 1)
      /\ R = c \/ read[R] # None
  BY ListFacts
<1>6. \A i \in 1 .. seq : read[i] # None => (read[i].n \in Nat /\ read[i].root \in 1 .. seq)
  BY <1>2 DEF IInv, Typed, ReadRecords, Rooted
<1> HIDE DEF c, p, R, N
<1>7. Stored'
  <2> SUFFICES ASSUME NEW i \in 1 .. seq, pages'[i] # None
               PROVE  /\ read'[i] # None
                      /\ pages'[i].root = read'[i].root /\ pages'[i].n = read'[i].n + 1
                      /\ \A j \in 1 .. seq :
                            (read'[j] # None /\ read'[j].root = pages'[i].root) => read'[j].n < pages'[i].n
    BY DEF Stored, Moves
  <2>1. CASE i = c
    <3>1. ASSUME NEW j \in 1 .. seq, read'[j] # None, read'[j].root = R
          PROVE  read'[j].n < N + 1
      <4>1. CASE j = c
        BY <1>1, <1>3, <4>1
      <4>2. CASE j # c
        <5>1. read'[j] = read[j]
          BY <1>2, <1>3, <4>2
        <5>2. read[j].n < N /\ read[j].n \in Nat
          BY <1>5, <1>6, <3>1, <5>1
        <5> QED
          BY <1>1, <5>1, <5>2
      <4> QED
        BY <4>1, <4>2
    <3> QED
      BY <1>3, <1>4, <2>1, <3>1
  <2>2. CASE i # c
    <3>1. i # p /\ pages'[i] = pages[i] /\ read'[i] = read[i]
      BY <1>2, <1>3, <1>4, <2>2
    <3>2. /\ read[i] # None /\ pages[i].root = read[i].root /\ pages[i].n = read[i].n + 1
          /\ \A j \in 1 .. seq : (read[j] # None /\ read[j].root = pages[i].root) => read[j].n < pages[i].n
      BY <3>1 DEF IInv, Stored
    <3>3. pages[i].root # R
      BY <1>5, <3>1
    <3>4. \A j \in 1 .. seq : j # c => read'[j] = read[j]
      BY <1>2, <1>3
    <3> QED
      BY <1>3, <3>1, <3>2, <3>3, <3>4
  <2> QED
    BY <2>1, <2>2
<1>8. Rooted'
  <2> SUFFICES ASSUME NEW i \in 1 .. seq, read'[i] # None
               PROVE  read'[i].root \in 1 .. seq /\ read'[read'[i].root] # None
    BY DEF Rooted, Moves
  <2>1. \A j \in 1 .. seq : read[j] # None => read'[j] # None
    BY <1>2, <1>3
  <2>2. CASE i = c
    BY <1>1, <1>3, <1>5, <2>1, <2>2
  <2>3. CASE i # c
    <3>1. read'[i] = read[i]
      BY <1>2, <1>3, <2>3
    <3> QED
      BY <2>1, <3>1 DEF IInv, Rooted
  <2> QED
    BY <2>2, <2>3
<1>9. PagesFollowOnce'
  <2>1. ASSUME NEW i \in 1 .. seq, NEW j \in 1 .. seq, read'[i] # None, read'[j] # None, i # j,
               read'[i].root = read'[j].root, read'[i].n = read'[j].n
        PROVE  FALSE
    <3>1. CASE i = c
      <4>1. read'[j] = read[j]
        BY <1>2, <1>3, <2>1, <3>1
      <4>2. read[j].n < N /\ read[j].n = N
        BY <1>3, <1>5, <2>1, <3>1, <4>1
      <4> QED
        BY <1>1, <4>2
    <3>2. CASE j = c
      <4>1. read'[i] = read[i]
        BY <1>2, <1>3, <2>1, <3>2
      <4>2. read[i].n < N /\ read[i].n = N
        BY <1>3, <1>5, <2>1, <3>2, <4>1
      <4> QED
        BY <1>1, <4>2
    <3>3. CASE i # c /\ j # c
      <4>1. read'[i] = read[i] /\ read'[j] = read[j]
        BY <1>2, <1>3, <3>3
      <4> QED
        BY <2>1, <4>1 DEF IInv, PagesFollowOnce
    <3> QED
      BY <3>1, <3>2, <3>3
  <2>2. ASSUME NEW i \in 1 .. seq, read'[i] # None, read'[i].more
        PROVE  \/ pages'[i] # None
               \/ \E j \in 1 .. seq : read'[j] # None /\ read'[j].root = read'[i].root /\ read'[j].n = read'[i].n + 1
    <3>1. CASE i = c
      BY <1>3, <1>4, <2>2, <3>1
    <3>2. CASE i # c
      <4>1. read'[i] = read[i]
        BY <1>2, <1>3, <3>2
      <4>2. CASE i = p
        <5>1. i # 0
          OBVIOUS
        <5> QED
          BY <1>1, <1>3, <1>5, <4>1, <4>2, <5>1
      <4>3. CASE i # p /\ pages[i] # None
        BY <1>2, <1>4, <3>2, <4>3
      <4>4. CASE pages[i] = None
        <5>1. PICK j \in 1 .. seq : read[j] # None /\ read[j].root = read[i].root /\ read[j].n = read[i].n + 1
          BY <2>2, <4>1, <4>4 DEF IInv, PagesFollowOnce
        <5>2. j # c
          BY <1>1, <5>1
        <5>3. read'[j] = read[j]
          BY <1>2, <1>3, <5>2
        <5> QED
          BY <4>1, <5>1, <5>3
      <4> QED
        BY <4>2, <4>3, <4>4
    <3> QED
      BY <3>1, <3>2
  <2>3. seq' = seq
    BY DEF Moves
  <2> QED
    BY <2>1, <2>2, <2>3 DEF PagesFollowOnce
<1>10. \A t \in Sends : pc'[t] = IF t = s THEN "done" ELSE pc[t]
  BY DEF Moves, IInv, Typed
<1>11. \A t \in Sends : Following(t)' <=> (t # s /\ Following(t))
  BY <1>10 DEF Following
<1>12. Unanswered'
  <2> SUFFICES ASSUME NEW t \in Sends, pc'[t] \in {"admit", "resolve", "throttle", "flight"}
               PROVE  read'[cur[t]] = None
    BY DEF Unanswered, Moves
  <2>1. t # s /\ pc[t] = pc'[t]
    BY <1>10
  <2>2. cur[t] # c /\ cur[t] \in Ids
    BY <2>1, CallFacts DEF CallOf, Following, c
  <2>3. read'[cur[t]] = read[cur[t]]
    BY <1>3, <2>2
  <2> QED
    BY <2>1, <2>3 DEF IInv, Unanswered
<1>13. ASSUME NEW t \in Sends, Following(t)'
       PROVE  IF req[t].nextOf = 0 THEN prev'[t] = None
              ELSE LET q == pages'[req[t].nextOf] IN
                   /\ q # None /\ q.reading
                   /\ prev'[t] # None /\ prev'[t].root = q.root /\ prev'[t].n = q.n
  <2>1. t # s /\ Following(t) /\ prev'[t] = prev[t]
    BY <1>11, <1>13 DEF Moves
  <2>2. CASE req[t].nextOf = 0
    BY <2>1, <2>2 DEF IInv, Followed
  <2>3. CASE req[t].nextOf # 0
    <3>1. req[t].nextOf \in Ids
      BY <2>1, <2>3, CallFacts DEF Following
    <3>2. req[t].nextOf # p
      BY <2>1, <2>3 DEF IInv, Followed, p
    <3>3. LET q == pages[req[t].nextOf] IN
          /\ q # None /\ q.reading
          /\ prev[t] # None /\ prev[t].root = q.root /\ prev[t].n = q.n
      BY <2>1, <2>3 DEF IInv, Followed
    <3>4. pages'[req[t].nextOf] = pages[req[t].nextOf]
      BY <1>1, <1>4, <3>1, <3>2, <3>3
    <3> QED
      BY <2>1, <2>3, <3>3, <3>4
  <2> QED
    BY <2>2, <2>3
<1>14. ASSUME NEW t \in Sends, NEW u \in Sends, Following(t)', Following(u)',
              req[t].nextOf = req[u].nextOf, req[t].nextOf # 0
       PROVE  t = u
  BY <1>11, <1>14 DEF IInv, Followed
<1>15. ASSUME NEW i \in Ids, pages'[i] # None, pages'[i].reading
       PROVE  \E t \in Sends : Following(t)' /\ req[t].nextOf = i
  <2>1. i # c /\ i # p
    BY <1>4, <1>15 DEF Ids
  <2>2. pages[i] # None /\ pages[i].reading
    BY <1>4, <1>15, <2>1
  <2>3. PICK t \in Sends : Following(t) /\ req[t].nextOf = i
    BY <2>2 DEF IInv, Followed
  <2>4. t # s
    BY <2>1, <2>3 DEF p
  <2> QED
    BY <1>11, <2>3, <2>4
<1>16. Followed'
  BY <1>13, <1>14, <1>15 DEF Followed, Moves
<1> QED
  BY <1>7, <1>8, <1>9, <1>12, <1>16

-----------------------------------------------------------------------------
(* Lines, results and the pending of an attempt.                           *)

\* A write of the audit log adds its line or is counted as failed.
LEMMA RecordFacts ==
    ASSUME Typed, NEW i \in Ids, NEW event \in Events, NEW ok \in WriteOutcomes, Record(i, event, ok)
    PROVE  /\ ok \in BOOLEAN
           /\ lines' \in [Ids -> SUBSET Events] /\ faults' \in 0 .. MaxFaults
           /\ lines'[i] = IF ok THEN lines[i] \cup {event} ELSE lines[i]
           /\ \A j \in Ids : j # i => lines'[j] = lines[j]
           /\ AuditKept' => (AuditKept /\ ok)
<1>1. lines \in [Ids -> SUBSET Events] /\ faults \in 0 .. MaxFaults /\ MaxFaults \in Nat
  BY ConstantsAssumption DEF Typed, ConstantsAssumption
<1>2. ok \in BOOLEAN /\ (~ok => faults < MaxFaults)
  BY DEF WriteOutcomes
<1>3. CASE ok
  <2>1. lines' = [lines EXCEPT ![i] = @ \cup {event}] /\ faults' = faults
    BY <1>3 DEF Record
  <2> QED
    BY <1>1, <1>2, <1>3, <2>1 DEF AuditKept
<1>4. CASE ~ok
  <2>1. lines' = lines /\ faults' = faults + 1
    BY <1>4 DEF Record
  <2>2. faults' \in 0 .. MaxFaults /\ faults' # 0
    BY <1>1, <1>2, <1>4, <2>1
  <2> QED
    BY <1>1, <1>2, <1>4, <2>1, <2>2 DEF AuditKept
<1> QED
  BY <1>2, <1>3, <1>4

\* A call that returns has its result and keeps nothing pending.
LEMMA ReturnFacts ==
    ASSUME Typed, NEW s \in Sends, NEW r, Return(s, r)
    PROVE  /\ pc' = [pc EXCEPT ![s] = "done"] /\ pc' \in [Sends -> PCs]
           /\ res'[s] = r /\ rt'[s] = None
           /\ \A t \in Sends : t # s =>
                 /\ res'[t] = res[t] /\ rt'[t] = rt[t]
                 /\ prev'[t] = prev[t] /\ depth'[t] = depth[t] /\ who'[t] = who[t]
           /\ res' = [t \in Sends |-> res'[t]]
           /\ rt' \in [Sends -> RetryNames \cup {None}]
           /\ prev' \in [Sends -> PageRecords \cup {None}]
           /\ depth' \in [Sends -> 0 .. MaxRedirects]
           /\ who' \in [Sends -> {None, account}]
<1>1. res = [t \in Sends |-> res[t]] /\ res' = [res EXCEPT ![s] = r]
  BY DEF Typed, Return
<1>2. res' = [t \in Sends |-> IF t = s THEN r ELSE res[t]]
  BY <1>1
<1>3. res'[s] = r /\ (\A t \in Sends : t # s => res'[t] = res[t]) /\ res' = [t \in Sends |-> res'[t]]
  BY <1>2
<1>4. pc' = [pc EXCEPT ![s] = "done"] /\ pc' \in [Sends -> PCs]
  BY DEF Typed, Return, PCs
<1>5. /\ rt' \in [Sends -> RetryNames \cup {None}] /\ rt'[s] = None
      /\ \A t \in Sends : t # s => rt'[t] = rt[t]
  BY DEF Typed, Return
<1>6. 0 \in 0 .. MaxRedirects
  BY ConstantsAssumption DEF ConstantsAssumption
<1>7. /\ prev' \in [Sends -> PageRecords \cup {None}]
      /\ depth' \in [Sends -> 0 .. MaxRedirects]
      /\ who' \in [Sends -> {None, account}]
      /\ \A t \in Sends : t # s => (prev'[t] = prev[t] /\ depth'[t] = depth[t] /\ who'[t] = who[t])
  BY <1>6 DEF Typed, Return, ForgetPending
<1> QED
  BY <1>3, <1>4, <1>5, <1>7

\* The rules that halt a request.
HaltRules ==
    {"refused:bind", "refused:redirect", "refused:redirect_depth", "refused:out_of_scope",
     "refused:excluded", "refused:level", "refused:entry_point", "refused:window",
     "refused:no_credentials", "refused:deadline", "refused:rate_limit", "refused:canceled",
     "unavailable:address"}

\* A request that is halted has its one line, and its page is free.
LEMMA HaltKeeps ==
    ASSUME IInv, NEW s \in Sends, NEW rule \in HaltRules, Halted(s, rule),
           pc[s] \in {"admit", "resolve", "throttle"},
           rule = "refused:rate_limit" => prov(s) \in stopped,
           IF Following(s) THEN pages' = Unread(req[s].nextOf, pages) ELSE pages' = pages,
           UNCHANGED <<seq, stopped, redirects, kept, principal, req, cur, n, sent,
                       deadline, over, canceled, account, began, read>>
    PROVE  IInv'
<1> DEFINE i == cur[s]
<1>1. PICK decision : /\ Return(s, Ended(decision, i))
                      /\ decision \in HaltRules \cup {"unavailable:redirect_out_of_scope",
                                                      "unavailable:redirect_not_entry_point"}
                      /\ decision = "refused:rate_limit" => prov(s) \in stopped
                      /\ \E ok \in WriteOutcomes : Record(i, "refused", ok)
  BY DEF Halted, HaltRules
<1>2. PICK ok \in WriteOutcomes : Record(i, "refused", ok)
  BY <1>1
<1>3. /\ CallOf(s) /\ i \in Ids /\ i \in 1 .. seq /\ seq \in Nat /\ Typed
  BY CallFacts DEF IInv
<1>4. /\ ok \in BOOLEAN
      /\ lines' \in [Ids -> SUBSET Events] /\ faults' \in 0 .. MaxFaults
      /\ lines'[i] = IF ok THEN lines[i] \cup {"refused"} ELSE lines[i]
      /\ \A j \in Ids : j # i => lines'[j] = lines[j]
      /\ AuditKept' => (AuditKept /\ ok)
  BY <1>2, <1>3, RecordFacts DEF Events
<1>5. /\ pc' = [pc EXCEPT ![s] = "done"] /\ pc' \in [Sends -> PCs]
      /\ res'[s] = Ended(decision, i) /\ rt'[s] = None
      /\ \A t \in Sends : t # s =>
            /\ res'[t] = res[t] /\ rt'[t] = rt[t]
            /\ prev'[t] = prev[t] /\ depth'[t] = depth[t] /\ who'[t] = who[t]
      /\ res' = [t \in Sends |-> res'[t]]
      /\ rt' \in [Sends -> RetryNames \cup {None}]
      /\ prev' \in [Sends -> PageRecords \cup {None}]
      /\ depth' \in [Sends -> 0 .. MaxRedirects]
      /\ who' \in [Sends -> {None, account}]
  BY <1>1, <1>3, ReturnFacts
<1>6. lines[i] = {}
  BY DEF IInv, InProgressLines
<1>7. res'[s].decision = decision /\ res'[s].id = i
  BY <1>5 DEF Ended
<1>8. Moves(s, "done")
  BY <1>4, <1>5 DEF Moves, PCs
<1>9. Stored' /\ Rooted' /\ Unanswered' /\ Followed' /\ PagesFollowOnce'
  BY <1>8, PagesLeave
<1>10. pages' \in [Ids -> PageRecords \cup {None}] /\ \A j \in Ids : j > seq => pages'[j] = None
  <2>1. pages \in [Ids -> PageRecords \cup {None}] /\ \A j \in Ids : j > seq => pages[j] = None
    BY <1>3 DEF Typed, IInv, IdsKnown, Ids
  <2> QED
    BY <1>3, <2>1, UnreadFacts
<1>11. Typed'
  BY <1>4, <1>5, <1>10 DEF IInv, Typed
<1>12. Calls' /\ IdsKnown'
  BY <1>5, <1>7, <1>8, <1>10, MovesBase
<1>13. InProgressLines' /\ EndedLines'
  BY <1>1, <1>4, <1>6, <1>7, <1>8, MovesLines DEF Shapes, Finals, HaltRules
<1>14. AdmittedHolds' /\ BeganHolds' /\ ScopeHolds' /\ StopHonoured'
  BY <1>4, <1>6, <1>8, MovesAdmitted
<1>15. SentCounts' /\ ReuseSamePrincipal' /\ LimitStops'
  <2>1. sent'[s] <=> (sent[s] \/ "send" \in lines'[i])
    BY <1>4, <1>6 DEF IInv, Typed
  <2>2. ~Limited(s)' /\ (res'[s].decision = "refused:rate_limit" => prov(s) \in stopped')
    BY <1>1, <1>7 DEF Limited, HaltRules
  <2> QED
    BY <1>4, <1>6, <1>8, <2>1, <2>2, MovesCounts
<1> QED
  BY <1>9, <1>11, <1>12, <1>13, <1>14, <1>15 DEF IInv

-----------------------------------------------------------------------------
(* The steps of an attempt before its answer.                              *)

\* What an attempt that no check halts has shown.
LEMMA AdmitFacts ==
    ASSUME IInv, NEW s \in Sends, pc[s] = "admit"
    PROVE  /\ AdmitHalt(s) # "" => AdmitHalt(s) \in HaltRules
           /\ AdmitHalt(s) = "refused:rate_limit" => prov(s) \in stopped
           /\ AdmitHalt(s) = "" =>
                /\ req[s].nextOf # 0 => Mine(s) /\ ~Busy(s)
                /\ req[s].redirectOf # 0 => (HopGenuine(s) /\ ~(Hop(s).depth + 1 > MaxRedirects))
                /\ req[s].asset \in Under[req[s].subject] /\ Place[req[s].subject] = "in"
                /\ op(s).level = "observe" \/ Ceiling = "probe"
                /\ ~deadline /\ prov(s) \notin stopped
<1>1. CallOf(s) /\ req[s].subject \in Subjects /\ op(s).level \in {"observe", "probe"}
  BY CallFacts
<1>2. Place[req[s].subject] \in {"in", "out_of_scope", "excluded", "entry_point"}
  BY <1>1, ConstantsAssumption DEF ConstantsAssumption
<1>3. AdmitHalt(s) # "" => AdmitHalt(s) \in HaltRules
  BY DEF AdmitHalt, HaltRules
<1>4. AdmitHalt(s) = "refused:rate_limit" => prov(s) \in stopped
  BY DEF AdmitHalt
<1>5. ASSUME AdmitHalt(s) = ""
      PROVE  /\ req[s].nextOf # 0 => Mine(s) /\ ~Busy(s)
             /\ req[s].redirectOf # 0 => (HopGenuine(s) /\ ~(Hop(s).depth + 1 > MaxRedirects))
             /\ req[s].asset \in Under[req[s].subject]
             /\ Place[req[s].subject] \notin {"out_of_scope", "excluded"}
             /\ ~(web(s) /\ Place[req[s].subject] = "entry_point")
             /\ ~(probe(s) /\ Ceiling # "probe")
             /\ ~deadline /\ prov(s) \notin stopped
  BY <1>5 DEF AdmitHalt
<1>6. ASSUME AdmitHalt(s) = ""
      PROVE  Place[req[s].subject] = "in" /\ (op(s).level = "observe" \/ Ceiling = "probe")
  BY <1>1, <1>2, <1>5, <1>6 DEF CallOf, probe
<1> QED
  BY <1>3, <1>4, <1>5, <1>6

\* Admit: halted, or on to resolve with the page marked and copied.
LEMMA AdmitKeeps ==
    ASSUME IInv, NEW s \in Sends, Admit(s)
    PROVE  IInv'
<1>1. pc[s] = "admit" /\ ~Following(s)
  BY DEF Admit, Following
<1>2. CASE AdmitHalt(s) # ""
  <2>1. AdmitHalt(s) \in HaltRules /\ (AdmitHalt(s) = "refused:rate_limit" => prov(s) \in stopped)
    BY <1>1, <1>2, AdmitFacts
  <2>2. /\ Halted(s, AdmitHalt(s)) /\ pages' = pages
        /\ UNCHANGED <<seq, stopped, redirects, kept, principal, req, cur, n, sent,
                       deadline, over, canceled, account, began, read>>
    BY <1>2 DEF Admit
  <2> QED
    BY <1>1, <2>1, <2>2, HaltKeeps
<1>3. CASE AdmitHalt(s) = ""
  <2>1. /\ pc' = [pc EXCEPT ![s] = "resolve"]
        /\ pages' = IF req[s].nextOf = 0 THEN pages ELSE [pages EXCEPT ![req[s].nextOf].reading = TRUE]
        /\ prev' = [prev EXCEPT ![s] = IF req[s].nextOf = 0 THEN None ELSE pages[req[s].nextOf]]
        /\ depth' = [depth EXCEPT ![s] = IF req[s].redirectOf = 0 THEN 0 ELSE Hop(s).depth + 1]
        /\ principal' = IF op(s).class = "principal" THEN None ELSE principal
        /\ who' = [who EXCEPT ![s] = IF op(s).auth THEN principal' ELSE None]
        /\ UNCHANGED <<lines, faults, res, rt, seq, stopped, redirects, kept, req, cur, n, sent,
                       deadline, over, canceled, account, began, read>>
    BY <1>3 DEF Admit
  <2>2. /\ req[s].nextOf # 0 => Mine(s) /\ ~Busy(s)
        /\ req[s].redirectOf # 0 => (HopGenuine(s) /\ ~(Hop(s).depth + 1 > MaxRedirects))
        /\ req[s].asset \in Under[req[s].subject] /\ Place[req[s].subject] = "in"
        /\ op(s).level = "observe" \/ Ceiling = "probe"
        /\ ~deadline /\ prov(s) \notin stopped
    BY <1>1, <1>3, AdmitFacts
  <2>3. /\ CallOf(s) /\ cur[s] \in Ids /\ cur[s] \in 1 .. seq /\ seq \in Nat
        /\ req[s].nextOf # 0 => req[s].nextOf \in 1 .. seq /\ req[s].nextOf \in Ids
        /\ req[s].redirectOf # 0 => req[s].redirectOf \in 1 .. seq /\ req[s].redirectOf \in Ids
    BY <1>1, CallFacts
  <2>4. MaxRedirects \in Nat /\ MaxIds \in Nat
    BY ConstantsAssumption DEF ConstantsAssumption
  <2>5. req[s].redirectOf # 0 =>
          /\ Hop(s) # None /\ Hop(s).depth \in 0 .. MaxRedirects
          /\ Hop(s).depth = began[req[s].redirectOf].hops
    <3>1. req[s].redirectOf # 0 => (Hop(s) # None /\ Hop(s) \in HopRecords)
      BY <2>2, <2>3 DEF Hop, HopGenuine, IInv, Typed
    <3> QED
      BY <2>3, <3>1 DEF Hop, HopRecords, IInv, BeganHolds
  <2>6. /\ depth'[s] = began[cur[s]].hops
        /\ depth' \in [Sends -> 0 .. MaxRedirects]
    <3>1. (IF req[s].redirectOf = 0 THEN 0 ELSE Hop(s).depth + 1) \in 0 .. MaxRedirects
      BY <2>2, <2>4, <2>5
    <3> QED
      BY <2>1, <2>3, <2>5, <3>1 DEF CallOf, IInv, Typed
  <2>7. /\ principal' \in {None, account}
        /\ who' \in [Sends -> {None, account}]
        /\ prev' \in [Sends -> PageRecords \cup {None}]
        /\ pc' \in [Sends -> PCs]
    <3>1. req[s].nextOf # 0 => pages[req[s].nextOf] \in PageRecords \cup {None}
      BY <2>3 DEF IInv, Typed
    <3> QED
      BY <2>1, <3>1 DEF IInv, Typed, PCs
  <2>8. Moves(s, "resolve")
    BY <1>1, <2>1 DEF Moves, PCs, IInv, Typed
  <2>9. prev'[s] = IF req[s].nextOf = 0 THEN None ELSE pages[req[s].nextOf]
    BY <2>1 DEF IInv, Typed
  <2>10. Stored' /\ Rooted' /\ Unanswered' /\ Followed' /\ PagesFollowOnce'
    BY <1>1, <2>1, <2>2, <2>8, <2>9, PagesPass
  <2>11. pages' \in [Ids -> PageRecords \cup {None}] /\ \A j \in Ids : j > seq => pages'[j] = None
    <3>1. pages \in [Ids -> PageRecords \cup {None}] /\ \A j \in Ids : j > seq => pages[j] = None
      BY <2>3 DEF Typed, IInv, IdsKnown, Ids
    <3>2. CASE req[s].nextOf = 0
      BY <2>1, <3>1, <3>2
    <3>3. CASE req[s].nextOf # 0
      <4>1. pages[req[s].nextOf] \in PageRecords
        BY <2>2, <2>3, <3>1, <3>3 DEF Mine
      <4>2. [pages[req[s].nextOf] EXCEPT !.reading = TRUE] \in PageRecords
        BY <4>1, MarkFacts
      <4>3. pages' = [pages EXCEPT ![req[s].nextOf] = [pages[req[s].nextOf] EXCEPT !.reading = TRUE]]
        BY <2>1, <3>1, <3>3
      <4>4. ASSUME NEW j \in Ids, j > seq
            PROVE  pages'[j] = None
        <5>1. j # req[s].nextOf
          BY <2>3, <3>3, <4>4
        <5> QED
          BY <3>1, <4>3, <4>4, <5>1
      <4> QED
        BY <3>1, <4>2, <4>3, <4>4
    <3> QED
      BY <3>2, <3>3
  <2>12. Typed'
    BY <2>1, <2>6, <2>7, <2>11 DEF IInv, Typed
  <2>13. Calls' /\ IdsKnown'
    BY <1>1, <2>1, <2>3, <2>8, <2>11, MovesBase DEF CallOf
  <2>14. lines[cur[s]] = {}
    BY <1>1 DEF IInv, InProgressLines
  <2>15. InProgressLines' /\ EndedLines'
    BY <2>1, <2>8, <2>14, MovesLines DEF Shapes, AuditKept
  <2>16. Admitted(s)'
    <3>1. ~began[cur[s]].late /\ ~began[cur[s]].stopped
      BY <2>2, <2>3 DEF IInv, BeganHolds, CallOf
    <3>2. op(s)' = op(s)
      BY <2>1 DEF op
    <3> QED
      BY <2>1, <2>2, <2>6, <3>1, <3>2 DEF Admitted
  <2>17. AdmittedHolds' /\ BeganHolds' /\ ScopeHolds' /\ StopHonoured'
    BY <2>1, <2>8, <2>14, <2>16, MovesAdmitted
  <2>18. SentCounts' /\ ReuseSamePrincipal' /\ LimitStops'
    BY <2>1, <2>8, <2>14, MovesCounts
  <2> QED
    BY <2>10, <2>12, <2>13, <2>15, <2>17, <2>18 DEF IInv
<1> QED
  BY <1>2, <1>3

\* Resolve: the name or an address of it is refused.
LEMMA ResolveFailsKeeps ==
    ASSUME IInv, NEW s \in Sends, ResolveFails(s)
    PROVE  IInv'
<1>1. PICK rule \in ResolveHalts : Halted(s, rule)
  BY DEF ResolveFails
<1>2. /\ pc[s] = "resolve" /\ pages' = Unread(req[s].nextOf, pages)
      /\ UNCHANGED <<seq, stopped, redirects, kept, principal, req, cur, n, sent,
                     deadline, over, canceled, account, began, read>>
  BY DEF ResolveFails
<1> QED
  BY <1>1, <1>2, HaltKeeps DEF ResolveHalts, HaltRules, Following

\* Throttle: the wait was cut, or outlasted the window.
LEMMA ThrottleFailsKeeps ==
    ASSUME IInv, NEW s \in Sends, ThrottleFails(s)
    PROVE  IInv'
<1>1. PICK rule \in {"refused:window", "refused:deadline", "refused:canceled"} : Halted(s, rule)
  BY DEF ThrottleFails
<1>2. /\ pc[s] = "throttle" /\ pages' = Unread(req[s].nextOf, pages)
      /\ UNCHANGED <<seq, stopped, redirects, kept, principal, req, cur, n, sent,
                     deadline, over, canceled, account, began, read>>
  BY DEF ThrottleFails
<1> QED
  BY <1>1, <1>2, HaltKeeps DEF HaltRules, Following

\* A step that only goes on to the next stage of the pipeline.
LEMMA ResolvedKeeps ==
    ASSUME IInv, NEW s \in Sends, Resolved(s)
    PROVE  IInv'
<1>1. /\ pc[s] = "resolve" /\ pc' = [pc EXCEPT ![s] = "throttle"]
      /\ UNCHANGED <<gateVars, req, cur, n, prev, depth, who, rt, res, sent, envVars, began, read>>
  BY DEF Resolved
<1>2. Moves(s, "throttle")
  BY <1>1 DEF Moves, PCs, gateVars, envVars
<1>3. CallOf(s) /\ cur[s] \in 1 .. seq /\ seq \in Nat
  BY <1>1, CallFacts
<1>4. Stored' /\ Rooted' /\ Unanswered' /\ Followed' /\ PagesFollowOnce'
  BY <1>1, <1>2, PagesStay DEF Following, gateVars
<1>5. Typed'
  BY <1>1 DEF IInv, Typed, PCs, gateVars, envVars
<1>6. \A j \in Ids : j > seq => pages'[j] = None
  BY <1>1, <1>3 DEF IInv, IdsKnown, Ids, gateVars
<1>7. Calls' /\ IdsKnown'
  BY <1>1, <1>2, <1>3, <1>6, MovesBase DEF CallOf
<1>8. lines[cur[s]] = {} /\ Admitted(s)
  BY <1>1 DEF IInv, InProgressLines, AdmittedHolds
<1>9. lines' = lines /\ faults' = faults /\ stopped' = stopped /\ redirects' = redirects
      /\ deadline' = deadline /\ sent' = sent
  BY <1>1 DEF gateVars, envVars
<1>10. InProgressLines' /\ EndedLines'
  BY <1>2, <1>8, <1>9, MovesLines DEF Shapes, AuditKept
<1>11. Admitted(s)'
  BY <1>1, <1>8 DEF Admitted, op
<1>12. AdmittedHolds' /\ BeganHolds' /\ ScopeHolds' /\ StopHonoured'
  BY <1>2, <1>8, <1>9, <1>11, MovesAdmitted
<1>13. SentCounts' /\ ReuseSamePrincipal' /\ LimitStops'
  BY <1>2, <1>8, <1>9, MovesCounts
<1> QED
  BY <1>4, <1>5, <1>7, <1>10, <1>12, <1>13 DEF IInv

\* A reused answer is the account's: it has an identity, so its op is no list
\* and the credential, where the op takes one, was resolved.
LEMMA AnswerFromPriorKeeps ==
    ASSUME IInv, NEW s \in Sends, AnswerFromPrior(s)
    PROVE  IInv'
<1> DEFINE i == cur[s]
<1>1. PICK ok \in WriteOutcomes :
        /\ Record(i, "reused", ok)
        /\ Return(s, Ended(IF ok THEN "reused" ELSE "unavailable:audit_failed", i))
  BY DEF AnswerFromPrior
<1>2. /\ pc[s] = "resolve" /\ Identity(s) \in Prior
      /\ UNCHANGED <<seq, stopped, pages, redirects, kept, principal, req, cur, n, sent,
                     deadline, over, canceled, account, began, read>>
  BY DEF AnswerFromPrior
<1>3. /\ CallOf(s) /\ i \in Ids /\ i \in 1 .. seq /\ seq \in Nat /\ Typed
  BY <1>2, CallFacts DEF IInv
<1>4. /\ ok \in BOOLEAN
      /\ lines' \in [Ids -> SUBSET Events] /\ faults' \in 0 .. MaxFaults
      /\ lines'[i] = IF ok THEN lines[i] \cup {"reused"} ELSE lines[i]
      /\ \A j \in Ids : j # i => lines'[j] = lines[j]
      /\ AuditKept' => (AuditKept /\ ok)
  BY <1>1, <1>3, RecordFacts DEF Events
<1>5. /\ pc' = [pc EXCEPT ![s] = "done"] /\ pc' \in [Sends -> PCs]
      /\ res'[s] = Ended(IF ok THEN "reused" ELSE "unavailable:audit_failed", i) /\ rt'[s] = None
      /\ \A t \in Sends : t # s =>
            /\ res'[t] = res[t] /\ rt'[t] = rt[t]
            /\ prev'[t] = prev[t] /\ depth'[t] = depth[t] /\ who'[t] = who[t]
      /\ res' = [t \in Sends |-> res'[t]]
      /\ rt' \in [Sends -> RetryNames \cup {None}]
      /\ prev' \in [Sends -> PageRecords \cup {None}]
      /\ depth' \in [Sends -> 0 .. MaxRedirects]
      /\ who' \in [Sends -> {None, account}]
  BY <1>1, <1>3, ReturnFacts
<1>6. lines[i] = {} /\ Admitted(s)
  BY <1>2 DEF IInv, InProgressLines, AdmittedHolds
<1>7. res'[s].decision = (IF ok THEN "reused" ELSE "unavailable:audit_failed") /\ res'[s].id = i
  BY <1>5 DEF Ended
<1>8. Moves(s, "done")
  BY <1>2, <1>4, <1>5 DEF Moves, PCs
<1>9. op(s).class = "get" /\ (op(s).auth => <<req[s].op, req[s].subject, account>> \in Prior)
  <2>1. Identity(s) # None
    BY <1>2, NoneAssumption DEF NoneAssumption
  <2>2. who[s] \in {None, account}
    BY DEF IInv, Typed
  <2> QED
    BY <1>2, <2>1, <2>2 DEF Identity
<1>10. pages' = Unread(req[s].nextOf, pages)
  <2>1. req[s].nextOf = 0
    BY <1>3, <1>9 DEF CallOf
  <2>2. req[s].nextOf \notin Ids
    BY <2>1 DEF Ids
  <2> QED
    BY <1>2, <1>3, <2>2, UnreadFacts
<1>11. Stored' /\ Rooted' /\ Unanswered' /\ Followed' /\ PagesFollowOnce'
  BY <1>2, <1>8, <1>10, PagesLeave DEF Following
<1>12. \A j \in Ids : j > seq => pages'[j] = None
  BY <1>2, <1>3 DEF IInv, IdsKnown, Ids
<1>13. Typed'
  BY <1>2, <1>4, <1>5 DEF IInv, Typed
<1>14. Calls' /\ IdsKnown'
  BY <1>5, <1>7, <1>8, <1>12, MovesBase
<1>15. InProgressLines' /\ EndedLines'
  BY <1>4, <1>6, <1>7, <1>8, MovesLines DEF Shapes, Finals
<1>16. AdmittedHolds' /\ BeganHolds' /\ ScopeHolds' /\ StopHonoured'
  BY <1>2, <1>4, <1>6, <1>8, MovesAdmitted
<1>17. SentCounts' /\ ReuseSamePrincipal' /\ LimitStops'
  <2>1. ~Limited(s)' /\ res'[s].decision # "refused:rate_limit"
    BY <1>4, <1>7 DEF Limited
  <2>2. sent'[s] <=> (sent[s] \/ "send" \in lines'[i])
    BY <1>2, <1>4, <1>6
  <2> QED
    BY <1>2, <1>4, <1>6, <1>8, <1>9, <2>1, <2>2, MovesCounts
<1> QED
  BY <1>11, <1>13, <1>14, <1>15, <1>16, <1>17 DEF IInv

\* Send: the send line and Result.Sent go together, and a line that cannot be
\* written ends the attempt.
LEMMA SendKeeps ==
    ASSUME IInv, NEW s \in Sends, Send(s)
    PROVE  IInv'
<1> DEFINE i == cur[s]
<1>1. PICK ok \in WriteOutcomes :
        /\ Record(i, "send", ok)
        /\ sent' = [sent EXCEPT ![s] = @ \/ ok]
        /\ IF ok
           THEN /\ pc' = [pc EXCEPT ![s] = "flight"]
                /\ UNCHANGED <<pages, prev, depth, who, res, rt>>
           ELSE /\ Return(s, Ended("unavailable:audit_failed", i))
                /\ pages' = Unread(req[s].nextOf, pages)
  BY DEF Send
<1>2. /\ pc[s] = "throttle"
      /\ UNCHANGED <<seq, stopped, redirects, kept, principal, req, cur, n,
                     deadline, over, canceled, account, began, read>>
  BY DEF Send
<1>3. /\ CallOf(s) /\ i \in Ids /\ i \in 1 .. seq /\ seq \in Nat /\ Typed
  BY <1>2, CallFacts DEF IInv
<1>4. /\ ok \in BOOLEAN
      /\ lines' \in [Ids -> SUBSET Events] /\ faults' \in 0 .. MaxFaults
      /\ lines'[i] = IF ok THEN lines[i] \cup {"send"} ELSE lines[i]
      /\ \A j \in Ids : j # i => lines'[j] = lines[j]
      /\ AuditKept' => (AuditKept /\ ok)
  BY <1>1, <1>3, RecordFacts DEF Events
<1>5. lines[i] = {} /\ Admitted(s)
  BY <1>2 DEF IInv, InProgressLines, AdmittedHolds
<1>6. /\ sent' \in [Sends -> BOOLEAN]
      /\ sent'[s] <=> (sent[s] \/ "send" \in lines'[i])
      /\ \A t \in Sends : t # s => sent'[t] = sent[t]
  <2>1. sent \in [Sends -> BOOLEAN] /\ sent' = [sent EXCEPT ![s] = @ \/ ok]
    BY <1>1 DEF IInv, Typed
  <2>2. sent'[s] = (sent[s] \/ ok) /\ sent' \in [Sends -> BOOLEAN] /\ \A t \in Sends : t # s => sent'[t] = sent[t]
    BY <1>4, <2>1
  <2>3. ok <=> "send" \in lines'[i]
    BY <1>4, <1>5
  <2> QED
    BY <2>2, <2>3
<1>7. CASE ok
  <2>1. /\ pc' = [pc EXCEPT ![s] = "flight"] /\ UNCHANGED <<pages, prev, depth, who, res, rt>>
        /\ lines'[i] = {"send"}
    BY <1>1, <1>4, <1>5, <1>7
  <2>2. Moves(s, "flight")
    BY <1>2, <1>4, <1>6, <2>1 DEF Moves, PCs
  <2>3. Stored' /\ Rooted' /\ Unanswered' /\ Followed' /\ PagesFollowOnce'
    BY <1>2, <2>1, <2>2, PagesStay DEF Following
  <2>4. \A j \in Ids : j > seq => pages'[j] = None
    BY <1>3, <2>1 DEF IInv, IdsKnown, Ids
  <2>5. Typed'
    BY <1>2, <1>4, <1>6, <2>1 DEF IInv, Typed, PCs
  <2>6. Calls' /\ IdsKnown'
    BY <1>2, <1>3, <2>1, <2>2, <2>4, MovesBase DEF CallOf
  <2>7. InProgressLines' /\ EndedLines'
    BY <1>4, <2>1, <2>2, MovesLines DEF Shapes
  <2>8. Admitted(s)'
    BY <1>2, <1>5, <2>1 DEF Admitted, op
  <2>9. AdmittedHolds' /\ BeganHolds' /\ ScopeHolds' /\ StopHonoured'
    BY <1>2, <1>5, <2>2, <2>8, MovesAdmitted
  <2>10. SentCounts' /\ ReuseSamePrincipal' /\ LimitStops'
    BY <1>2, <1>5, <1>6, <2>1, <2>2, MovesCounts
  <2> QED
    BY <2>3, <2>5, <2>6, <2>7, <2>9, <2>10 DEF IInv
<1>8. CASE ~ok
  <2>1. /\ Return(s, Ended("unavailable:audit_failed", i))
        /\ pages' = Unread(req[s].nextOf, pages)
        /\ lines'[i] = {} /\ ~AuditKept'
    BY <1>1, <1>4, <1>5, <1>8
  <2>2. /\ pc' = [pc EXCEPT ![s] = "done"] /\ pc' \in [Sends -> PCs]
        /\ res'[s] = Ended("unavailable:audit_failed", i) /\ rt'[s] = None
        /\ \A t \in Sends : t # s =>
              /\ res'[t] = res[t] /\ rt'[t] = rt[t]
              /\ prev'[t] = prev[t] /\ depth'[t] = depth[t] /\ who'[t] = who[t]
        /\ res' = [t \in Sends |-> res'[t]]
        /\ rt' \in [Sends -> RetryNames \cup {None}]
        /\ prev' \in [Sends -> PageRecords \cup {None}]
        /\ depth' \in [Sends -> 0 .. MaxRedirects]
        /\ who' \in [Sends -> {None, account}]
    BY <1>3, <2>1, ReturnFacts
  <2>3. res'[s].decision = "unavailable:audit_failed" /\ res'[s].id = i
    BY <2>2 DEF Ended
  <2>4. Moves(s, "done")
    BY <1>2, <1>4, <1>6, <2>2 DEF Moves, PCs
  <2>5. Stored' /\ Rooted' /\ Unanswered' /\ Followed' /\ PagesFollowOnce'
    BY <1>2, <2>1, <2>4, PagesLeave DEF Following
  <2>6. pages' \in [Ids -> PageRecords \cup {None}] /\ \A j \in Ids : j > seq => pages'[j] = None
    <3>1. pages \in [Ids -> PageRecords \cup {None}] /\ \A j \in Ids : j > seq => pages[j] = None
      BY <1>3 DEF Typed, IInv, IdsKnown, Ids
    <3> QED
      BY <1>3, <2>1, <3>1, UnreadFacts
  <2>7. Typed'
    BY <1>2, <1>4, <1>6, <2>2, <2>6 DEF IInv, Typed
  <2>8. Calls' /\ IdsKnown'
    BY <2>2, <2>3, <2>4, <2>6, MovesBase
  <2>9. InProgressLines' /\ EndedLines'
    BY <1>4, <2>1, <2>3, <2>4, MovesLines DEF Shapes
  <2>10. AdmittedHolds' /\ BeganHolds' /\ ScopeHolds' /\ StopHonoured'
    BY <1>2, <1>5, <2>1, <2>4, MovesAdmitted
  <2>11. ~Limited(s)' /\ res'[s].decision # "refused:rate_limit"
    BY <2>3 DEF Limited
  <2>12. SentCounts' /\ ReuseSamePrincipal' /\ LimitStops'
    BY <1>2, <1>5, <1>6, <2>1, <2>4, <2>11, MovesCounts
  <2> QED
    BY <2>5, <2>7, <2>8, <2>9, <2>10, <2>12 DEF IInv
<1> QED
  BY <1>4, <1>7, <1>8

-----------------------------------------------------------------------------
(* The answer.                                                             *)

\* A call in flight has one line more and the pages and reads the answer left.
LEMMA AnswerMoves ==
    ASSUME IInv, NEW s \in Sends, NEW to \in {"backoff", "done"}, pc[s] = "flight",
           ResultLine(s), pc' = [pc EXCEPT ![s] = to],
           \A t \in Sends : t # s => /\ res'[t] = res[t] /\ rt'[t] = rt[t]
                                     /\ prev'[t] = prev[t] /\ depth'[t] = depth[t] /\ who'[t] = who[t],
           \A i \in Ids : i # cur[s] => redirects'[i] = redirects[i] /\ read'[i] = read[i],
           UNCHANGED <<seq, req, cur, began, account, sent>>
    PROVE  /\ Moves(s, to)
           /\ lines' \in [Ids -> SUBSET Events] /\ faults' \in 0 .. MaxFaults
           /\ lines'[cur[s]] \in {{"send"}, {"send", "result"}} /\ lines[cur[s]] = {"send"}
           /\ AuditKept' => (AuditKept /\ lines'[cur[s]] = {"send", "result"})
<1>1. PICK ok \in WriteOutcomes : Record(cur[s], "result", ok)
  BY DEF ResultLine
<1>2. cur[s] \in Ids /\ Typed
  BY CallFacts DEF IInv
<1>3. /\ ok \in BOOLEAN
      /\ lines' \in [Ids -> SUBSET Events] /\ faults' \in 0 .. MaxFaults
      /\ lines'[cur[s]] = IF ok THEN lines[cur[s]] \cup {"result"} ELSE lines[cur[s]]
      /\ \A j \in Ids : j # cur[s] => lines'[j] = lines[j]
      /\ AuditKept' => (AuditKept /\ ok)
  BY <1>1, <1>2, RecordFacts DEF Events
<1>4. lines[cur[s]] = {"send"}
  BY DEF IInv, InProgressLines
<1>5. Moves(s, to)
  BY <1>3 DEF Moves, PCs
<1> QED
  BY <1>3, <1>4, <1>5

\* Whatever the answer left, the rest of the invariant follows.
LEMMA AnswerKeeps ==
    ASSUME IInv, NEW s \in Sends, NEW to \in {"backoff", "done"}, pc[s] = "flight",
           Moves(s, to),
           lines' \in [Ids -> SUBSET Events], faults' \in 0 .. MaxFaults,
           lines'[cur[s]] \in {{"send"}, {"send", "result"}}, lines[cur[s]] = {"send"},
           AuditKept' => (AuditKept /\ lines'[cur[s]] = {"send", "result"}),
           res' = [t \in Sends |-> res'[t]],
           rt' \in [Sends -> RetryNames \cup {None}],
           prev' \in [Sends -> PageRecords \cup {None}],
           depth' \in [Sends -> 0 .. MaxRedirects],
           who' \in [Sends -> {None, account}],
           stopped \subseteq stopped', stopped' \subseteq Providers \ {"web"},
           principal' \in {None, account},
           redirects' \in [Ids -> HopRecords \cup {None}],
           redirects'[cur[s]] = redirects[cur[s]] \/ redirects'[cur[s]].depth = began[cur[s]].hops,
           read' \in [Ids -> ReadRecords \cup {None}],
           pages' \in [Ids -> PageRecords \cup {None}],
           \A j \in Ids : j > seq => pages'[j] = None,
           UNCHANGED <<n, sent, deadline, over>>,
           res'[s].id = cur[s],
           res'[s].decision # "reused",
           res'[s].decision \notin {"refused:deadline", "refused:rate_limit", "refused:canceled"},
           rt'[s] # None <=> to = "backoff",
           (to = "done" /\ ~web(s) /\ Limited(s)') => prov(s) \in stopped',
           (to = "backoff" /\ Limited(s)') => rt'[s] = "rate_limit",
           Stored' /\ Rooted' /\ Unanswered' /\ Followed' /\ PagesFollowOnce'
    PROVE  IInv'
<1>1. Typed'
  BY DEF IInv, Typed, Moves, PCs
<1>2. Calls' /\ IdsKnown'
  BY MovesBase
<1>3. InProgressLines' /\ EndedLines'
  BY MovesLines DEF Shapes, Finals
<1>4. AdmittedHolds' /\ BeganHolds' /\ ScopeHolds' /\ StopHonoured'
  BY MovesAdmitted
<1>5. lines[cur[s]] \subseteq lines'[cur[s]] /\ "reused" \notin lines'[cur[s]] /\ "send" \in lines'[cur[s]]
  OBVIOUS
<1>6. sent'[s] <=> (sent[s] \/ "send" \in lines'[cur[s]])
  <2>1. cur[s] \in 1 .. seq /\ began[cur[s]].by = s
    BY CallFacts DEF CallOf
  <2>2. sent[s]
    BY <2>1 DEF IInv, SentCounts
  <2> QED
    BY <2>2
<1>7. SentCounts' /\ ReuseSamePrincipal' /\ LimitStops'
  BY <1>5, <1>6, MovesCounts
<1> QED
  BY <1>1, <1>2, <1>3, <1>4, <1>7 DEF IInv

\* stopProvider adds the attempt's provider, a site's excepted.
LEMMA StopFacts ==
    ASSUME IInv, NEW s \in Sends, pc[s] # "idle"
    PROVE  /\ stopped \subseteq Stop(s) /\ Stop(s) \subseteq Providers \ {"web"}
           /\ ~web(s) => prov(s) \in Stop(s)
           /\ FloorOutcomes(s) \subseteq {stopped, Stop(s)}
<1>1. prov(s) \in Providers /\ stopped \subseteq Providers \ {"web"}
  BY CallFacts DEF IInv, Typed
<1> QED
  BY <1>1 DEF Stop, web, FloorOutcomes

\* An attempt that follows no page leaves the pages as they are.
LEMMA NoPageFollowed ==
    ASSUME IInv, NEW s \in Sends, Following(s), op(s).class # "list"
    PROVE  Unread(req[s].nextOf, pages) = pages
<1>1. req[s].nextOf = 0
  BY CallFacts DEF Following, CallOf
<1>2. req[s].nextOf \notin Ids /\ Typed
  BY <1>1 DEF Ids, IInv
<1> QED
  BY <1>2, UnreadFacts

\* Pages that are no longer being read are pages, of ids handed out.
LEMMA UnreadTyped ==
    ASSUME IInv, NEW i
    PROVE  /\ Unread(i, pages) \in [Ids -> PageRecords \cup {None}]
           /\ \A j \in Ids : j > seq => Unread(i, pages)[j] = None
<1>1. Typed /\ seq \in Nat /\ \A j \in Ids : j > seq => pages[j] = None
  BY ConstantsAssumption DEF IInv, Typed, IdsKnown, Ids, ConstantsAssumption
<1> QED
  BY <1>1, UnreadFacts

\* An answer that ends the call and keeps no page: the page it followed is free.
LEMMA AnswerEnds ==
    ASSUME IInv, NEW s \in Sends, pc[s] = "flight", ResultLine(s), NEW r, Return(s, r),
           r.id = cur[s], r.decision # "reused",
           r.decision \notin {"refused:deadline", "refused:rate_limit", "refused:canceled"},
           stopped' \in {stopped, Stop(s)},
           (~web(s) /\ r.decision = "sent" /\ r.reason = "limit_reached") => stopped' = Stop(s),
           pages' = Unread(req[s].nextOf, pages), read' = read,
           principal' \in {None, account},
           redirects' \in [Ids -> HopRecords \cup {None}],
           redirects'[cur[s]] = redirects[cur[s]] \/ redirects'[cur[s]].depth = began[cur[s]].hops,
           \A i \in Ids : i # cur[s] => redirects'[i] = redirects[i],
           UNCHANGED <<seq, req, cur, n, sent, deadline, over, account, began>>
    PROVE  IInv'
<1>1. Typed /\ Following(s)
  BY DEF IInv, Following
<1>2. /\ pc' = [pc EXCEPT ![s] = "done"]
      /\ res'[s] = r /\ rt'[s] = None
      /\ \A t \in Sends : t # s =>
            /\ res'[t] = res[t] /\ rt'[t] = rt[t]
            /\ prev'[t] = prev[t] /\ depth'[t] = depth[t] /\ who'[t] = who[t]
      /\ res' = [t \in Sends |-> res'[t]]
      /\ rt' \in [Sends -> RetryNames \cup {None}]
      /\ prev' \in [Sends -> PageRecords \cup {None}]
      /\ depth' \in [Sends -> 0 .. MaxRedirects]
      /\ who' \in [Sends -> {None, account}]
  BY <1>1, ReturnFacts
<1>3. /\ Moves(s, "done")
      /\ lines' \in [Ids -> SUBSET Events] /\ faults' \in 0 .. MaxFaults
      /\ lines'[cur[s]] \in {{"send"}, {"send", "result"}} /\ lines[cur[s]] = {"send"}
      /\ AuditKept' => (AuditKept /\ lines'[cur[s]] = {"send", "result"})
  BY <1>2, AnswerMoves
<1>4. Stored' /\ Rooted' /\ Unanswered' /\ Followed' /\ PagesFollowOnce'
  BY <1>1, <1>3, PagesLeave
<1>5. stopped \subseteq stopped' /\ stopped' \subseteq Providers \ {"web"}
  BY <1>1, StopFacts DEF Typed
<1>6. (~web(s) /\ Limited(s)') => prov(s) \in stopped'
  BY <1>2, StopFacts DEF Limited
<1>7. pages' \in [Ids -> PageRecords \cup {None}] /\ \A j \in Ids : j > seq => pages'[j] = None
  BY UnreadTyped
<1>8. read' \in [Ids -> ReadRecords \cup {None}]
  BY <1>1 DEF Typed
<1> QED
  BY <1>2, <1>3, <1>4, <1>5, <1>6, <1>7, <1>8, AnswerKeeps

\* A gap, a used-up limit and a probe's late answer end the call.
LEMMA AnswerGapKeeps ==
    ASSUME IInv, NEW s \in Sends, AnswerGap(s)
    PROVE  IInv'
<1>1. PICK r \in GapResults(s) : Return(s, r)
  BY DEF AnswerGap
<1>2. /\ pc[s] = "flight" /\ ResultLine(s) /\ stopped' \in FloorOutcomes(s)
      /\ pages' = Unread(req[s].nextOf, pages)
      /\ UNCHANGED <<seq, redirects, kept, principal, req, cur, n, sent,
                     deadline, over, canceled, account, began, read>>
  BY DEF AnswerGap
<1>3. /\ r.id = cur[s]
      /\ r.decision \in {"unavailable:deadline", "unavailable:canceled", "unavailable:read", "sent"}
      /\ r.decision = "sent" => r.reason = "insufficient_permission"
  BY <1>1 DEF GapResults, Ended
<1>4. redirects' \in [Ids -> HopRecords \cup {None}] /\ principal' \in {None, account}
  BY <1>2 DEF IInv, Typed
<1>5. stopped' \in {stopped, Stop(s)}
  BY <1>2, StopFacts
<1> QED
  BY <1>1, <1>2, <1>3, <1>4, <1>5, AnswerEnds

LEMMA AnswerExhaustedKeeps ==
    ASSUME IInv, NEW s \in Sends, AnswerExhausted(s)
    PROVE  IInv'
<1>1. /\ pc[s] = "flight" /\ ResultLine(s) /\ Return(s, LimitReached(s)) /\ stopped' = Stop(s)
      /\ pages' = Unread(req[s].nextOf, pages)
      /\ UNCHANGED <<seq, redirects, kept, principal, req, cur, n, sent,
                     deadline, over, canceled, account, began, read>>
  BY DEF AnswerExhausted
<1>2. LimitReached(s).id = cur[s] /\ LimitReached(s).decision = "sent"
  BY DEF LimitReached
<1>3. redirects' \in [Ids -> HopRecords \cup {None}] /\ principal' \in {None, account}
  BY <1>1 DEF IInv, Typed
<1> QED
  BY <1>1, <1>2, <1>3, AnswerEnds

LEMMA AnswerCutKeeps ==
    ASSUME IInv, NEW s \in Sends, AnswerCut(s)
    PROVE  IInv'
<1> DEFINE r == Ended(IF deadline THEN "unavailable:deadline" ELSE "unavailable:window_ended", cur[s])
<1>1. /\ pc[s] = "flight" /\ ResultLine(s) /\ Return(s, r) /\ stopped' \in {stopped, Stop(s)}
      /\ pages' = Unread(req[s].nextOf, pages)
      /\ UNCHANGED <<seq, redirects, kept, principal, req, cur, n, sent,
                     deadline, over, canceled, account, began, read>>
  BY DEF AnswerCut
<1>2. r.id = cur[s] /\ r.decision \in {"unavailable:deadline", "unavailable:window_ended"}
  BY DEF Ended
<1>3. redirects' \in [Ids -> HopRecords \cup {None}] /\ principal' \in {None, account}
  BY <1>1 DEF IInv, Typed
<1> HIDE DEF r
<1> QED
  BY <1>1, <1>2, <1>3, AnswerEnds

\* A 3xx is as deep as the attempt that received it; a site's op is no list.
LEMMA AnswerRedirectKeeps ==
    ASSUME IInv, NEW s \in Sends, AnswerRedirect(s)
    PROVE  IInv'
<1> DEFINE r == Ended("sent", cur[s])
<1>1. /\ pc[s] = "flight" /\ web(s) /\ ResultLine(s) /\ Return(s, r)
      /\ UNCHANGED <<seq, stopped, pages, kept, principal, req, cur, n, sent,
                     deadline, over, canceled, account, began, read>>
  BY DEF AnswerRedirect
<1>2. PICK to \in Subjects :
        redirects' = [redirects EXCEPT ![cur[s]] =
            [asset |-> req[s].asset, target |-> to, depth |-> depth[s]]]
  BY DEF AnswerRedirect
<1>3. cur[s] \in Ids /\ req[s].asset \in Assets /\ op(s).class = "get"
  BY <1>1, CallFacts
<1>4. depth[s] = began[cur[s]].hops /\ depth[s] \in 0 .. MaxRedirects
  BY <1>1 DEF IInv, Typed, AdmittedHolds, Admitted
<1>5. /\ redirects' \in [Ids -> HopRecords \cup {None}] /\ redirects'[cur[s]].depth = began[cur[s]].hops
      /\ \A i \in Ids : i # cur[s] => redirects'[i] = redirects[i]
  <2>1. [asset |-> req[s].asset, target |-> to, depth |-> depth[s]] \in HopRecords
    BY <1>3, <1>4 DEF HopRecords
  <2>2. redirects \in [Ids -> HopRecords \cup {None}]
    BY DEF IInv, Typed
  <2> QED
    BY <1>2, <1>3, <1>4, <2>1, <2>2
<1>6. pages' = Unread(req[s].nextOf, pages)
  BY <1>1, <1>3, NoPageFollowed DEF Following
<1>7. r.id = cur[s] /\ r.decision = "sent" /\ principal' \in {None, account}
  BY <1>1 DEF Ended, IInv, Typed
<1> HIDE DEF r
<1> QED
  BY <1>1, <1>5, <1>6, <1>7, AnswerEnds

\* A success: the page after it is stored, or no page was followed.
LEMMA AnswerOKKeeps ==
    ASSUME IInv, NEW s \in Sends, AnswerOK(s)
    PROVE  IInv'
<1> DEFINE r == Ended("sent", cur[s])
           rd(more) == [root |-> PageRoot(s), n |-> PageNumber(s), more |-> more]
<1>1. /\ pc[s] = "flight" /\ ResultLine(s) /\ Return(s, r) /\ stopped' \in FloorOutcomes(s)
      /\ principal' = IF op(s).class = "principal" THEN account ELSE principal
      /\ UNCHANGED <<seq, redirects, req, cur, n, sent, deadline, over, canceled, account, began>>
  BY DEF AnswerOK
<1>2. PICK more \in BOOLEAN :
        /\ pages' = IF op(s).class = "list" THEN KeepPage(s, more) ELSE pages
        /\ read' = IF op(s).class = "list" THEN [read EXCEPT ![cur[s]] = rd(more)] ELSE read
  BY DEF AnswerOK
<1>3. /\ Following(s) /\ Typed
      /\ redirects' \in [Ids -> HopRecords \cup {None}]
      /\ principal' \in {None, account}
  BY <1>1 DEF Following, IInv, Typed
<1>4. r.id = cur[s] /\ r.decision = "sent" /\ r.reason = ""
  BY DEF Ended, ReasonOf
<1>5. stopped' \in {stopped, Stop(s)}
  BY <1>1, StopFacts
<1> HIDE DEF r
<1>6. CASE op(s).class # "list"
  <2>1. pages' = Unread(req[s].nextOf, pages) /\ read' = read
    BY <1>2, <1>3, <1>6, NoPageFollowed
  <2> QED
    BY <1>1, <1>3, <1>4, <1>5, <2>1, AnswerEnds
<1>7. CASE op(s).class = "list"
  <2>1. pages' = KeepPage(s, more) /\ read' = [read EXCEPT ![cur[s]] = rd(more)]
    BY <1>2, <1>7
  <2>2. /\ pc' = [pc EXCEPT ![s] = "done"]
        /\ res'[s] = r /\ rt'[s] = None
        /\ \A t \in Sends : t # s =>
              /\ res'[t] = res[t] /\ rt'[t] = rt[t]
              /\ prev'[t] = prev[t] /\ depth'[t] = depth[t] /\ who'[t] = who[t]
        /\ res' = [t \in Sends |-> res'[t]]
        /\ rt' \in [Sends -> RetryNames \cup {None}]
        /\ prev' \in [Sends -> PageRecords \cup {None}]
        /\ depth' \in [Sends -> 0 .. MaxRedirects]
        /\ who' \in [Sends -> {None, account}]
    BY <1>1, <1>3, ReturnFacts
  <2>3. /\ pages' \in [Ids -> PageRecords \cup {None}]
        /\ rd(more) \in ReadRecords
        /\ cur[s] \in 1 .. seq /\ cur[s] \in Ids /\ seq \in Nat
    BY <1>1, <1>3, <2>1, CallFacts, KeptFacts
  <2>4. /\ read' \in [Ids -> ReadRecords \cup {None}]
        /\ \A i \in Ids : i # cur[s] => redirects'[i] = redirects[i] /\ read'[i] = read[i]
    <3>1. read \in [Ids -> ReadRecords \cup {None}]
      BY <1>3 DEF Typed
    <3> QED
      BY <1>1, <2>1, <2>3, <3>1
  <2>5. \A j \in Ids : j > seq => pages'[j] = None
    <3>1. \A j \in Ids : j > seq => pages[j] = None /\ j # cur[s]
      BY <2>3 DEF IInv, IdsKnown, Ids
    <3> QED
      BY <1>3, <2>1, <3>1, KeptFacts
  <2>6. /\ Moves(s, "done")
        /\ lines' \in [Ids -> SUBSET Events] /\ faults' \in 0 .. MaxFaults
        /\ lines'[cur[s]] \in {{"send"}, {"send", "result"}} /\ lines[cur[s]] = {"send"}
        /\ AuditKept' => (AuditKept /\ lines'[cur[s]] = {"send", "result"})
    BY <1>1, <2>2, <2>4, AnswerMoves
  <2>7. Stored' /\ Rooted' /\ Unanswered' /\ Followed' /\ PagesFollowOnce'
    BY <1>3, <2>1, <2>6, PagesRead
  <2>8. stopped \subseteq stopped' /\ stopped' \subseteq Providers \ {"web"}
    BY <1>1, <1>3, <1>5, StopFacts DEF Typed
  <2>9. ~Limited(s)'
    BY <1>4, <2>2 DEF Limited
  <2> QED
    BY <1>1, <1>3, <1>4, <2>2, <2>3, <2>4, <2>5, <2>6, <2>7, <2>8, <2>9, AnswerKeeps
<1> QED
  BY <1>6, <1>7

\* An answer that may be tried again: what the call would end as stays beside
\* why it is retried.
LEMMA AnswerRetryKeeps ==
    ASSUME IInv, NEW s \in Sends, AnswerRetry(s)
    PROVE  IInv'
<1>1. PICK kind \in RetryKinds(s) :
        /\ rt' = [rt EXCEPT ![s] = kind]
        /\ res' = [res EXCEPT ![s] = RetryResult(s, kind)]
  BY DEF AnswerRetry
<1>2. /\ pc[s] = "flight" /\ ResultLine(s) /\ pc' = [pc EXCEPT ![s] = "backoff"]
      /\ ForgetPending(s) /\ pages' = Unread(req[s].nextOf, pages)
      /\ UNCHANGED <<seq, stopped, redirects, kept, principal, req, cur, n, sent,
                     deadline, over, canceled, account, began, read>>
  BY DEF AnswerRetry
<1>3. Typed /\ Following(s)
  BY <1>2 DEF IInv, Following
<1>4. kind \in RetryNames /\ kind # None
  BY NoneAssumption DEF RetryKinds, RetryNames, NoneAssumption
<1>5. /\ RetryResult(s, kind).id = cur[s]
      /\ RetryResult(s, kind).decision \in {"sent", "unavailable:transient"}
      /\ (RetryResult(s, kind).decision = "sent" /\ RetryResult(s, kind).reason = "limit_reached")
            => kind = "rate_limit"
  <2>1. CASE kind = "evidence"
    BY <2>1 DEF RetryResult, Ended, ReasonOf
  <2>2. CASE kind = "rate_limit"
    BY <2>2 DEF RetryResult, LimitReached
  <2>3. CASE kind = "transient"
    BY <2>3 DEF RetryResult, Ended
  <2> QED
    BY <1>4, <2>1, <2>2, <2>3 DEF RetryNames
<1>6. /\ rt' \in [Sends -> RetryNames \cup {None}] /\ rt'[s] = kind
      /\ \A t \in Sends : t # s => rt'[t] = rt[t]
  BY <1>1, <1>3, <1>4 DEF Typed
<1>7. /\ res'[s] = RetryResult(s, kind) /\ \A t \in Sends : t # s => res'[t] = res[t]
      /\ res' = [t \in Sends |-> res'[t]]
  <2>1. res = [t \in Sends |-> res[t]]
    BY <1>3 DEF Typed
  <2>2. res' = [t \in Sends |-> IF t = s THEN RetryResult(s, kind) ELSE res[t]]
    BY <1>1, <2>1
  <2> QED
    BY <2>2
<1>8. /\ prev' \in [Sends -> PageRecords \cup {None}]
      /\ depth' \in [Sends -> 0 .. MaxRedirects]
      /\ who' \in [Sends -> {None, account}]
      /\ \A t \in Sends : t # s => (prev'[t] = prev[t] /\ depth'[t] = depth[t] /\ who'[t] = who[t])
  <2>1. 0 \in 0 .. MaxRedirects
    BY ConstantsAssumption DEF ConstantsAssumption
  <2> QED
    BY <1>2, <1>3, <2>1 DEF Typed, ForgetPending
<1>9. /\ Moves(s, "backoff")
      /\ lines' \in [Ids -> SUBSET Events] /\ faults' \in 0 .. MaxFaults
      /\ lines'[cur[s]] \in {{"send"}, {"send", "result"}} /\ lines[cur[s]] = {"send"}
      /\ AuditKept' => (AuditKept /\ lines'[cur[s]] = {"send", "result"})
  BY <1>2, <1>6, <1>7, <1>8, AnswerMoves
<1>10. Stored' /\ Rooted' /\ Unanswered' /\ Followed' /\ PagesFollowOnce'
  BY <1>2, <1>3, <1>9, PagesLeave
<1>11. pages' \in [Ids -> PageRecords \cup {None}] /\ \A j \in Ids : j > seq => pages'[j] = None
  BY <1>2, UnreadTyped
<1>12. /\ stopped \subseteq stopped' /\ stopped' \subseteq Providers \ {"web"}
       /\ principal' \in {None, account} /\ redirects' \in [Ids -> HopRecords \cup {None}]
       /\ read' \in [Ids -> ReadRecords \cup {None}] /\ redirects'[cur[s]] = redirects[cur[s]]
  BY <1>2, <1>3 DEF Typed
<1>13. Limited(s)' => rt'[s] = "rate_limit"
  BY <1>5, <1>6, <1>7 DEF Limited
<1> QED
  BY <1>2, <1>4, <1>5, <1>6, <1>7, <1>8, <1>9, <1>10, <1>11, <1>12, <1>13, AnswerKeeps

-----------------------------------------------------------------------------
(* The retries run out.                                                    *)

\* exhausted: the answer the last attempt left is the call's.
LEMMA ExhaustedKeeps ==
    ASSUME IInv, NEW s \in Sends, pc[s] = "backoff", Exhausted(s),
           UNCHANGED <<seq, lines, pages, redirects, kept, principal, req, cur, n, sent, envVars, began, read>>
    PROVE  IInv'
<1>1. /\ Return(s, res[s]) /\ stopped' = IF rt[s] = "rate_limit" THEN Stop(s) ELSE stopped
      /\ UNCHANGED <<deadline, over, canceled, account, faults>>
  BY DEF Exhausted, envVars
<1>2. Typed /\ CallOf(s) /\ ~Following(s) /\ cur[s] \in 1 .. seq /\ seq \in Nat /\ cur[s] \in Ids
  BY CallFacts DEF IInv, Following
<1>3. /\ pc' = [pc EXCEPT ![s] = "done"] /\ pc' \in [Sends -> PCs]
      /\ res'[s] = res[s] /\ rt'[s] = None
      /\ \A t \in Sends : t # s =>
            /\ res'[t] = res[t] /\ rt'[t] = rt[t]
            /\ prev'[t] = prev[t] /\ depth'[t] = depth[t] /\ who'[t] = who[t]
      /\ res' = [t \in Sends |-> res'[t]]
      /\ rt' \in [Sends -> RetryNames \cup {None}]
      /\ prev' \in [Sends -> PageRecords \cup {None}]
      /\ depth' \in [Sends -> 0 .. MaxRedirects]
      /\ who' \in [Sends -> {None, account}]
  BY <1>1, <1>2, ReturnFacts
<1>4. stopped \subseteq stopped' /\ stopped' \subseteq Providers \ {"web"}
  BY <1>1, <1>2, StopFacts DEF Typed
<1>5. Moves(s, "done")
  BY <1>1, <1>3 DEF Moves, PCs
<1>6. Typed'
  BY <1>1, <1>3, <1>4 DEF IInv, Typed
<1>7. \A j \in Ids : j > seq => pages'[j] = None
  BY <1>2 DEF IInv, IdsKnown, Ids
<1>8. res[s].id = cur[s]
  BY <1>2 DEF CallOf
<1>9. Calls' /\ IdsKnown'
  BY <1>3, <1>5, <1>7, <1>8, MovesBase
<1>10. AuditKept => /\ lines[cur[s]] \in Finals
                    /\ res[s].decision = "sent" => lines[cur[s]] = {"send", "result"}
                    /\ res[s].decision = "reused" => lines[cur[s]] = {"reused"}
                    /\ res[s].decision \in {"refused:deadline", "refused:rate_limit", "refused:canceled"}
                         => lines[cur[s]] = {"refused"}
  <2>1. ~InProgress(cur[s])
    BY <1>2 DEF CallOf, InProgress
  <2> QED
    BY <1>2, <1>8, <2>1 DEF IInv, EndedLines
<1>11. lines[cur[s]] \in Shapes
  BY <1>2 DEF IInv, EndedLines
<1>12. InProgressLines' /\ EndedLines'
  BY <1>1, <1>3, <1>5, <1>8, <1>10, <1>11, MovesLines DEF AuditKept
<1>13. AdmittedHolds' /\ BeganHolds' /\ ScopeHolds' /\ StopHonoured'
  BY <1>1, <1>4, <1>5, MovesAdmitted
<1>14. Stored' /\ Rooted' /\ Unanswered' /\ Followed' /\ PagesFollowOnce'
  BY <1>2, <1>5, PagesLeave
<1>15. /\ res'[s].decision # "refused:rate_limit"
       /\ (~web(s) /\ Limited(s)') => prov(s) \in stopped'
  <2>1. res[s].decision # "refused:rate_limit" /\ (Limited(s) => rt[s] = "rate_limit")
    BY DEF IInv, LimitStops
  <2>2. Limited(s)' = Limited(s)
    BY <1>3 DEF Limited
  <2> QED
    BY <1>1, <1>3, <2>1, <2>2, StopFacts
<1>16. sent'[s] <=> (sent[s] \/ "send" \in lines'[cur[s]])
  BY <1>2 DEF IInv, SentCounts, CallOf
<1>17. SentCounts' /\ ReuseSamePrincipal' /\ LimitStops'
  BY <1>4, <1>5, <1>15, <1>16, MovesCounts
<1> QED
  BY <1>6, <1>9, <1>12, <1>13, <1>14, <1>17 DEF IInv

-----------------------------------------------------------------------------
(* An attempt begins with an id of its own.                                *)

\* A call begins an attempt, or a refused retry, with request q.
Begins(s, q, k, to) ==
    /\ pc[s] \in {"idle", "backoff"} /\ to \in {"admit", "done"} /\ pc' = [pc EXCEPT ![s] = to]
    /\ k \in 0 .. Retries + 1 /\ Begin(s, k) /\ Began(s, q, k)
    /\ q \in Requests /\ q.nextOf <= seq /\ q.redirectOf <= seq
    /\ q.nextOf # 0 => Op[q.op].class = "list"
    /\ q.redirectOf # 0 => Op[q.op].provider = "web"
    /\ Op[q.op].provider # "web" => Place[q.subject] # "entry_point"
    /\ req' = [req EXCEPT ![s] = q] /\ (pc[s] # "idle" => q = req[s])
    /\ UNCHANGED <<pages, redirects, principal, prev, depth, who, sent, deadline, over, account, read>>
    /\ lines' \in [Ids -> SUBSET Events] /\ faults' \in 0 .. MaxFaults
    /\ \A i \in Ids : i # seq + 1 => lines'[i] = lines[i]
    /\ stopped \subseteq stopped' /\ stopped' \subseteq Providers \ {"web"}
    /\ res' = [t \in Sends |-> res'[t]] /\ \A t \in Sends : t # s => res'[t] = res[t]
    /\ AuditKept' => AuditKept
    /\ to = "admit" => lines'[seq + 1] = {}
    /\ to = "done" =>
        /\ res'[s].id = seq + 1 /\ lines'[seq + 1] \in {{}, {"refused"}}
        /\ AuditKept' => lines'[seq + 1] = {"refused"}
        /\ res'[s].decision \in {"refused:deadline", "refused:rate_limit", "refused:canceled"}
        /\ (res'[s].decision = "refused:rate_limit" /\ Op[q.op].provider # "web")
              => Op[q.op].provider \in stopped'

\* The new id is the call's, and the ids before it are what they were.
LEMMA BeginsFacts ==
    ASSUME IInv, NEW s \in Sends, NEW q, NEW k, NEW to, Begins(s, q, k, to)
    PROVE  /\ seq \in Nat /\ seq' = seq + 1 /\ seq + 1 \in Ids /\ MaxIds \in Nat /\ seq + 1 <= MaxIds
           /\ \A t \in Sends : pc'[t] = IF t = s THEN to ELSE pc[t]
           /\ \A t \in Sends : cur'[t] = IF t = s THEN seq + 1 ELSE cur[t]
           /\ \A t \in Sends : req'[t] = IF t = s THEN q ELSE req[t]
           /\ \A t \in Sends : t # s => rt'[t] = rt[t]
           /\ rt'[s] = None
           /\ \A i \in 1 .. seq : /\ i \in Ids /\ i # seq + 1 /\ began'[i] = began[i]
                                  /\ began[i] \in BeganRecords /\ began[i].by \in Sends
                                  /\ req'[began[i].by] = req[began[i].by]
                                  /\ lines'[i] = lines[i]
           /\ \A t \in Sends : (t # s /\ pc[t] # "idle") => (cur[t] \in 1 .. seq /\ began[cur[t]].by = t)
           /\ began'[seq + 1] \in BeganRecords /\ began'[seq + 1].by = s
           /\ began'[seq + 1].late => deadline
           /\ began'[seq + 1].stopped => Op[q.op].provider \in stopped
           /\ began'[seq + 1].hops = IF q.redirectOf = 0 THEN 0 ELSE began[q.redirectOf].hops + 1
           /\ lines[seq + 1] = {} /\ pages[seq + 1] = None /\ redirects[seq + 1] = None /\ read[seq + 1] = None
           /\ \A i \in 1 .. seq' : i \in 1 .. seq \/ i = seq + 1
           /\ 1 .. seq \subseteq 1 .. seq' /\ seq + 1 \in 1 .. seq'
           /\ Typed'
<1> DEFINE b == [by |-> s, late |-> deadline, stopped |-> Op[q.op].provider \in stopped,
                 hops |-> IF q.redirectOf = 0 THEN 0 ELSE began[q.redirectOf].hops + 1]
<1>1. /\ seq \in Nat /\ MaxIds \in Nat /\ seq < MaxIds /\ seq' = seq + 1
      /\ cur' = [cur EXCEPT ![s] = seq + 1] /\ n' = [n EXCEPT ![s] = k] /\ rt' = [rt EXCEPT ![s] = None]
      /\ began' = [began EXCEPT ![seq + 1] = b] /\ Typed
  BY ConstantsAssumption DEF IInv, Typed, Begins, Begin, Began, ConstantsAssumption
<1>2. /\ seq + 1 \in Ids /\ seq + 1 <= MaxIds /\ seq' \in 0 .. MaxIds
      /\ \A i \in 1 .. seq : i \in Ids /\ i # seq + 1
      /\ \A i \in 1 .. seq' : i \in 1 .. seq \/ i = seq + 1
      /\ 1 .. seq \subseteq 1 .. seq' /\ seq + 1 \in 1 .. seq'
  BY <1>1 DEF Ids
<1>3. ~(seq + 1 <= seq)
  BY <1>1
<1>4. lines[seq + 1] = {} /\ pages[seq + 1] = None /\ redirects[seq + 1] = None /\ read[seq + 1] = None
  BY <1>2, <1>3 DEF IInv, IdsKnown
<1>5. \A i \in 1 .. seq : began[i] \in BeganRecords /\ began[i].by \in Sends /\ pc[began[i].by] # "idle"
  <2>1. \A i \in 1 .. seq : i <= seq /\ i \in Ids
    BY <1>2
  <2>2. \A i \in 1 .. seq : began[i] \in BeganRecords /\ pc[began[i].by] # "idle"
    BY <2>1 DEF IInv, IdsKnown
  <2> QED
    BY <2>2 DEF BeganRecords
<1>6. q.redirectOf # 0 => q.redirectOf \in 1 .. seq
  BY <1>1 DEF Begins, Requests
<1>7. b \in BeganRecords
  <2>1. deadline \in BOOLEAN /\ (Op[q.op].provider \in stopped) \in BOOLEAN
    BY <1>1 DEF Typed
  <2>2. (IF q.redirectOf = 0 THEN 0 ELSE began[q.redirectOf].hops + 1) \in Nat
    BY <1>5, <1>6 DEF BeganRecords
  <2> QED
    BY <2>1, <2>2 DEF BeganRecords
<1>8. /\ b.by = s /\ b.late = deadline /\ b.stopped = (Op[q.op].provider \in stopped)
      /\ b.hops = IF q.redirectOf = 0 THEN 0 ELSE began[q.redirectOf].hops + 1
  OBVIOUS
<1> HIDE DEF b
<1>9. began \in [Ids -> BeganRecords \cup {None}] /\ cur \in [Sends -> 0 .. MaxIds] /\ pc \in [Sends -> PCs]
      /\ req \in [Sends -> Requests \cup {None}] /\ rt \in [Sends -> RetryNames \cup {None}]
      /\ n \in [Sends -> 0 .. Retries + 1]
  BY <1>1 DEF Typed
<1>10. began'[seq + 1] = b /\ \A i \in 1 .. seq : began'[i] = began[i]
  BY <1>1, <1>2, <1>9
<1>11. /\ \A t \in Sends : pc'[t] = IF t = s THEN to ELSE pc[t]
       /\ \A t \in Sends : cur'[t] = IF t = s THEN seq + 1 ELSE cur[t]
       /\ \A t \in Sends : req'[t] = IF t = s THEN q ELSE req[t]
       /\ \A t \in Sends : t # s => rt'[t] = rt[t]
       /\ rt'[s] = None
  BY <1>1, <1>9 DEF Begins
<1>12. \A i \in 1 .. seq : req'[began[i].by] = req[began[i].by] /\ lines'[i] = lines[i]
  BY <1>2, <1>5, <1>11 DEF Begins
<1>13. \A t \in Sends : (t # s /\ pc[t] # "idle") => (cur[t] \in 1 .. seq /\ began[cur[t]].by = t)
  BY CallFacts DEF CallOf
<1>14. seq + 1 \in 0 .. MaxIds
  BY <1>1
<1>15. cur' \in [Sends -> 0 .. MaxIds] /\ n' \in [Sends -> 0 .. Retries + 1]
       /\ pc' \in [Sends -> PCs] /\ req' \in [Sends -> Requests \cup {None}]
       /\ rt' \in [Sends -> RetryNames \cup {None}]
       /\ began' \in [Ids -> BeganRecords \cup {None}]
  BY <1>1, <1>7, <1>9, <1>14 DEF Begins, PCs
<1>16. Typed'
  BY <1>1, <1>2, <1>15 DEF Typed, Begins
<1> QED
  BY <1>1, <1>2, <1>4, <1>5, <1>7, <1>8, <1>10, <1>11, <1>12, <1>13, <1>16

LEMMA BeginsBase ==
    ASSUME IInv, NEW s \in Sends, NEW q, NEW k, NEW to, Begins(s, q, k, to)
    PROVE  Calls' /\ IdsKnown' /\ InProgressLines' /\ EndedLines'
<1>1. q \in Requests /\ to \in {"admit", "done"} /\ pc[s] \in {"idle", "backoff"}
  BY DEF Begins
<1>2. q.nextOf \in Nat /\ q.redirectOf \in Nat
  BY <1>1 DEF Requests
<1>3. seq \in Nat /\ seq' = seq + 1 /\ seq + 1 \in 1 .. seq' /\ 1 .. seq \subseteq 1 .. seq'
  BY BeginsFacts
<1>4. q.redirectOf # 0 => q.redirectOf \in 1 .. seq
  BY <1>2, <1>3 DEF Begins
<1>5. CallOf(s)'
  <2>1. pc'[s] = to /\ cur'[s] = seq + 1 /\ req'[s] = q /\ rt'[s] = None
    BY BeginsFacts
  <2>2. began'[seq + 1].by = s
        /\ began'[seq + 1].hops = IF q.redirectOf = 0 THEN 0 ELSE began[q.redirectOf].hops + 1
    BY BeginsFacts
  <2>3. q.redirectOf # 0 => began'[q.redirectOf] = began[q.redirectOf]
    BY <1>4, BeginsFacts
  <2>4. q.nextOf < seq + 1 /\ q.redirectOf < seq + 1
    BY <1>2, <1>3 DEF Begins
  <2>5. to # "backoff" /\ (to = "done" => res'[s].id = seq + 1)
    BY <1>1 DEF Begins
  <2> QED
    BY <1>1, <1>3, <2>1, <2>2, <2>3, <2>4, <2>5 DEF CallOf, op, web, prov, Begins
<1>6. ASSUME NEW t \in Sends, t # s
      PROVE  IF pc'[t] = "idle" THEN req'[t] = None /\ rt'[t] = None /\ cur'[t] = 0 ELSE CallOf(t)'
  <2>1. pc'[t] = pc[t] /\ cur'[t] = cur[t] /\ req'[t] = req[t] /\ rt'[t] = rt[t] /\ res'[t] = res[t]
    <3>1. pc'[t] = pc[t] /\ cur'[t] = cur[t] /\ req'[t] = req[t] /\ rt'[t] = rt[t]
      BY <1>6, BeginsFacts
    <3>2. res'[t] = res[t]
      BY <1>6 DEF Begins
    <3> QED
      BY <3>1, <3>2
  <2>2. CASE pc[t] = "idle"
    BY <2>1, <2>2 DEF IInv, Calls
  <2>3. CASE pc[t] # "idle"
    <3>1. CallOf(t) /\ cur[t] \in 1 .. seq
          /\ (req[t].redirectOf # 0 => req[t].redirectOf \in 1 .. seq)
      BY <2>3, CallFacts
    <3>2. began'[cur[t]] = began[cur[t]]
          /\ (req[t].redirectOf # 0 => began'[req[t].redirectOf] = began[req[t].redirectOf])
      BY <3>1, BeginsFacts
    <3> QED
      BY <1>3, <2>1, <2>3, <3>1, <3>2 DEF CallOf, op, web, prov
  <2> QED
    BY <2>2, <2>3
<1>7. pc'[s] = to /\ pc'[s] # "idle"
  BY <1>1, BeginsFacts
<1>8. Calls'
  BY <1>5, <1>6, <1>7 DEF Calls
<1>9. IdsKnown'
  <2> SUFFICES ASSUME NEW i \in Ids
               PROVE  IF i <= seq' THEN began'[i] \in BeganRecords /\ pc'[began'[i].by] # "idle"
                      ELSE /\ lines'[i] = {} /\ pages'[i] = None /\ redirects'[i] = None
                           /\ began'[i] = None /\ read'[i] = None
    BY DEF IdsKnown
  <2>1. CASE i = seq + 1
    BY <1>3, <1>7, <2>1, BeginsFacts
  <2>2. CASE i <= seq
    <3>1. i \in 1 .. seq
      BY <1>3, <2>2 DEF Ids
    <3>2. began'[i] = began[i] /\ began[i] \in BeganRecords /\ began[i].by \in Sends
      BY <3>1, BeginsFacts
    <3>3. pc[began[i].by] # "idle"
      BY <2>2 DEF IInv, IdsKnown
    <3>4. pc'[began[i].by] # "idle"
      BY <1>7, <3>2, <3>3, BeginsFacts
    <3> QED
      BY <1>3, <2>2, <3>2, <3>4 DEF Ids
  <2>3. CASE i > seq + 1
    <3>1. ~(i <= seq) /\ ~(i <= seq') /\ i # seq + 1
      BY <1>3, <2>3 DEF Ids
    <3>2. lines'[i] = lines[i] /\ began'[i] = began[i]
      BY <3>1 DEF Begins, Began, IInv, Typed
    <3> QED
      BY <3>1, <3>2 DEF IInv, IdsKnown, Begins
  <2> QED
    BY <1>3, <2>1, <2>2, <2>3 DEF Ids
<1>10. InProgressLines'
  <2> SUFFICES ASSUME NEW t \in Sends
               PROVE  /\ pc'[t] \in {"admit", "resolve", "throttle"} => lines'[cur'[t]] = {}
                      /\ pc'[t] = "flight" => lines'[cur'[t]] = {"send"}
    BY DEF InProgressLines
  <2>1. CASE t = s
    <3>1. pc'[t] = to /\ cur'[t] = seq + 1
      BY <2>1, BeginsFacts
    <3> QED
      BY <1>1, <3>1 DEF Begins
  <2>2. CASE t # s
    <3>1. pc'[t] = pc[t] /\ cur'[t] = cur[t]
      BY <2>2, BeginsFacts
    <3>2. pc[t] # "idle" => lines'[cur[t]] = lines[cur[t]]
      BY <2>2, BeginsFacts
    <3> QED
      BY <3>1, <3>2 DEF IInv, InProgressLines
  <2> QED
    BY <2>1, <2>2
<1>11. ASSUME NEW i \in Ids
       PROVE  lines'[i] \in Shapes
  <2>1. CASE i = seq + 1
    BY <1>1, <2>1 DEF Begins, Shapes
  <2>2. CASE i # seq + 1
    BY <2>2 DEF Begins, IInv, EndedLines
  <2> QED
    BY <2>1, <2>2
<1>12. ASSUME AuditKept', NEW i \in 1 .. seq'
       PROVE  InProgress(i)' \/ lines'[i] \in Finals
  <2>1. AuditKept
    BY <1>12 DEF Begins
  <2>2. CASE i = seq + 1
    <3>1. began'[i].by = s /\ cur'[s] = i /\ pc'[s] = to
      BY <2>2, BeginsFacts
    <3> QED
      BY <1>1, <1>12, <2>2, <3>1 DEF InProgress, Begins, Finals
  <2>3. CASE i \in 1 .. seq
    <3>1. InProgress(i) \/ lines[i] \in Finals
      BY <2>1, <2>3 DEF IInv, EndedLines
    <3>2. began'[i] = began[i] /\ lines'[i] = lines[i] /\ began[i].by \in Sends
      BY <2>3, BeginsFacts
    <3>3. CASE began[i].by = s
      <4>1. pc[s] # "idle"
        BY <2>3, <3>2, <3>3, BeginsFacts DEF IInv, IdsKnown
      <4> QED
        BY <1>1, <3>1, <3>2, <3>3, <4>1 DEF InProgress
    <3>4. CASE began[i].by # s
      <4>1. pc'[began[i].by] = pc[began[i].by] /\ cur'[began[i].by] = cur[began[i].by]
        BY <3>2, <3>4, BeginsFacts
      <4> QED
        BY <3>1, <3>2, <4>1 DEF InProgress
    <3> QED
      BY <3>3, <3>4
  <2> QED
    BY <2>2, <2>3, BeginsFacts
<1>13. ASSUME AuditKept', NEW t \in Sends, pc'[t] \in {"backoff", "done"}
       PROVE  /\ res'[t].decision = "sent" => lines'[res'[t].id] = {"send", "result"}
              /\ res'[t].decision = "reused" => lines'[res'[t].id] = {"reused"}
              /\ res'[t].decision \in {"refused:deadline", "refused:rate_limit", "refused:canceled"}
                    => lines'[res'[t].id] = {"refused"}
  <2>1. CASE t = s
    BY <1>1, <1>7, <1>13, <2>1 DEF Begins
  <2>2. CASE t # s
    <3>1. pc[t] \in {"backoff", "done"} /\ res'[t] = res[t] /\ pc[t] # "idle"
      BY <1>13, <2>2, BeginsFacts DEF Begins
    <3>2. res[t].id = cur[t] /\ cur[t] \in 1 .. seq
      BY <3>1, CallFacts DEF CallOf
    <3>3. lines'[cur[t]] = lines[cur[t]]
      BY <3>2, BeginsFacts
    <3>4. AuditKept
      BY <1>13 DEF Begins
    <3> QED
      BY <3>1, <3>2, <3>3, <3>4 DEF IInv, EndedLines
  <2> QED
    BY <2>1, <2>2
<1>14. EndedLines'
  BY <1>11, <1>12, <1>13 DEF EndedLines
<1> QED
  BY <1>8, <1>9, <1>10, <1>14

LEMMA BeginsAdmitted ==
    ASSUME IInv, NEW s \in Sends, NEW q, NEW k, NEW to, Begins(s, q, k, to)
    PROVE  AdmittedHolds' /\ BeganHolds' /\ ScopeHolds' /\ StopHonoured'
<1>1. to \in {"admit", "done"} /\ stopped \subseteq stopped' /\ deadline' = deadline /\ redirects' = redirects
      /\ lines'[seq + 1] \in {{}, {"refused"}} /\ depth' = depth
  BY DEF Begins
<1>2. \A i \in 1 .. seq' : i \in 1 .. seq \/ i = seq + 1
  BY BeginsFacts
<1>3. ASSUME NEW t \in Sends, pc'[t] \in {"resolve", "throttle", "flight"}
      PROVE  Admitted(t)'
  <2>1. t # s /\ pc[t] = pc'[t] /\ cur'[t] = cur[t] /\ req'[t] = req[t] /\ pc[t] # "idle"
    BY <1>1, <1>3, BeginsFacts
  <2>2. began'[cur[t]] = began[cur[t]]
    BY <2>1, BeginsFacts
  <2>3. Admitted(t)
    BY <1>3, <2>1 DEF IInv, AdmittedHolds
  <2> QED
    BY <1>1, <2>1, <2>2, <2>3 DEF Admitted, op
<1>4. AdmittedHolds'
  BY <1>3 DEF AdmittedHolds
<1>5. ASSUME NEW i \in 1 .. seq'
      PROVE  /\ began'[i].late => deadline'
             /\ began'[i].stopped => prov(began[i].by)' \in stopped'
             /\ redirects'[i] # None => redirects'[i].depth = began'[i].hops
  <2>1. CASE i \in 1 .. seq
    <3>1. began'[i] = began[i] /\ req'[began[i].by] = req[began[i].by]
      BY <2>1, BeginsFacts
    <3>2. (prov(began[i].by))' = prov(began[i].by)
      BY <3>1 DEF prov, op
    <3> QED
      BY <1>1, <2>1, <3>1, <3>2 DEF IInv, BeganHolds
  <2>2. CASE i = seq + 1
    <3>1. /\ began'[i].late => deadline
          /\ redirects[i] = None
          /\ began'[i].stopped => Op[q.op].provider \in stopped
          /\ began'[i].by = s /\ req'[s] = q
      BY <2>2, BeginsFacts
    <3>2. (prov(began[i].by))' = Op[q.op].provider
      BY <3>1 DEF prov, op
    <3>3. began'[i].late => deadline'
      BY <1>1, <3>1
    <3>4. redirects'[i] = None
      BY <1>1, <3>1
    <3>5. began'[i].stopped => Op[q.op].provider \in stopped'
      BY <1>1, <3>1
    <3> QED
      BY <3>2, <3>3, <3>4, <3>5
  <2> QED
    BY <1>2, <2>1, <2>2
<1>6. BeganHolds'
  BY <1>5 DEF BeganHolds
<1>7. ASSUME NEW i \in 1 .. seq', lines'[i] \cap {"send", "reused"} # {}
      PROVE  LET r == req'[began'[i].by] IN
             /\ r.asset \in Under[r.subject] /\ Place[r.subject] = "in"
             /\ Op[r.op].level = "observe" \/ Ceiling = "probe"
             /\ began'[i].hops <= MaxRedirects
  <2>1. i \in 1 .. seq
    BY <1>1, <1>2, <1>7
  <2>2. began'[i] = began[i] /\ req'[began[i].by] = req[began[i].by] /\ lines'[i] = lines[i]
    BY <2>1, BeginsFacts
  <2> QED
    BY <1>7, <2>1, <2>2 DEF IInv, ScopeHolds
<1>8. ScopeHolds'
  BY <1>7 DEF ScopeHolds
<1>9. StopHonoured'
  <2> SUFFICES ASSUME NEW i \in 1 .. seq', "send" \in lines'[i]
               PROVE  ~began'[i].late /\ ~began'[i].stopped
    BY DEF StopHonoured
  <2>1. i \in 1 .. seq
    BY <1>1, <1>2
  <2>2. began'[i] = began[i] /\ lines'[i] = lines[i]
    BY <2>1, BeginsFacts
  <2> QED
    BY <2>1, <2>2 DEF IInv, StopHonoured
<1> QED
  BY <1>4, <1>6, <1>8, <1>9

LEMMA BeginsCounts ==
    ASSUME IInv, NEW s \in Sends, NEW q, NEW k, NEW to, Begins(s, q, k, to)
    PROVE  SentCounts' /\ ReuseSamePrincipal' /\ LimitStops'
<1>1. to \in {"admit", "done"} /\ stopped \subseteq stopped' /\ sent' = sent /\ account' = account
      /\ lines'[seq + 1] \in {{}, {"refused"}}
  BY DEF Begins
<1>2. \A i \in 1 .. seq' : i \in 1 .. seq \/ i = seq + 1
  BY BeginsFacts
<1>3. \A i \in 1 .. seq : i \in 1 .. seq'
  BY BeginsFacts
<1>4. \A i \in 1 .. seq : began'[i] = began[i] /\ lines'[i] = lines[i] /\ req'[began[i].by] = req[began[i].by]
  BY BeginsFacts
<1>5. "send" \notin lines'[seq + 1] /\ "reused" \notin lines'[seq + 1]
  BY <1>1
<1>6. SentCounts'
  <2> SUFFICES ASSUME NEW t \in Sends
               PROVE  sent[t] <=> \E i \in 1 .. seq' : began'[i].by = t /\ "send" \in lines'[i]
    BY <1>1 DEF SentCounts
  <2>1. sent[t] <=> \E i \in 1 .. seq : began[i].by = t /\ "send" \in lines[i]
    BY DEF IInv, SentCounts
  <2> QED
    BY <1>2, <1>3, <1>4, <1>5, <2>1
<1>7. ASSUME NEW i \in 1 .. seq', "reused" \in lines'[i]
      PROVE  LET r == req'[began'[i].by] IN Op[r.op].auth => <<r.op, r.subject, account'>> \in Prior
  <2>1. i \in 1 .. seq
    BY <1>2, <1>5, <1>7
  <2> QED
    BY <1>1, <1>4, <1>7, <2>1 DEF IInv, ReuseSamePrincipal
<1>8. ReuseSamePrincipal'
  BY <1>7 DEF ReuseSamePrincipal
<1>9. ASSUME NEW t \in Sends
      PROVE  /\ (pc'[t] = "done" /\ ~web(t)' /\ (Limited(t)' \/ res'[t].decision = "refused:rate_limit"))
                   => prov(t)' \in stopped'
             /\ pc'[t] = "backoff" =>
                   (res'[t].decision # "refused:rate_limit" /\ (Limited(t)' => rt'[t] = "rate_limit"))
  <2>1. CASE t = s
    <3>1. pc'[t] = to /\ req'[t] = q
      BY <2>1, BeginsFacts
    <3>2. prov(t)' = Op[q.op].provider
      BY <3>1 DEF prov, op
    <3> QED
      BY <1>1, <2>1, <3>1, <3>2 DEF Begins, web, Limited
  <2>2. CASE t # s
    <3>1. pc'[t] = pc[t] /\ req'[t] = req[t] /\ res'[t] = res[t] /\ rt'[t] = rt[t]
      <4>1. pc'[t] = pc[t] /\ req'[t] = req[t] /\ rt'[t] = rt[t]
        BY <2>2, BeginsFacts
      <4>2. res'[t] = res[t]
        BY <2>2 DEF Begins
      <4> QED
        BY <4>1, <4>2
    <3>2. prov(t)' = prov(t) /\ web(t)' = web(t) /\ Limited(t)' = Limited(t)
      BY <3>1 DEF prov, op, web, Limited
    <3> QED
      BY <1>1, <3>1, <3>2 DEF IInv, LimitStops
  <2> QED
    BY <2>1, <2>2
<1>10. LimitStops'
  BY <1>9 DEF LimitStops
<1> QED
  BY <1>6, <1>8, <1>10

LEMMA BeginsPages ==
    ASSUME IInv, NEW s \in Sends, NEW q, NEW k, NEW to, Begins(s, q, k, to)
    PROVE  Stored' /\ Rooted' /\ Unanswered' /\ Followed' /\ PagesFollowOnce'
<1>1. to \in {"admit", "done"} /\ pages' = pages /\ read' = read /\ prev' = prev
      /\ pc[s] \in {"idle", "backoff"}
  BY DEF Begins
<1>2. \A i \in 1 .. seq' : (pages[i] # None \/ read[i] # None) => i \in 1 .. seq
  BY BeginsFacts
<1>3. \A i \in 1 .. seq : i \in 1 .. seq'
  BY BeginsFacts
<1>4. Stored'
  <2> SUFFICES ASSUME NEW i \in 1 .. seq', pages[i] # None
               PROVE  /\ read[i] # None
                      /\ pages[i].root = read[i].root /\ pages[i].n = read[i].n + 1
                      /\ \A j \in 1 .. seq' :
                            (read[j] # None /\ read[j].root = pages[i].root) => read[j].n < pages[i].n
    BY <1>1 DEF Stored
  <2> QED
    BY <1>2 DEF IInv, Stored
<1>5. Rooted'
  <2> SUFFICES ASSUME NEW i \in 1 .. seq', read[i] # None
               PROVE  read[i].root \in 1 .. seq' /\ read[read[i].root] # None
    BY <1>1 DEF Rooted
  <2> QED
    BY <1>2, <1>3 DEF IInv, Rooted
<1>6. PagesFollowOnce'
  <2>1. ASSUME NEW i \in 1 .. seq', NEW j \in 1 .. seq', read[i] # None, read[j] # None, i # j
        PROVE  <<read[i].root, read[i].n>> # <<read[j].root, read[j].n>>
    BY <1>2, <2>1 DEF IInv, PagesFollowOnce
  <2>2. ASSUME NEW i \in 1 .. seq', read[i] # None, read[i].more
        PROVE  \/ pages[i] # None
               \/ \E j \in 1 .. seq' : read[j] # None /\ read[j].root = read[i].root /\ read[j].n = read[i].n + 1
    BY <1>2, <1>3, <2>2 DEF IInv, PagesFollowOnce
  <2> QED
    BY <1>1, <2>1, <2>2 DEF PagesFollowOnce
<1>7. \A t \in Sends : pc'[t] = IF t = s THEN to ELSE pc[t]
  BY BeginsFacts
<1>8. Unanswered'
  <2> SUFFICES ASSUME NEW t \in Sends, pc'[t] \in {"admit", "resolve", "throttle", "flight"}
               PROVE  read[cur'[t]] = None
    BY <1>1 DEF Unanswered
  <2>1. CASE t = s
    BY <2>1, BeginsFacts
  <2>2. CASE t # s
    <3>1. cur'[t] = cur[t] /\ pc'[t] = pc[t]
      BY <2>2, BeginsFacts
    <3> QED
      BY <3>1 DEF IInv, Unanswered
  <2> QED
    BY <2>1, <2>2
<1>9. \A t \in Sends : Following(t)' <=> Following(t)
  BY <1>1, <1>7 DEF Following
<1>10. \A t \in Sends : Following(t) => req'[t] = req[t]
  BY <1>1, BeginsFacts DEF Following
<1>11. ASSUME NEW t \in Sends, Following(t)'
       PROVE  IF req'[t].nextOf = 0 THEN prev[t] = None
              ELSE LET p == pages[req'[t].nextOf] IN
                   /\ p # None /\ p.reading
                   /\ prev[t] # None /\ prev[t].root = p.root /\ prev[t].n = p.n
  BY <1>9, <1>10, <1>11 DEF IInv, Followed
<1>12. ASSUME NEW t \in Sends, NEW u \in Sends, Following(t)', Following(u)',
              req'[t].nextOf = req'[u].nextOf, req'[t].nextOf # 0
       PROVE  t = u
  BY <1>9, <1>10, <1>12 DEF IInv, Followed
<1>13. ASSUME NEW i \in Ids, pages[i] # None, pages[i].reading
       PROVE  \E t \in Sends : Following(t)' /\ req'[t].nextOf = i
  <2>1. PICK t \in Sends : Following(t) /\ req[t].nextOf = i
    BY <1>13 DEF IInv, Followed
  <2> QED
    BY <1>9, <1>10, <2>1
<1>14. Followed'
  BY <1>1, <1>11, <1>12, <1>13 DEF Followed
<1> QED
  BY <1>4, <1>5, <1>6, <1>8, <1>14

\* An attempt that begins, or is refused as it begins, keeps the invariant.
LEMMA BeginsKeeps ==
    ASSUME IInv, NEW s \in Sends, NEW q, NEW k, NEW to, Begins(s, q, k, to)
    PROVE  IInv'
<1>1. Typed'
  BY BeginsFacts
<1>2. Calls' /\ IdsKnown' /\ InProgressLines' /\ EndedLines'
  BY BeginsBase
<1>3. AdmittedHolds' /\ BeganHolds' /\ ScopeHolds' /\ StopHonoured'
  BY BeginsAdmitted
<1>4. SentCounts' /\ ReuseSamePrincipal' /\ LimitStops'
  BY BeginsCounts
<1>5. Stored' /\ Rooted' /\ Unanswered' /\ Followed' /\ PagesFollowOnce'
  BY BeginsPages
<1> QED
  BY <1>1, <1>2, <1>3, <1>4, <1>5 DEF IInv

\* Call: a collector hands the gate a request.
LEMMA CallKeeps ==
    ASSUME IInv, NEW s \in Sends, Call(s)
    PROVE  IInv'
<1>1. PICK q \in [op : DOMAIN Op, asset : Assets, subject : Subjects, nextOf : 0 .. seq, redirectOf : 0 .. seq] :
        /\ q.nextOf # 0 => Op[q.op].class = "list"
        /\ q.redirectOf # 0 => Op[q.op].provider = "web"
        /\ Op[q.op].provider # "web" => Place[q.subject] # "entry_point"
        /\ req' = [req EXCEPT ![s] = q]
        /\ pc' = [pc EXCEPT ![s] = "admit"]
        /\ Begin(s, 1)
        /\ Began(s, q, 1)
        /\ UNCHANGED <<lines, stopped, pages, redirects, kept, principal, prev, depth, who, res, sent, envVars, read>>
  BY DEF Call
<1>2. /\ pc[s] = "idle" /\ seq \in Nat /\ MaxIds \in Nat /\ seq < MaxIds /\ Retries \in Nat
  BY ConstantsAssumption DEF Call, IInv, Typed, ConstantsAssumption
<1>3. q \in Requests /\ q.nextOf <= seq /\ q.redirectOf <= seq
  BY <1>1, <1>2 DEF Requests
<1>4. /\ lines \in [Ids -> SUBSET Events] /\ faults \in 0 .. MaxFaults /\ stopped \subseteq Providers \ {"web"}
      /\ res = [t \in Sends |-> res[t]]
  BY DEF IInv, Typed
<1>5. lines[seq + 1] = {}
  <2>1. seq + 1 \in Ids /\ ~(seq + 1 <= seq)
    BY <1>2 DEF Ids
  <2> QED
    BY <2>1 DEF IInv, IdsKnown
<1>6. 1 \in 0 .. Retries + 1
  BY <1>2
<1>7. Begins(s, q, 1, "admit")
  BY <1>1, <1>2, <1>3, <1>4, <1>5, <1>6 DEF Begins, envVars, AuditKept
<1> QED
  BY <1>7, BeginsKeeps

\* The facts every retry has: the request of the call, and a number within the
\* bound.
LEMMA RetryFacts ==
    ASSUME IInv, NEW s \in Sends, pc[s] = "backoff", n[s] <= Retries
    PROVE  /\ n[s] + 1 \in 0 .. Retries + 1
           /\ req[s] \in Requests /\ req[s].nextOf <= seq /\ req[s].redirectOf <= seq
           /\ req[s].nextOf # 0 => Op[req[s].op].class = "list"
           /\ req[s].redirectOf # 0 => Op[req[s].op].provider = "web"
           /\ Op[req[s].op].provider # "web" => Place[req[s].subject] # "entry_point"
           /\ req = [req EXCEPT ![s] = req[s]]
           /\ seq < MaxIds => (seq + 1 \in Ids /\ lines[seq + 1] = {})
<1>1. /\ seq \in Nat /\ MaxIds \in Nat /\ Retries \in Nat /\ n[s] \in 0 .. Retries + 1 /\ seq <= MaxIds
      /\ req \in [Sends -> Requests \cup {None}] /\ lines \in [Ids -> SUBSET Events]
  BY ConstantsAssumption DEF IInv, Typed, ConstantsAssumption
<1>2. n[s] + 1 \in 0 .. Retries + 1 /\ req = [req EXCEPT ![s] = req[s]]
  BY <1>1
<1>3. CallOf(s) /\ cur[s] \in 1 .. seq /\ req[s].nextOf \in Nat /\ req[s].redirectOf \in Nat
  BY CallFacts
<1>4. req[s].nextOf <= seq /\ req[s].redirectOf <= seq
  BY <1>1, <1>3 DEF CallOf
<1>5. /\ req[s] \in Requests
      /\ req[s].nextOf # 0 => Op[req[s].op].class = "list"
      /\ req[s].redirectOf # 0 => Op[req[s].op].provider = "web"
      /\ Op[req[s].op].provider # "web" => Place[req[s].subject] # "entry_point"
  BY <1>3 DEF CallOf, op, web, prov
<1>6. seq < MaxIds => (seq + 1 \in Ids /\ lines[seq + 1] = {})
  <2>1. seq < MaxIds => (seq + 1 \in Ids /\ ~(seq + 1 <= seq))
    BY <1>1 DEF Ids
  <2> QED
    BY <2>1 DEF IInv, IdsKnown
<1> QED
  BY <1>1, <1>2, <1>4, <1>5, <1>6

\* Retry: admitted again from the first check.
LEMMA RetryKeeps ==
    ASSUME IInv, NEW s \in Sends, Retry(s)
    PROVE  IInv'
<1>1. /\ pc[s] = "backoff" /\ n[s] <= Retries /\ Begin(s, n[s] + 1) /\ Began(s, req[s], n[s] + 1)
      /\ pc' = [pc EXCEPT ![s] = "admit"]
      /\ UNCHANGED <<lines, stopped, pages, redirects, kept, principal, req, prev, depth, who, res, sent, envVars, read>>
  BY DEF Retry
<1>2. seq < MaxIds
  BY <1>1 DEF Begin
<1>3. /\ n[s] + 1 \in 0 .. Retries + 1
      /\ req[s] \in Requests /\ req[s].nextOf <= seq /\ req[s].redirectOf <= seq
      /\ req[s].nextOf # 0 => Op[req[s].op].class = "list"
      /\ req[s].redirectOf # 0 => Op[req[s].op].provider = "web"
      /\ Op[req[s].op].provider # "web" => Place[req[s].subject] # "entry_point"
      /\ req = [req EXCEPT ![s] = req[s]]
      /\ lines[seq + 1] = {}
  BY <1>1, <1>2, RetryFacts
<1>4. /\ lines \in [Ids -> SUBSET Events] /\ faults \in 0 .. MaxFaults /\ stopped \subseteq Providers \ {"web"}
      /\ res = [t \in Sends |-> res[t]]
  BY DEF IInv, Typed
<1>5. Begins(s, req[s], n[s] + 1, "admit")
  BY <1>1, <1>3, <1>4 DEF Begins, envVars, AuditKept
<1> QED
  BY <1>5, BeginsKeeps

\* A retry that is refused, with an id and a line of its own.
LEMMA RefuseRetryKeeps ==
    ASSUME IInv, NEW s \in Sends, NEW decision, pc[s] = "backoff", n[s] <= Retries,
           RefuseRetry(s, decision),
           decision \in {"refused:deadline", "refused:rate_limit", "refused:canceled"},
           stopped' \in {stopped, Stop(s)},
           decision = "refused:rate_limit" => stopped' = Stop(s),
           UNCHANGED <<pages, redirects, principal, req, prev, depth, who, sent, deadline, over, account, read>>
    PROVE  IInv'
<1>1. /\ Begin(s, n[s] + 1) /\ Began(s, req[s], n[s] + 1)
      /\ res' = [res EXCEPT ![s] = Ended(decision, seq + 1)]
      /\ pc' = [pc EXCEPT ![s] = "done"]
  BY DEF RefuseRetry
<1>2. PICK ok \in WriteOutcomes : Record(seq + 1, "refused", ok)
  BY DEF RefuseRetry
<1>3. seq < MaxIds
  BY <1>1 DEF Begin
<1>4. /\ n[s] + 1 \in 0 .. Retries + 1
      /\ req[s] \in Requests /\ req[s].nextOf <= seq /\ req[s].redirectOf <= seq
      /\ req[s].nextOf # 0 => Op[req[s].op].class = "list"
      /\ req[s].redirectOf # 0 => Op[req[s].op].provider = "web"
      /\ Op[req[s].op].provider # "web" => Place[req[s].subject] # "entry_point"
      /\ req = [req EXCEPT ![s] = req[s]]
      /\ lines[seq + 1] = {} /\ seq + 1 \in Ids
  BY <1>3, RetryFacts
<1>5. Typed
  BY DEF IInv
<1>6. /\ ok \in BOOLEAN
      /\ lines' \in [Ids -> SUBSET Events] /\ faults' \in 0 .. MaxFaults
      /\ lines'[seq + 1] = IF ok THEN lines[seq + 1] \cup {"refused"} ELSE lines[seq + 1]
      /\ \A j \in Ids : j # seq + 1 => lines'[j] = lines[j]
      /\ AuditKept' => (AuditKept /\ ok)
  BY <1>2, <1>4, <1>5, RecordFacts DEF Events
<1>7. /\ res'[s] = Ended(decision, seq + 1) /\ \A t \in Sends : t # s => res'[t] = res[t]
      /\ res' = [t \in Sends |-> res'[t]]
  <2>1. res = [t \in Sends |-> res[t]]
    BY <1>5 DEF Typed
  <2>2. res' = [t \in Sends |-> IF t = s THEN Ended(decision, seq + 1) ELSE res[t]]
    BY <1>1, <2>1
  <2> QED
    BY <2>2
<1>8. res'[s].decision = decision /\ res'[s].id = seq + 1
  BY <1>7 DEF Ended
<1>9. stopped \subseteq stopped' /\ stopped' \subseteq Providers \ {"web"}
  BY <1>5, StopFacts DEF Typed
<1>10. (decision = "refused:rate_limit" /\ Op[req[s].op].provider # "web") => Op[req[s].op].provider \in stopped'
  BY StopFacts DEF web, prov, op
<1>11. lines'[seq + 1] \in {{}, {"refused"}} /\ (AuditKept' => lines'[seq + 1] = {"refused"})
  BY <1>4, <1>6
<1>12. Begins(s, req[s], n[s] + 1, "done")
  BY <1>1, <1>4, <1>6, <1>7, <1>8, <1>9, <1>10, <1>11 DEF Begins
<1> QED
  BY <1>12, BeginsKeeps

LEMMA CutRetryKeeps ==
    ASSUME IInv, NEW s \in Sends, CutRetry(s)
    PROVE  IInv'
<1>1. /\ pc[s] = "backoff" /\ n[s] <= Retries
      /\ stopped' = IF rt[s] = "rate_limit" THEN Stop(s) ELSE stopped
      /\ UNCHANGED <<pages, redirects, kept, principal, req, prev, depth, who, sent,
                     deadline, over, canceled, account, read>>
  BY DEF CutRetry
<1>2. PICK past \in BOOLEAN :
        /\ past \/ rt[s] = "rate_limit"
        /\ RefuseRetry(s, IF past THEN "refused:deadline" ELSE "refused:rate_limit")
  BY DEF CutRetry
<1> QED
  BY <1>1, <1>2, RefuseRetryKeeps

LEMMA CancelRetryKeeps ==
    ASSUME IInv, NEW s \in Sends, CancelRetry(s)
    PROVE  IInv'
BY RefuseRetryKeeps DEF CancelRetry

-----------------------------------------------------------------------------
(* The inductive invariant holds.                                          *)

\* Nothing the invariant reads is changed but the environment's own facts,
\* and those only become true.
LEMMA EnvironmentKeeps ==
    ASSUME IInv, UNCHANGED <<gateVars, sendVars, account, faults, began, read>>,
           deadline => deadline', deadline' \in BOOLEAN, over' \in BOOLEAN
    PROVE  IInv'
<1> USE DEF gateVars, sendVars
<1>1. Typed' /\ Calls' /\ IdsKnown' /\ InProgressLines' /\ EndedLines'
  BY DEF IInv, Typed, Calls, CallOf, IdsKnown, InProgressLines, EndedLines, AuditKept, InProgress,
         op, prov, web
<1>2. AdmittedHolds' /\ BeganHolds' /\ ScopeHolds' /\ StopHonoured'
  BY DEF IInv, AdmittedHolds, Admitted, BeganHolds, ScopeHolds, StopHonoured, op, prov
<1>3. Stored' /\ Rooted' /\ Unanswered' /\ Followed' /\ PagesFollowOnce'
  BY DEF IInv, Stored, Rooted, Unanswered, Followed, Following, PagesFollowOnce
<1>4. SentCounts' /\ ReuseSamePrincipal' /\ LimitStops'
  BY DEF IInv, SentCounts, ReuseSamePrincipal, LimitStops, Limited, web, prov, op
<1> QED
  BY <1>1, <1>2, <1>3, <1>4 DEF IInv

\* Nothing has been sent, and nothing is pending.
LEMMA GateInit == Init => IInv
<1> SUFFICES ASSUME Init PROVE IInv
  OBVIOUS
<1>1. /\ 0 \in 0 .. MaxIds /\ 0 \in 0 .. Retries + 1 /\ 0 \in 0 .. MaxRedirects /\ 0 \in 0 .. MaxFaults
      /\ \A i \in Ids : ~(i <= 0)
  BY ConstantsAssumption DEF ConstantsAssumption, Ids
<1>2. Typed
  BY <1>1 DEF Init, Typed, PCs
<1>3. Calls /\ IdsKnown /\ InProgressLines /\ EndedLines
  BY <1>1 DEF Init, Calls, IdsKnown, InProgressLines, EndedLines, Shapes
<1>4. AdmittedHolds /\ BeganHolds /\ ScopeHolds /\ StopHonoured
  BY DEF Init, AdmittedHolds, BeganHolds, ScopeHolds, StopHonoured
<1>5. Stored /\ Rooted /\ Unanswered /\ Followed /\ PagesFollowOnce
  BY DEF Init, Stored, Rooted, Unanswered, Followed, Following, PagesFollowOnce
<1>6. SentCounts /\ ReuseSamePrincipal /\ LimitStops
  BY DEF Init, SentCounts, ReuseSamePrincipal, LimitStops
<1> QED
  BY <1>2, <1>3, <1>4, <1>5, <1>6 DEF IInv

\* One case per action.
LEMMA GateStep == IInv /\ [Next]_vars => IInv'
<1> SUFFICES ASSUME IInv, [Next]_vars PROVE IInv'
  OBVIOUS
<1>1. ASSUME NEW s \in Sends, Call(s) PROVE IInv'
  BY <1>1, CallKeeps
<1>2. ASSUME NEW s \in Sends, Step(s) PROVE IInv'
  <2>1. CASE Admit(s)           BY <2>1, AdmitKeeps
  <2>2. CASE ResolveFails(s)    BY <2>2, ResolveFailsKeeps
  <2>3. CASE Resolved(s)        BY <2>3, ResolvedKeeps
  <2>4. CASE AnswerFromPrior(s) BY <2>4, AnswerFromPriorKeeps
  <2>5. CASE ThrottleFails(s)   BY <2>5, ThrottleFailsKeeps
  <2>6. CASE Send(s)            BY <2>6, SendKeeps
  <2>7. CASE AnswerOK(s)        BY <2>7, AnswerOKKeeps
  <2>8. CASE AnswerRedirect(s)  BY <2>8, AnswerRedirectKeeps
  <2>9. CASE AnswerGap(s)       BY <2>9, AnswerGapKeeps
  <2>10. CASE AnswerExhausted(s) BY <2>10, AnswerExhaustedKeeps
  <2>11. CASE AnswerRetry(s)    BY <2>11, AnswerRetryKeeps
  <2>12. CASE AnswerCut(s)      BY <2>12, AnswerCutKeeps
  <2>13. CASE RetriesOut(s)     BY <2>13, ExhaustedKeeps DEF RetriesOut
  <2>14. CASE WaitTooLong(s)    BY <2>14, ExhaustedKeeps DEF WaitTooLong
  <2>15. CASE CutRetry(s)       BY <2>15, CutRetryKeeps
  <2>16. CASE CancelRetry(s)    BY <2>16, CancelRetryKeeps
  <2>17. CASE Retry(s)          BY <2>17, RetryKeeps
  <2> QED
    BY <1>2, <2>1, <2>2, <2>3, <2>4, <2>5, <2>6, <2>7, <2>8, <2>9, <2>10, <2>11, <2>12, <2>13,
       <2>14, <2>15, <2>16, <2>17 DEF Step
<1>3. CASE DeadlinePasses
  <2>1. over \in BOOLEAN
    BY DEF IInv, Typed
  <2> QED
    BY <1>3, <2>1, EnvironmentKeeps DEF DeadlinePasses
<1>4. CASE WindowEnds
  <2>1. deadline \in BOOLEAN
    BY DEF IInv, Typed
  <2> QED
    BY <1>4, <2>1, EnvironmentKeeps DEF WindowEnds
<1>5. CASE RunCanceled
  <2>1. deadline \in BOOLEAN /\ over \in BOOLEAN
    BY DEF IInv, Typed
  <2> QED
    BY <1>5, <2>1, EnvironmentKeeps DEF RunCanceled
<1>6. CASE UNCHANGED vars
  <2>1. deadline \in BOOLEAN /\ over \in BOOLEAN
    BY DEF IInv, Typed
  <2> QED
    BY <1>6, <2>1, EnvironmentKeeps DEF vars, envVars
<1> QED
  BY <1>1, <1>2, <1>3, <1>4, <1>5, <1>6 DEF Next

\* The inductive invariant.
THEOREM GateInvariant == Spec => []IInv
<1> QED
  BY GateInit, GateStep, PTL DEF Spec

-----------------------------------------------------------------------------
(* What the gate promises.                                                 *)

\* The audit log answers for every request, whatever retries, cuts,
\* cancellations and concurrent calls there were (audit.go Entry).
THEOREM AuditAlwaysHolds == Spec => []AuditHolds
<1>1. IInv => AuditHolds
  <2> SUFFICES ASSUME IInv PROVE AuditHolds
    OBVIOUS
  <2>1. TypeOK
    <3>1. cur \in [Sends -> 0 .. seq]
      <4>1. \A s \in Sends : cur[s] \in 0 .. seq
        <5> SUFFICES ASSUME NEW s \in Sends PROVE cur[s] \in 0 .. seq
          OBVIOUS
        <5>1. seq \in Nat
          BY ConstantsAssumption DEF IInv, Typed, ConstantsAssumption
        <5>2. CASE pc[s] = "idle"
          BY <5>1, <5>2 DEF IInv, Calls
        <5>3. CASE pc[s] # "idle"
          BY <5>1, <5>3, CallFacts
        <5> QED
          BY <5>2, <5>3
      <4> QED
        BY <4>1 DEF IInv, Typed
    <3>2. \A s \in Sends : /\ pc[s] # "idle" => req[s] \in Requests
                           /\ rt[s] # None <=> pc[s] = "backoff"
      BY DEF IInv, Calls, CallOf
    <3> QED
      BY <3>1, <3>2 DEF TypeOK, IInv, Typed
  <2>2. AuditTrail
    BY DEF AuditTrail, IInv, EndedLines, Shapes, Finals
  <2> QED
    BY <2>1, <2>2 DEF AuditHolds
<1> QED
  BY <1>1, GateInvariant, PTL

\* A page of a list is followed once, and is marked as being read exactly
\* while one attempt follows it (bindParams, keepPage).
THEOREM PagesAlwaysHold == Spec => []PagesHold
<1>1. IInv => PagesHold
  <2> SUFFICES ASSUME IInv PROVE PagesHold
    OBVIOUS
  <2>1. ASSUME NEW s \in Sends, NEW i \in 1 .. seq
        PROVE  Follows(s, i) <=> (Following(s) /\ req[s].nextOf = i)
    <3>1. Following(s) => req[s] \in Requests
      BY DEF Following, IInv, Calls, CallOf
    <3>2. Following(s) => req[s] # None
      BY <3>1, NoneAssumption DEF NoneAssumption
    <3> QED
      BY <3>2 DEF Follows, Following
  <2>2. ASSUME NEW i \in 1 .. seq, pages[i] # None
        PROVE  pages[i].reading <=> Cardinality({s \in Sends : Follows(s, i)}) = 1
    <3>1. i \in Ids /\ i # 0 /\ pages[i].reading \in BOOLEAN
      BY <2>2, ConstantsAssumption DEF IInv, Typed, Ids, ConstantsAssumption, PageRecords
    <3>2. CASE pages[i].reading
      <4>1. PICK s \in Sends : Following(s) /\ req[s].nextOf = i
        BY <2>2, <3>1, <3>2 DEF IInv, Followed
      <4>2. {t \in Sends : Follows(t, i)} = {s}
        BY <2>1, <3>1, <4>1 DEF IInv, Followed
      <4> QED
        BY <3>2, <4>2, FS_Singleton
    <3>3. CASE ~pages[i].reading
      <4>1. {t \in Sends : Follows(t, i)} = {}
        BY <2>1, <3>1, <3>3 DEF IInv, Followed
      <4> QED
        BY <3>3, <4>1, FS_EmptySet
    <3> QED
      BY <3>1, <3>2, <3>3
  <2>3. PageReaders
    BY <2>2 DEF PageReaders
  <2> QED
    BY <2>3 DEF PagesHold, IInv
<1> QED
  BY <1>1, GateInvariant, PTL

\* What is sent was in scope, before the deadline and to a provider no rate
\* limit had stopped, also on a retry, a hop and a resume (admit.go attempt).
THEOREM SendsAlwaysAllowed == Spec => []SendsAllowed
<1>1. IInv => SendsAllowed
  <2> SUFFICES ASSUME IInv PROVE SendsAllowed
    OBVIOUS
  <2>1. RateLimitStops
    BY DEF RateLimitStops, IInv, LimitStops, Limited
  <2> QED
    BY <2>1 DEF SendsAllowed, IInv
<1> QED
  BY <1>1, GateInvariant, PTL

\* An answer of an earlier run is reused under the account it was recorded
\* under, and Result.Sent counts what was sent (identity, sendRetrying).
THEOREM ReuseAlwaysHolds == Spec => []ReuseHolds
<1>1. IInv => ReuseHolds
  BY DEF ReuseHolds, SentAccounts, IInv, SentCounts
<1> QED
  BY <1>1, GateInvariant, PTL

\* Only the answer to an attempt in flight, inside its window, keeps a
\* redirect, a page or a success (cutAtEnd).
LEMMA WindowStep ==
    IInv /\ [Next]_vars =>
      (over =>
        /\ \A k \in kept' \ kept : Op[k[1]].level # "probe"
        /\ \A i \in Ids : (redirects'[i] # redirects[i] \/ read'[i] # read[i]) =>
                Op[req[began[i].by].op].level # "probe")
<1> SUFFICES ASSUME IInv, [Next]_vars, over
             PROVE  /\ \A k \in kept' \ kept : Op[k[1]].level # "probe"
                    /\ \A i \in Ids : (redirects'[i] # redirects[i] \/ read'[i] # read[i]) =>
                            Op[req[began[i].by].op].level # "probe"
  OBVIOUS
<1>1. CASE UNCHANGED <<kept, redirects, read>>
  BY <1>1
<1>2. ASSUME NEW s \in Sends, AnswerOK(s) \/ AnswerRedirect(s)
      PROVE  /\ \A k \in kept' \ kept : Op[k[1]].level # "probe"
             /\ \A i \in Ids : (redirects'[i] # redirects[i] \/ read'[i] # read[i]) =>
                     Op[req[began[i].by].op].level # "probe"
  <2>1. pc[s] = "flight" /\ op(s).level # "probe"
    BY <1>2 DEF AnswerOK, AnswerRedirect, InWindow, probe
  <2>2. began[cur[s]].by = s
    BY <2>1, CallFacts DEF CallOf
  <2>3. \A i \in Ids : i # cur[s] => (redirects'[i] = redirects[i] /\ read'[i] = read[i])
    BY <1>2 DEF AnswerOK, AnswerRedirect, IInv, Typed
  <2>4. ASSUME NEW k \in kept' \ kept
        PROVE  k[1] = req[s].op
    <3>1. k = Identity(s) /\ Identity(s) # None
      BY <1>2, <2>4 DEF AnswerOK, AnswerRedirect
    <3> QED
      BY <3>1 DEF Identity
  <2> QED
    BY <2>1, <2>2, <2>3, <2>4 DEF op
<1>3. ASSUME NEW s \in Sends, Call(s) \/ Step(s), ~AnswerOK(s), ~AnswerRedirect(s)
      PROVE  UNCHANGED <<kept, redirects, read>>
  BY <1>3 DEF Step, Call, Admit, ResolveFails, Resolved, AnswerFromPrior, ThrottleFails, Send,
              AnswerGap, AnswerExhausted, AnswerRetry, AnswerCut, RetriesOut, WaitTooLong,
              CutRetry, CancelRetry, Retry, gateVars
<1>4. CASE DeadlinePasses \/ WindowEnds \/ RunCanceled
  <2>1. UNCHANGED <<kept, redirects, read>>
    BY <1>4 DEF DeadlinePasses, WindowEnds, RunCanceled, gateVars
  <2> QED
    BY <1>1, <2>1
<1>5. CASE UNCHANGED vars
  <2>1. UNCHANGED <<kept, redirects, read>>
    BY <1>5 DEF vars, gateVars
  <2> QED
    BY <1>1, <2>1
<1> QED
  BY <1>1, <1>2, <1>3, <1>4, <1>5 DEF Next

\* Once its authorization window is over a probe leaves nothing behind that a
\* later request or run could use (cutAtEnd).
THEOREM WindowAlwaysCutsReads == Spec => WindowCutsReads
<1>1. IInv /\ [Next]_vars =>
        [over =>
          /\ \A k \in kept' \ kept : Op[k[1]].level # "probe"
          /\ \A i \in Ids : (redirects'[i] # redirects[i] \/ read'[i] # read[i]) =>
                  Op[req[began[i].by].op].level # "probe"]_vars
  BY WindowStep
<1> QED
  BY <1>1, GateInvariant, PTL DEF Spec, WindowCutsReads
=============================================================================
