---------------------------- MODULE HostProofs ------------------------------
(***************************************************************************)
(* Proofs about Host.tla: for any plan, target and elevation, whatever the *)
(* peer, the deadlines and the operator do, the collection of a host keeps *)
(* what HostPromise.tla promises, and what is sent to a host is earned by  *)
(* its canary, traced in order, and refused only for cause.                *)
(***************************************************************************)
EXTENDS Host, FiniteSetTheorems, SequenceTheorems, TLAPS

-----------------------------------------------------------------------------
(* The inductive invariant.                                                *)

Whats == {"canary", "platform", "uid", "which", "check"}
Commands == [what : Whats \cup {"none"}, st : {"idle", "running", "ended"}, end : Ends, late : BOOLEAN,
             took : {"none", "timeout"}, sudo : BOOLEAN, begun : BOOLEAN]
Names == Whats \X Nat
Lines == [ref : Names \X Nat, ran : BOOLEAN]

\* The type of every variable.
Typed ==
    /\ TypeOK
    /\ mode \in {"local", "ssh", "jump"} /\ elevate \in {"none", "sudo", "root"}
    /\ open \in BOOLEAN /\ verified \in BOOLEAN
    /\ reach \in [dialled : BOOLEAN, connected : BOOLEAN, jdialled : BOOLEAN, jconnected : BOOLEAN]
    /\ cmd \in Commands
    /\ sheet \in [incomplete : BOOLEAN, lost : BOOLEAN]
    /\ err \in {"none", "access", "excluded", "unreachable", "transport", "canary", "platform"}
    /\ echo \in Ends \cup {"none"}
    /\ sent \in Seq(Names) /\ trace \in Seq(Lines)
    /\ outcome \in [status : {"none", "not_collected", "refused", "failed", "incomplete", "collected"},
                    reason : {"none", "limit_reached", "refused", "failed"}]

\* A command is in flight exactly while Collect waits for it; only a local one
\* can fail to start, only a lost one never reached the host, and a local session
\* has no canary.
InHand ==
    /\ pc # "exec" => cmd = Idle
    /\ pc = "exec" => cmd.st # "idle" /\ cmd.what # "none"
    /\ (pc = "exec" /\ ~cmd.begun) => cmd.st = "ended" /\ cmd.end = "lost"
    /\ cmd.end = "failed" => mode = "local"
    /\ cmd.what \in {"canary", "platform"} => mode # "local"
    /\ cmd.what \in {"which", "check"} => at <= N
    /\ pc \in {"dial_hop", "hs_hop", "open", "dial", "hs", "canary", "platform"} => mode # "local"
    /\ pc = "elevate" => at <= N

\* How far the session is: nothing is sent before its canary, and everything
\* after it on a session that was proved.
Early == pc \in {"start", "dial_hop", "hs_hop", "open", "dial", "hs", "canary"}
Proving == pc = "exec" /\ cmd.what = "canary"
Reading == pc \in {"platform", "root", "plan", "elevate"} \/ (pc = "exec" /\ cmd.what # "canary")
Proved == mode = "local" \/ echo = "good"
Session ==
    /\ Early => sent = <<>> /\ echo = "none"
    /\ Proving => echo = "none" /\ Len(sent) <= 1
    /\ Reading => Proved
    /\ (Proving \/ Reading) => verified
    /\ (pc \in {"hs", "canary"} \/ Proving \/ Reading) => mode = "local" \/ reach.connected
    /\ Reading => mode = "local" \/ sent # <<>>
    /\ sent # <<>> => mode = "local" \/ sent[1][1] = "canary"

\* How far the plan is.
Planning == pc \in {"plan", "elevate"} \/ (pc = "exec" /\ cmd.what \in {"which", "check"})
Baseline ==
    /\ \A i \in 1..N : result[i] # "none" <=> (i < at \/ (i = at /\ sheet.lost))
    /\ sheet.lost => at <= N /\ Proved
    /\ (pc \notin {"returned", "done"} \/ err # "none") => ~sheet.lost /\ ~sheet.incomplete
    /\ ((pc \notin {"returned", "done"} /\ ~Planning) \/ err # "none") => at = 1
    /\ (pc = "returned" /\ err = "none" /\ ~sheet.lost) =>
          Proved /\ (sheet.incomplete <=> at <= N)

\* What Collect returned, and that it returned nothing before.
Ending ==
    /\ pc \notin {"returned", "done"} => err = "none"
    /\ pc # "done" => outcome.status = "none"
    /\ err \in {"access", "excluded"} => sent = <<>>
    /\ err = "canary" => echo \in Statuses \ {"good"}

\* A line's reference counts the lines of its check so far, and the commands
\* that ran are the lines' in their order.
LinesOf(a, name) == {k \in DOMAIN a : a[k].ref[1] = name}
NewLine(a, name, ran) == [ref |-> Reference(name, Cardinality(LinesOf(a, name))), ran |-> ran]
CountedIn(a) == \A k \in DOMAIN a : a[k].ref[2] = Cardinality({j \in 1..k : a[j].ref[1] = a[k].ref[1]})
RanIn(a) == {k \in DOMAIN a : a[k].ran}
MatchedIn(a, s) == \A k \in RanIn(a) : a[k].ref[1] = s[Cardinality({j \in RanIn(a) : j <= k})]

\* Every command that was sent has its line once it is over.
Ledger ==
    /\ CountedIn(trace) /\ MatchedIn(trace, sent)
    /\ Cardinality(RanIn(trace)) + InFlight = Len(sent)
    /\ (pc = "exec" /\ cmd.begun) => sent[Len(sent)] = Id(cmd.what)

IInv == Typed /\ InHand /\ Session /\ Baseline /\ Ending /\ Ledger /\ CanaryFirst /\ RefusedForCause

-----------------------------------------------------------------------------
(* The lines of the trace, as a sequence that grows by one.                       *)

\* The lines of some kind are finitely many.
LEMMA LinesFinite ==
    ASSUME NEW a \in Seq(Lines), NEW S, S \subseteq DOMAIN a
    PROVE  IsFiniteSet(S) /\ Cardinality(S) \in Nat
<1>1. DOMAIN a = 1..Len(a) /\ Len(a) \in Nat
  OBVIOUS
<1>2. IsFiniteSet(1..Len(a))
  BY <1>1, FS_Interval
<1>3. IsFiniteSet(S)
  BY <1>1, <1>2, FS_Subset
<1> QED
  BY <1>3, FS_CardinalityType

\* The number of a command that ran is among those that ran.
LEMMA RankBounds ==
    ASSUME NEW a \in Seq(Lines), NEW k \in RanIn(a)
    PROVE  Cardinality({j \in RanIn(a) : j <= k}) \in 1..Cardinality(RanIn(a))
<1> DEFINE S == {j \in RanIn(a) : j <= k}
<1>1. S \subseteq RanIn(a) /\ RanIn(a) \subseteq DOMAIN a /\ k \in Nat
  BY DEF RanIn
<1>2. k \in S
  BY <1>1
<1>3. IsFiniteSet(RanIn(a)) /\ IsFiniteSet(S) /\ Cardinality(S) \in Nat /\ Cardinality(RanIn(a)) \in Nat
  BY <1>1, LinesFinite
<1>4. Cardinality(S) <= Cardinality(RanIn(a))
  BY <1>1, <1>3, FS_Subset
<1>5. Cardinality(S) # 0
  BY <1>2, <1>3, FS_EmptySet
<1> QED
  BY <1>3, <1>4, <1>5

\* One more line: its reference counts it, and it answers for the command that
\* was sent last, when one was.
LEMMA LineAdded ==
    ASSUME NEW a \in Seq(Lines), NEW name \in Names, NEW ran \in BOOLEAN, NEW s \in Seq(Names),
           CountedIn(a), MatchedIn(a, s),
           ran => (Len(s) = Cardinality(RanIn(a)) + 1 /\ s[Len(s)] = name)
    PROVE  LET b == Append(a, NewLine(a, name, ran)) IN
           /\ b \in Seq(Lines) /\ CountedIn(b) /\ MatchedIn(b, s)
           /\ Cardinality(RanIn(b)) = Cardinality(RanIn(a)) + (IF ran THEN 1 ELSE 0)
           /\ \A other : other # name => LinesOf(b, other) = LinesOf(a, other)
<1> DEFINE l == NewLine(a, name, ran)
           b == Append(a, l)
           m == Len(a) + 1
<1>1. Cardinality(LinesOf(a, name)) \in Nat
  BY LinesFinite DEF LinesOf
<1>2. l \in Lines /\ l.ref[1] = name /\ l.ref[2] = Cardinality(LinesOf(a, name)) + 1 /\ l.ran = ran
  BY <1>1 DEF NewLine, Lines, Reference
<1> HIDE DEF l
<1>3. /\ b \in Seq(Lines) /\ Len(a) \in Nat /\ m \in Nat
      /\ DOMAIN a = 1..Len(a) /\ DOMAIN b = 1..m
      /\ b[m] = l /\ \A k \in DOMAIN a : b[k] = a[k] /\ k < m
  BY <1>2
<1> HIDE DEF b
<1>4. \A other : LinesOf(b, other) = IF other = name THEN LinesOf(a, other) \cup {m} ELSE LinesOf(a, other)
  <2> SUFFICES ASSUME NEW other
               PROVE  LinesOf(b, other) = IF other = name THEN LinesOf(a, other) \cup {m} ELSE LinesOf(a, other)
    OBVIOUS
  <2>1. \A k \in DOMAIN b : k \in DOMAIN a \/ k = m
    BY <1>3
  <2>2. m \in DOMAIN b /\ m \notin DOMAIN a /\ \A k \in DOMAIN a : k \in DOMAIN b
    BY <1>3
  <2> QED
    BY <1>2, <1>3, <2>1, <2>2 DEF LinesOf
<1>5. CountedIn(b)
  <2> SUFFICES ASSUME NEW k \in DOMAIN b
               PROVE  b[k].ref[2] = Cardinality({j \in 1..k : b[j].ref[1] = b[k].ref[1]})
    BY DEF CountedIn
  <2>1. CASE k \in DOMAIN a
    <3>1. \A j \in 1..k : b[j] = a[j]
      BY <1>3, <2>1
    <3>2. {j \in 1..k : b[j].ref[1] = b[k].ref[1]} = {j \in 1..k : a[j].ref[1] = a[k].ref[1]}
      BY <1>3, <2>1, <3>1
    <3> QED
      BY <1>3, <2>1, <3>2 DEF CountedIn
  <2>2. CASE k = m
    <3>1. {j \in 1..k : b[j].ref[1] = b[k].ref[1]} = LinesOf(b, name)
      BY <1>2, <1>3, <2>2 DEF LinesOf
    <3>2. LinesOf(b, name) = LinesOf(a, name) \cup {m}
      BY <1>4
    <3>3. m \notin LinesOf(a, name)
      BY <1>3 DEF LinesOf
    <3>4. IsFiniteSet(LinesOf(a, name))
      BY LinesFinite DEF LinesOf
    <3>5. Cardinality(LinesOf(a, name) \cup {m}) = Cardinality(LinesOf(a, name)) + 1
      BY <3>3, <3>4, FS_AddElement
    <3> QED
      BY <1>2, <1>3, <2>2, <3>1, <3>2, <3>5
  <2> QED
    BY <1>3, <2>1, <2>2
<1>6. RanIn(b) = IF ran THEN RanIn(a) \cup {m} ELSE RanIn(a)
  <2>1. \A k \in DOMAIN b : k \in DOMAIN a \/ k = m
    BY <1>3
  <2>2. m \in DOMAIN b /\ m \notin DOMAIN a /\ \A k \in DOMAIN a : k \in DOMAIN b
    BY <1>3
  <2> QED
    BY <1>2, <1>3, <2>1, <2>2 DEF RanIn
<1>7. Cardinality(RanIn(b)) = Cardinality(RanIn(a)) + (IF ran THEN 1 ELSE 0)
  <2>1. m \notin RanIn(a)
    BY <1>3 DEF RanIn
  <2>2. IsFiniteSet(RanIn(a)) /\ Cardinality(RanIn(a)) \in Nat
    BY LinesFinite DEF RanIn
  <2>3. Cardinality(RanIn(a) \cup {m}) = Cardinality(RanIn(a)) + 1
    BY <2>1, <2>2, FS_AddElement
  <2> QED
    BY <1>6, <2>2, <2>3
<1>8. MatchedIn(b, s)
  <2> SUFFICES ASSUME NEW k \in RanIn(b)
               PROVE  b[k].ref[1] = s[Cardinality({j \in RanIn(b) : j <= k})]
    BY DEF MatchedIn
  <2>1. CASE k \in RanIn(a)
    <3>1. k \in DOMAIN a /\ k < m
      BY <1>3, <2>1 DEF RanIn
    <3>2. {j \in RanIn(b) : j <= k} = {j \in RanIn(a) : j <= k}
      BY <1>3, <1>6, <3>1
    <3> QED
      BY <1>3, <2>1, <3>1, <3>2 DEF MatchedIn
  <2>2. CASE k \notin RanIn(a)
    <3>1. ran /\ k = m
      BY <1>6, <2>2
    <3>2. {j \in RanIn(b) : j <= k} = RanIn(b)
      <4>1. \A j \in RanIn(b) : j <= m
        <5>1. RanIn(b) \subseteq 1..m
          BY <1>3 DEF RanIn
        <5> QED
          BY <1>3, <5>1
      <4> QED
        BY <3>1, <4>1
    <3>3. Cardinality(RanIn(b)) = Len(s)
      BY <1>7, <3>1
    <3> QED
      BY <1>2, <1>3, <3>1, <3>2, <3>3
  <2> QED
    BY <2>1, <2>2
<1> QED
  BY <1>3, <1>4, <1>5, <1>7, <1>8 DEF b, l

\* A line of a check that sent nothing.
LEMMA SilentLine ==
    ASSUME NEW a \in Seq(Lines), NEW name \in Names, NEW s \in Seq(Names), CountedIn(a), MatchedIn(a, s)
    PROVE  LET b == Append(a, NewLine(a, name, FALSE)) IN
           /\ NewLine(a, name, FALSE) \in Lines
           /\ b \in Seq(Lines) /\ CountedIn(b) /\ MatchedIn(b, s)
           /\ Cardinality(RanIn(b)) = Cardinality(RanIn(a))
<1>1. PICK ran \in BOOLEAN : ran = FALSE
  OBVIOUS
<1>2. Cardinality(LinesOf(a, name)) \in Nat /\ Cardinality(RanIn(a)) \in Nat
  BY LinesFinite DEF LinesOf, RanIn
<1>3. NewLine(a, name, ran) \in Lines
  BY <1>2 DEF NewLine, Lines, Reference
<1> DEFINE b == Append(a, NewLine(a, name, ran))
<1>4. /\ b \in Seq(Lines) /\ CountedIn(b) /\ MatchedIn(b, s)
      /\ Cardinality(RanIn(b)) = Cardinality(RanIn(a)) + (IF ran THEN 1 ELSE 0)
  BY <1>1, LineAdded
<1>5. Cardinality(RanIn(b)) = Cardinality(RanIn(a))
  BY <1>1, <1>2, <1>4
<1>6. NewLine(a, name, FALSE) = NewLine(a, name, ran)
  BY <1>1
<1> QED
  BY <1>3, <1>4, <1>5, <1>6

\* Two lines are one after the other.
LEMMA TwoLines ==
    ASSUME NEW a \in Seq(Lines), NEW x \in Lines, NEW y \in Lines
    PROVE  a \o <<x, y>> = Append(Append(a, x), y)
<1>1. Append(a, x) \in Seq(Lines) /\ Append(Append(a, x), y) \in Seq(Lines) /\ a \o <<x, y>> \in Seq(Lines)
  OBVIOUS
<1>2. /\ Len(Append(Append(a, x), y)) = Len(a) + 2 /\ Len(a \o <<x, y>>) = Len(a) + 2
      /\ \A i \in 1..(Len(a) + 2) : (a \o <<x, y>>)[i] = Append(Append(a, x), y)[i]
  OBVIOUS
<1> QED
  BY <1>1, <1>2, SeqEqual

\* One more command: the lines answer for those before it.
LEMMA CommandAdded ==
    ASSUME NEW a \in Seq(Lines), NEW s \in Seq(Names), NEW name \in Names,
           MatchedIn(a, s), Cardinality(RanIn(a)) = Len(s)
    PROVE  LET t == Append(s, name) IN
           t \in Seq(Names) /\ MatchedIn(a, t) /\ Len(t) = Len(s) + 1 /\ t[Len(t)] = name
<1> DEFINE t == Append(s, name)
<1>1. t \in Seq(Names) /\ Len(t) = Len(s) + 1 /\ t[Len(t)] = name /\ \A i \in 1..Len(s) : t[i] = s[i]
  OBVIOUS
<1>2. MatchedIn(a, t)
  BY <1>1, RankBounds DEF MatchedIn
<1> QED
  BY <1>1, <1>2

-----------------------------------------------------------------------------
(* What a command does to the session and to its trace.                    *)

\* A command has a name, and its line is the one retain and record write.
LEMMA NameFacts ==
    ASSUME Typed
    PROVE  /\ \A what \in Whats : Id(what) \in Names
           /\ \A what, ran : Line(what, ran) = NewLine(trace, Id(what), ran)
<1>1. at \in Nat
  BY HostAssumption DEF Typed, TypeOK, HostAssumption, N
<1>2. \A what \in Whats : Id(what) \in Names
  BY <1>1 DEF Id, Names
<1>3. \A what, ran : Line(what, ran) = NewLine(trace, Id(what), ran)
  BY DEF Line, NewLine, LinesOf
<1> QED
  BY <1>2, <1>3

\* Nothing is in flight when no command is.
LEMMA NoneInFlight ==
    ASSUME IInv, pc # "exec"
    PROVE  cmd = Idle /\ cmd.st = "idle" /\ ~cmd.begun /\ Cardinality(RanIn(trace)) = Len(sent)
<1>1. cmd = Idle
  BY DEF IInv, InHand
<1>2. cmd.st = "idle" /\ ~cmd.begun
  BY <1>1 DEF Idle
<1>3. Cardinality(RanIn(trace)) \in Nat
  BY LinesFinite DEF RanIn, IInv, Typed
<1> QED
  BY <1>1, <1>2, <1>3 DEF IInv, Ledger, InFlight

\* Begin: the command is in hand, and sent unless the connection was lost.
LEMMA BeginFacts ==
    ASSUME Typed, NEW what \in Whats, NEW sudo \in BOOLEAN, Begin(what, sudo), at' = at,
           trace' \in Seq(Lines), CountedIn(trace'), MatchedIn(trace', sent),
           Cardinality(RanIn(trace')) = Len(sent)
    PROVE  /\ pc' = "exec" /\ open /\ (verified \/ what = "canary")
           /\ cmd' \in Commands /\ cmd'.what = what /\ cmd'.st # "idle" /\ cmd'.end # "failed"
           /\ ~cmd'.begun => cmd'.st = "ended" /\ cmd'.end = "lost"
           /\ sent' \in Seq(Names)
           /\ sent' = sent \/ sent' = Append(sent, Id(what))
           /\ Ledger'
<1>1. open /\ (verified \/ what = "canary") /\ pc' = "exec"
  BY DEF Begin
<1>2. sent \in Seq(Names) /\ Id(what) \in Names /\ Len(sent) \in Nat
  BY NameFacts DEF Typed
<1>3. CASE mode # "local" /\ link = "lost"
  <2>1. /\ cmd' = [Idle EXCEPT !.what = what, !.st = "ended", !.end = "lost", !.sudo = sudo]
        /\ sent' = sent
    BY <1>3 DEF Begin
  <2>2. /\ cmd' \in Commands /\ cmd'.what = what /\ cmd'.st = "ended" /\ cmd'.end = "lost" /\ ~cmd'.begun
    BY <2>1 DEF Idle, Commands, Ends
  <2>3. Ledger'
    BY <1>1, <1>2, <2>1, <2>2 DEF Ledger, InFlight
  <2> QED
    BY <1>1, <1>2, <2>1, <2>2, <2>3
<1>4. CASE ~(mode # "local" /\ link = "lost")
  <2>1. /\ cmd' = [Idle EXCEPT !.what = what, !.st = "running", !.sudo = sudo, !.begun = TRUE]
        /\ sent' = Append(sent, Id(what))
    BY <1>4 DEF Begin
  <2>2. /\ cmd' \in Commands /\ cmd'.what = what /\ cmd'.st = "running" /\ cmd'.end = "good" /\ cmd'.begun
    BY <2>1 DEF Idle, Commands, Ends, Statuses
  <2>3. /\ sent' \in Seq(Names) /\ MatchedIn(trace', sent') /\ Len(sent') = Len(sent) + 1
        /\ sent'[Len(sent')] = Id(what)
    BY <1>2, <2>1, CommandAdded
  <2>4. Id(what)' = Id(what)
    BY DEF Id
  <2>5. Ledger'
    BY <1>1, <1>2, <2>1, <2>2, <2>3, <2>4 DEF Ledger, InFlight, Id
  <2> QED
    BY <1>1, <2>1, <2>2, <2>3, <2>5
<1> QED
  BY <1>3, <1>4

\* The command is over and has its line.
LEMMA EndFacts ==
    ASSUME IInv, pc = "exec"
    PROVE  LET b == Append(trace, Line(cmd.what, cmd.begun)) IN
           /\ b \in Seq(Lines) /\ CountedIn(b) /\ MatchedIn(b, sent)
           /\ Cardinality(RanIn(b)) = Len(sent)
           /\ \A other : other # Id(cmd.what) => LinesOf(b, other) = LinesOf(trace, other)
<1>1. /\ Typed /\ trace \in Seq(Lines) /\ sent \in Seq(Names) /\ cmd.begun \in BOOLEAN
      /\ cmd.what \in Whats /\ cmd.st # "idle"
  BY DEF IInv, Typed, InHand, Commands
<1>2. Line(cmd.what, cmd.begun) = NewLine(trace, Id(cmd.what), cmd.begun) /\ Id(cmd.what) \in Names
  BY <1>1, NameFacts
<1>3. Cardinality(RanIn(trace)) \in Nat
  BY <1>1, LinesFinite DEF RanIn
<1>4. /\ CountedIn(trace) /\ MatchedIn(trace, sent)
      /\ Len(sent) = Cardinality(RanIn(trace)) + (IF cmd.begun THEN 1 ELSE 0)
      /\ cmd.begun => sent[Len(sent)] = Id(cmd.what)
  BY <1>1, <1>3 DEF IInv, Ledger, InFlight
<1> QED
  BY <1>1, <1>2, <1>3, <1>4, LineAdded

\* What was sent and written is what it was, and so is what is in flight.
LEMMA LedgerSame ==
    ASSUME IInv, trace' = trace, sent' = sent, cmd'.begun = cmd.begun, at' = at,
           cmd'.st = "idle" <=> cmd.st = "idle", cmd'.what = cmd.what, pc' = "exec" => pc = "exec"
    PROVE  Ledger'
BY DEF IInv, Ledger, InFlight, Id

\* No command is in flight and none was, and the lines answer for all.
LEMMA LedgerIdle ==
    ASSUME IInv, sent' = sent, cmd' = Idle, trace' \in Seq(Lines), CountedIn(trace'),
           MatchedIn(trace', sent), Cardinality(RanIn(trace')) = Len(sent)
    PROVE  Ledger'
<1>1. ~cmd'.begun /\ cmd'.st = "idle"
  BY DEF Idle
<1>2. Len(sent) \in Nat
  BY DEF IInv, Typed
<1> QED
  BY <1>1, <1>2 DEF Ledger, InFlight

-----------------------------------------------------------------------------
(* The steps preserve the invariant: what the code does not decide.        *)

\* What the environment changes of the command in flight keeps its name and
\* whether it reached the host; the clocks and the link are its own.
LEMMA EnvironmentStep == ASSUME IInv, Environment PROVE IInv'
<1> USE DEF IInv
<1>1. rest' = rest
  BY DEF Environment, CommandEnds, CloseSeen, LinkDrops, DeadlinePasses, RunTimesOut, EngagementEnds
<1>2. /\ mode' = mode /\ elevate' = elevate /\ pc' = pc /\ open' = open /\ verified' = verified
      /\ reach' = reach /\ at' = at /\ result' = result /\ sheet' = sheet /\ err' = err /\ echo' = echo
      /\ sent' = sent /\ trace' = trace /\ outcome' = outcome
  BY <1>1 DEF rest
<1>3. /\ cmd' \in Commands /\ cmd'.what = cmd.what /\ cmd'.begun = cmd.begun
      /\ cmd'.st = "idle" <=> cmd.st = "idle"
      /\ cmd'.end = "failed" => mode = "local"
      /\ cmd.st = "idle" => cmd' = cmd
      /\ cmd.st = "ended" => cmd'.st = "ended" /\ cmd'.end = cmd.end
  <2>0. cmd \in Commands /\ (cmd.end = "failed" => mode = "local")
    BY DEF Typed, InHand
  <2>1. CASE CommandEnds
    <3>1. PICK e \in Statuses \cup (IF mode = "local" THEN {"failed"} ELSE {}) :
             cmd' = [cmd EXCEPT !.st = "ended", !.end = e]
      BY <2>1 DEF CommandEnds
    <3>2. e \in Ends /\ (e = "failed" => mode = "local")
      BY <3>1 DEF Ends, Statuses
    <3> QED
      BY <2>0, <2>1, <3>1, <3>2 DEF Commands, CommandEnds
  <2>2. CASE CloseSeen
    BY <2>0, <2>2 DEF CloseSeen, Commands
  <2>3. CASE LinkDrops
    <3>1. "lost" \in Ends
      BY DEF Ends
    <3> QED
      BY <2>0, <2>3, <3>1 DEF LinkDrops, Commands
  <2>4. CASE DeadlinePasses
    BY <2>0, <2>4 DEF DeadlinePasses, Commands
  <2>5. CASE RunTimesOut \/ EngagementEnds
    BY <2>0, <2>5 DEF RunTimesOut, EngagementEnds
  <2> QED
    BY <2>1, <2>2, <2>3, <2>4, <2>5 DEF Environment
<1>4. /\ ended' \in {"no", "deadline", "canceled"} /\ run' \in {"no", "deadline", "canceled"}
      /\ link' \in {"none", "up", "lost"}
      /\ ended' = ended \/ pc # "done"
  BY DEF Environment, CommandEnds, CloseSeen, LinkDrops, DeadlinePasses, RunTimesOut, EngagementEnds, env,
         Typed, TypeOK
<1>5. Typed'
  <2>1. TypeOK'
    BY <1>2, <1>3, <1>4 DEF Typed, TypeOK, Commands
  <2> QED
    BY <1>2, <1>3, <2>1 DEF Typed
<1>6. InHand'
  <2>1. pc # "exec" => cmd' = Idle
    BY <1>3 DEF InHand, Idle
  <2> QED
    BY <1>2, <1>3, <2>1 DEF InHand
<1>7. Session' /\ CanaryFirst'
  BY <1>2, <1>3 DEF Session, CanaryFirst, Early, Proving, Reading, Proved
<1>8. Baseline'
  BY <1>2, <1>3 DEF Baseline, Planning, Proved
<1>9. Ending' /\ RefusedForCause'
  BY <1>2, <1>4 DEF Ending, RefusedForCause
<1>10. Ledger'
  BY <1>2, <1>3, LedgerSame
<1> QED
  BY <1>5, <1>6, <1>7, <1>8, <1>9, <1>10

\* A step that changes nothing.
LEMMA HostStutters == ASSUME IInv, UNCHANGED vars PROVE IInv'
<1>1. /\ rest' = rest /\ cmd' = cmd /\ ended' = ended /\ run' = run /\ link' = link
  BY DEF vars, rest
<1>2. /\ mode' = mode /\ elevate' = elevate /\ pc' = pc /\ open' = open /\ verified' = verified
      /\ reach' = reach /\ at' = at /\ result' = result /\ sheet' = sheet /\ err' = err /\ echo' = echo
      /\ sent' = sent /\ trace' = trace /\ outcome' = outcome
  BY <1>1 DEF rest
<1>3. Typed' /\ InHand'
  BY <1>1, <1>2 DEF IInv, Typed, TypeOK, InHand
<1>4. Session' /\ CanaryFirst' /\ Baseline' /\ Ending' /\ RefusedForCause'
  BY <1>1, <1>2 DEF IInv, Session, CanaryFirst, Early, Proving, Reading, Proved, Baseline, Planning, Ending,
                    RefusedForCause
<1>5. Ledger'
  BY <1>1, <1>2, LedgerSame
<1> QED
  BY <1>3, <1>4, <1>5 DEF IInv

-----------------------------------------------------------------------------
(* The steps preserve the invariant: reaching the host.                    *)

\* Before anything is sent, the steps to the host change no more than where
\* Collect stands, what Reach reports and what Collect returned.
LEMMA ReachingStep ==
    ASSUME IInv, Early, cmd' = cmd, at' = at, result' = result, sheet' = sheet, sent' = sent,
           trace' = trace, mode' = mode, elevate' = elevate, echo' = echo, outcome' = outcome,
           ended' = ended, run' = run, link' \in {"none", "up", "lost"},
           open' \in BOOLEAN, verified' \in BOOLEAN,
           reach' \in [dialled : BOOLEAN, connected : BOOLEAN, jdialled : BOOLEAN, jconnected : BOOLEAN],
           \/ /\ pc' = "returned"
              /\ err' \in {"access", "excluded", "unreachable", "platform"}
           \/ /\ pc' \in {"dial_hop", "hs_hop", "open", "dial", "hs", "canary", "root"}
              /\ err' = err
              /\ pc' = "root" <=> mode = "local"
              /\ pc' = "root" => verified'
              /\ pc' \in {"hs", "canary"} => reach'.connected
    PROVE  IInv'
<1> USE DEF IInv
<1>1. pc \notin {"exec", "returned", "done"} /\ cmd = Idle /\ sent = <<>> /\ echo = "none" /\ err = "none"
      /\ outcome.status = "none"
  BY DEF Early, InHand, Session, Ending
<1>2. ~sheet.lost /\ ~sheet.incomplete /\ at = 1
  BY <1>1 DEF Early, Baseline, Planning
<1>3. Typed'
  <2>1. TypeOK'
    BY DEF Typed, TypeOK
  <2> QED
    BY <2>1 DEF Typed
<1>4. InHand'
  <2>1. cmd'.end # "failed" /\ cmd'.what = "none"
    BY <1>1 DEF Idle
  <2> QED
    BY <1>1, <2>1 DEF InHand
<1>5. Session' /\ CanaryFirst'
  <2>1. Len(sent) = 0
    BY <1>1
  <2> QED
    BY <1>1, <2>1 DEF Session, CanaryFirst, Early, Proving, Reading, Proved
<1>6. Baseline'
  BY <1>1, <1>2 DEF Baseline, Planning, Proved
<1>7. Ending' /\ RefusedForCause'
  BY <1>1 DEF Ending, RefusedForCause
<1>8. Ledger'
  BY <1>1, LedgerSame
<1> QED
  BY <1>3, <1>4, <1>5, <1>6, <1>7, <1>8

\* Start: an engagement that is over, options that are refused, or the first dial.
LEMMA StartStep == ASSUME IInv, Start PROVE IInv'
<1> USE DEF IInv
<1>0. /\ pc = "start" /\ Early
      /\ cmd' = cmd /\ at' = at /\ result' = result /\ sheet' = sheet /\ sent' = sent
      /\ trace' = trace /\ mode' = mode /\ elevate' = elevate /\ echo' = echo
      /\ ended' = ended /\ run' = run /\ link' = link /\ reach' = reach
  BY DEF Start, env, Early
<1>1. CASE ended # "no"
  <2>1. /\ pc' = "done" /\ outcome' = [status |-> "not_collected", reason |-> "limit_reached"]
        /\ err' = err /\ open' = open /\ verified' = verified
    BY <1>1 DEF Start
  <2>2. cmd = Idle /\ sent = <<>> /\ echo = "none" /\ err = "none" /\ ~sheet.lost /\ ~sheet.incomplete /\ at = 1
    BY <1>0 DEF InHand, Session, Early, Ending, Baseline, Planning
  <2>3. Typed'
    <3>1. TypeOK'
      BY <1>0, <2>1 DEF Typed, TypeOK
    <3> QED
      BY <1>0, <2>1, <3>1 DEF Typed
  <2>4. InHand'
    <3>1. cmd.end # "failed" /\ cmd.what = "none"
      BY <2>2 DEF Idle
    <3> QED
      BY <1>0, <2>1, <2>2, <3>1 DEF InHand
  <2>5. Session' /\ CanaryFirst'
    <3>1. Len(sent) = 0
      BY <2>2
    <3> QED
      BY <1>0, <2>1, <2>2, <3>1 DEF Session, CanaryFirst, Early, Proving, Reading, Proved
  <2>6. Baseline'
    BY <1>0, <2>1, <2>2 DEF Baseline, Planning, Proved
  <2>7. Ending' /\ RefusedForCause'
    BY <1>0, <2>1, <2>2 DEF Ending, RefusedForCause
  <2>8. Ledger'
    BY <1>0, <2>1, LedgerSame
  <2> QED
    BY <2>3, <2>4, <2>5, <2>6, <2>7, <2>8
<1>2. CASE ended = "no"
  <2>1. link' \in {"none", "up", "lost"} /\ mode \in {"local", "ssh", "jump"}
        /\ reach' \in [dialled : BOOLEAN, connected : BOOLEAN, jdialled : BOOLEAN, jconnected : BOOLEAN]
        /\ verified \in BOOLEAN
    BY <1>0 DEF Typed, TypeOK
  <2>2. CASE UNCHANGED <<outcome, verified>> /\ (Return("access") \/ Return("unreachable"))
    BY <1>0, <2>1, <2>2, ReachingStep DEF Return
  <2>3. CASE /\ pc' = [local |-> "root", ssh |-> "dial", jump |-> "dial_hop"][mode]
             /\ open' = (mode = "local") /\ verified' = (mode = "local")
             /\ UNCHANGED <<err, outcome>>
    <3>1. /\ mode = "local" => pc' = "root"
          /\ mode # "local" => pc' \in {"dial", "dial_hop"}
      BY <2>1, <2>3
    <3> QED
      BY <1>0, <2>1, <2>3, <3>1, ReachingStep
  <2> QED
    BY <1>2, <2>2, <2>3 DEF Start
<1> QED
  BY <1>1, <1>2

\* DialTCP, Handshake and OpenThroughHop.
LEMMA DialStep == ASSUME IInv, NEW hop \in BOOLEAN, DialTCP(hop) \/ Handshake(hop) \/ OpenThroughHop PROVE IInv'
<1> USE DEF IInv
<1>0. /\ Early /\ mode # "local"
      /\ reach \in [dialled : BOOLEAN, connected : BOOLEAN, jdialled : BOOLEAN, jconnected : BOOLEAN]
      /\ open \in BOOLEAN /\ verified \in BOOLEAN /\ link \in {"none", "up", "lost"}
  BY DEF DialTCP, Handshake, OpenThroughHop, Early, InHand, Typed, TypeOK
<1>1. CASE DialTCP(hop)
  <2>0. /\ cmd' = cmd /\ at' = at /\ result' = result /\ sheet' = sheet /\ sent' = sent
        /\ trace' = trace /\ mode' = mode /\ elevate' = elevate /\ echo' = echo /\ outcome' = outcome
        /\ ended' = ended /\ run' = run /\ link' = link /\ verified' = verified
    BY <1>1 DEF DialTCP, env
  <2>1. PICK e \in {"excluded", "unreachable", "none"}, tried \in BOOLEAN :
          /\ reach' = IF hop THEN [reach EXCEPT !.jdialled = tried, !.jconnected = (e = "none")]
                      ELSE [reach EXCEPT !.dialled = tried, !.connected = (e = "none")]
          /\ IF e = "none" THEN pc' = (IF hop THEN "hs_hop" ELSE "hs") /\ UNCHANGED <<err, open>>
             ELSE Return(e)
    BY <1>1 DEF DialTCP
  <2>2. /\ reach' \in [dialled : BOOLEAN, connected : BOOLEAN, jdialled : BOOLEAN, jconnected : BOOLEAN]
        /\ ~hop => reach'.connected = (e = "none")
    BY <1>0, <2>1
  <2> QED
    BY <1>0, <2>0, <2>1, <2>2, ReachingStep DEF Return
<1>2. CASE Handshake(hop)
  <2>0. /\ cmd' = cmd /\ at' = at /\ result' = result /\ sheet' = sheet /\ sent' = sent
        /\ trace' = trace /\ mode' = mode /\ elevate' = elevate /\ echo' = echo /\ outcome' = outcome
        /\ ended' = ended /\ run' = run /\ verified' = verified /\ reach' = reach
        /\ pc = IF hop THEN "hs_hop" ELSE "hs"
    BY <1>2 DEF Handshake
  <2>1. PICK e \in {"access", "unreachable", "none"} :
          IF e # "none" THEN Return(e) /\ UNCHANGED link
          ELSE /\ pc' = IF hop THEN "open" ELSE "canary"
               /\ open' = ~hop /\ link' = (IF hop THEN link ELSE "up") /\ UNCHANGED err
    BY <1>2 DEF Handshake
  <2>2. ~hop => reach.connected
    BY <1>0, <2>0 DEF Session
  <2> QED
    BY <1>0, <2>0, <2>1, <2>2, ReachingStep DEF Return
<1>3. CASE OpenThroughHop
  <2>0. /\ cmd' = cmd /\ at' = at /\ result' = result /\ sheet' = sheet /\ sent' = sent
        /\ trace' = trace /\ mode' = mode /\ elevate' = elevate /\ echo' = echo /\ outcome' = outcome
        /\ ended' = ended /\ run' = run /\ link' = link /\ verified' = verified
    BY <1>3 DEF OpenThroughHop, env
  <2>1. PICK ok \in BOOLEAN :
          /\ reach' = [reach EXCEPT !.dialled = TRUE, !.connected = ok]
          /\ IF ok THEN pc' = "hs" /\ UNCHANGED <<err, open>> ELSE Return("unreachable")
    BY <1>3 DEF OpenThroughHop
  <2>2. /\ reach' \in [dialled : BOOLEAN, connected : BOOLEAN, jdialled : BOOLEAN, jconnected : BOOLEAN]
        /\ reach'.connected = ok
    BY <1>0, <2>1
  <2> QED
    BY <1>0, <2>0, <2>1, <2>2, ReachingStep DEF Return
<1> QED
  BY <1>1, <1>2, <1>3

-----------------------------------------------------------------------------
(* The steps preserve the invariant: the commands on the session.          *)

\* Once the session is proved, a step keeps it so: what is left to show of each
\* step is the command in hand, the plan and the trace.
LEMMA ReadingStep ==
    ASSUME IInv, Reading, mode' = mode, elevate' \in {"none", "sudo", "root"}, echo' = echo,
           verified' = verified, reach' = reach, ended' = ended, link' = link, outcome' = outcome,
           run' \in {"no", "deadline", "canceled"}, open' \in BOOLEAN,
           sent' \in Seq(Names), NEW name \in Names, sent' = sent \/ sent' = Append(sent, name),
           cmd' \in Commands, trace' \in Seq(Lines),
           at' \in 1..(N + 1), result' \in [1..N -> Codes \cup {"none"}],
           sheet' \in [incomplete : BOOLEAN, lost : BOOLEAN],
           \/ pc' = "returned" /\ err' \in {"none", "platform"}
           \/ pc' \in {"root", "plan", "elevate"} /\ err' = err
           \/ pc' = "exec" /\ cmd'.what # "canary" /\ err' = err,
           InHand', Baseline', Ledger'
    PROVE  IInv'
<1> USE DEF IInv
<1>1. /\ pc \notin {"returned", "done"} /\ err = "none" /\ outcome.status = "none" /\ Proved /\ verified
      /\ mode = "local" \/ (reach.connected /\ sent # <<>> /\ sent[1][1] = "canary")
  BY DEF Reading, Session, Ending
<1>2. mode = "local" \/ (sent' # <<>> /\ sent'[1] = sent[1])
  <2>1. CASE sent' = sent
    BY <1>1, <2>1
  <2>2. CASE sent' = Append(sent, name) /\ sent # <<>>
    <3>1. sent \in Seq(Names)
      BY DEF Typed
    <3> QED
      BY <2>2, <3>1
  <2> QED
    BY <1>1, <2>1, <2>2
<1>3. Typed'
  <2>1. TypeOK'
    <3>1. cmd'.end \in Ends /\ cmd'.st \in {"idle", "running", "ended"}
      BY DEF Commands
    <3> QED
      BY <3>1 DEF Typed, TypeOK
  <2> QED
    BY <1>1, <2>1 DEF Typed
<1>4. Session' /\ CanaryFirst'
  BY <1>1, <1>2 DEF Session, CanaryFirst, Early, Proving, Reading, Proved
<1>5. Ending' /\ RefusedForCause'
  BY <1>1 DEF Ending, RefusedForCause
<1> QED
  BY <1>3, <1>4, <1>5

\* What holds of the command in flight when Exec returns.
LEMMA ReturnsFacts ==
    ASSUME IInv, NEW e \in Ends, Returns(e)
    PROVE  /\ pc = "exec" /\ cmd.what \in Whats /\ cmd.what # "none"
           /\ e \in Statuses => cmd.begun
           /\ e = "failed" => mode = "local"
<1>1. pc = "exec" /\ (e = "timeout" \/ e = cmd.end) /\ cmd \in Commands
  BY DEF IInv, Typed, Returns
<1>2. cmd.what \in Whats /\ cmd.what # "none" /\ cmd.begun \in BOOLEAN
  BY <1>1 DEF IInv, InHand, Commands
<1>3. e \in Statuses => e # "timeout" /\ e # "lost"
  BY DEF Statuses
<1> QED
  BY <1>1, <1>2, <1>3 DEF IInv, InHand

\* VerifyCanary: the first command on the session.
LEMMA StartCanaryStep == ASSUME IInv, StartCanary PROVE IInv'
<1> USE DEF IInv
<1>0. /\ pc = "canary" /\ verified' = TRUE /\ Begin("canary", FALSE) /\ Early
      /\ mode' = mode /\ elevate' = elevate /\ echo' = echo /\ ended' = ended /\ run' = run /\ link' = link
      /\ open' = open /\ reach' = reach /\ at' = at /\ result' = result /\ sheet' = sheet /\ err' = err
      /\ trace' = trace /\ outcome' = outcome
  BY DEF StartCanary, env, Early
<1>1. /\ cmd = Idle /\ sent = <<>> /\ echo = "none" /\ err = "none" /\ outcome.status = "none"
      /\ ~sheet.lost /\ ~sheet.incomplete /\ at = 1 /\ mode # "local" /\ reach.connected
  BY <1>0 DEF InHand, Session, Early, Ending, Baseline, Planning
<1>2. /\ trace \in Seq(Lines) /\ CountedIn(trace) /\ MatchedIn(trace, sent)
      /\ Cardinality(RanIn(trace)) = Len(sent)
  BY <1>0, NoneInFlight DEF Typed, Ledger
<1>3. /\ pc' = "exec" /\ cmd' \in Commands /\ cmd'.what = "canary" /\ cmd'.st # "idle" /\ cmd'.end # "failed"
      /\ ~cmd'.begun => cmd'.st = "ended" /\ cmd'.end = "lost"
      /\ sent' \in Seq(Names)
      /\ sent' = sent \/ sent' = Append(sent, Id("canary"))
      /\ Ledger'
  BY <1>0, <1>2, BeginFacts DEF Whats
<1>4. Len(sent') <= 1 /\ (sent' # <<>> => sent'[1][1] = "canary")
  <2>1. Id("canary") \in Names /\ Id("canary")[1] = "canary"
    <3>1. Id("canary") \in Names
      BY NameFacts DEF Whats
    <3> QED
      BY <3>1 DEF Id
  <2>2. Append(<<>>, Id("canary"))[1] = Id("canary") /\ Len(Append(<<>>, Id("canary"))) = 1 /\ Len(<<>>) = 0
    BY <2>1
  <2>3. CASE sent' = sent
    BY <1>1, <2>2, <2>3
  <2>4. CASE sent' = Append(sent, Id("canary"))
    <3>1. sent' = Append(<<>>, Id("canary"))
      BY <1>1, <2>4
    <3>2. Len(sent') = 1 /\ sent'[1][1] = "canary"
      BY <3>1, <2>1, <2>2
    <3> QED
      BY <3>2
  <2> QED
    BY <1>3, <2>3, <2>4
<1>5. Typed'
  <2>1. TypeOK'
    <3>1. cmd'.end \in Ends /\ cmd'.st \in {"idle", "running", "ended"}
      BY <1>3 DEF Commands
    <3> QED
      BY <1>0, <1>3, <3>1 DEF Typed, TypeOK
  <2> QED
    BY <1>0, <1>3, <2>1 DEF Typed
<1>6. InHand'
  BY <1>0, <1>1, <1>3 DEF InHand
<1>7. Session' /\ CanaryFirst'
  <2>1. Len(sent') \in Nat
    BY <1>3
  <2> QED
    BY <1>0, <1>1, <1>3, <1>4, <2>1 DEF Session, CanaryFirst, Early, Proving, Reading, Proved
<1>8. Baseline'
  BY <1>0, <1>1, <1>3 DEF Baseline, Planning, Proved
<1>9. Ending' /\ RefusedForCause'
  BY <1>0, <1>1, <1>3 DEF Ending, RefusedForCause
<1> QED
  BY <1>3, <1>5, <1>6, <1>7, <1>8, <1>9

\* VerifyCanary's answer: the session is proved, or Collect returns.
LEMMA EndCanaryStep == ASSUME IInv, EndCanary PROVE IInv'
<1> USE DEF IInv
<1>0. /\ cmd.what = "canary" /\ cmd' = Idle /\ trace' = Append(trace, Line(cmd.what, cmd.begun))
      /\ mode' = mode /\ elevate' = elevate /\ ended' = ended /\ run' = run /\ link' = link
      /\ reach' = reach /\ at' = at /\ result' = result /\ sheet' = sheet /\ sent' = sent
      /\ outcome' = outcome
  BY DEF EndCanary, env, Recorded
<1>1. PICK e \in Ends :
        /\ Returns(e) /\ echo' = e
        /\ IF CanaryPasses(e) THEN pc' = "platform" /\ UNCHANGED <<verified, open, err>>
           ELSE verified' = FALSE /\ Return(CanaryError(e))
  BY DEF EndCanary
<1>2. pc = "exec" /\ Proving /\ mode # "local" /\ echo = "none" /\ Len(sent) <= 1 /\ reach.connected
  BY <1>0, <1>1 DEF Returns, Proving, InHand, Session
<1>3. /\ err = "none" /\ outcome.status = "none" /\ ~sheet.lost /\ ~sheet.incomplete /\ at = 1
      /\ (sent # <<>> => sent[1][1] = "canary") /\ sent \in Seq(Names)
  BY <1>0, <1>2 DEF Session, Ending, Baseline, Planning, Typed
<1>4. /\ trace' \in Seq(Lines) /\ CountedIn(trace') /\ MatchedIn(trace', sent)
      /\ Cardinality(RanIn(trace')) = Len(sent)
  BY <1>0, <1>2, EndFacts
<1>5. Ledger'
  BY <1>0, <1>4, LedgerIdle
<1>6. e = "good" => sent # <<>>
  <2>1. e = "good" => cmd.begun
    BY <1>1, ReturnsFacts DEF Statuses
  <2>2. Cardinality(RanIn(trace)) \in Nat
    BY LinesFinite DEF RanIn, Typed
  <2>3. cmd.begun => Len(sent) # 0
    BY <1>2, <2>2 DEF Ledger, InFlight, InHand
  <2> QED
    BY <2>1, <2>3
<1>7. \/ pc' = "platform" /\ e = "good" /\ verified' = verified /\ open' = open /\ err' = err
      \/ pc' = "returned" /\ e # "good" /\ verified' = FALSE /\ open' = FALSE /\ err' \in {"transport", "canary"}
         /\ (err' = "canary" => e \notin {"lost", "timeout"})
  BY <1>1 DEF CanaryPasses, Return, CanaryError
<1>8. verified' \in BOOLEAN /\ open' \in BOOLEAN /\ (pc' = "platform" => verified')
  <2>1. verified \in BOOLEAN /\ open \in BOOLEAN
    BY DEF Typed
  <2>2. verified
    BY <1>2 DEF Session
  <2> QED
    BY <1>7, <2>1, <2>2
<1>9. Idle \in Commands /\ Idle.end \in Ends /\ Idle.what = "none" /\ Idle.end = "good" /\ Idle.st = "idle"
  BY DEF Idle, Commands, Ends, Statuses
<1>10. Typed'
  <2>1. TypeOK'
    BY <1>0, <1>7, <1>9 DEF Typed, TypeOK
  <2> QED
    BY <1>0, <1>1, <1>3, <1>4, <1>7, <1>8, <1>9, <2>1 DEF Typed
<1>11. InHand'
  BY <1>0, <1>2, <1>7, <1>9 DEF InHand
<1>12. Session' /\ CanaryFirst'
  BY <1>0, <1>1, <1>2, <1>3, <1>6, <1>7, <1>8, <1>9 DEF Session, CanaryFirst, Early, Proving, Reading, Proved
<1>13. Baseline'
  BY <1>0, <1>2, <1>3, <1>7, <1>9 DEF Baseline, Planning, Proved
<1>14. Ending' /\ RefusedForCause'
  <2>1. err' = "canary" => e \in Statuses \ {"good"}
    <3>1. err' = "canary" => e # "failed"
      BY <1>1, <1>2, ReturnsFacts
    <3> QED
      BY <1>3, <1>7, <3>1 DEF Ends
  <2> QED
    BY <1>0, <1>1, <1>3, <1>7, <2>1 DEF Ending, RefusedForCause
<1> QED
  BY <1>5, <1>10, <1>11, <1>12, <1>13, <1>14

\* A command begins on a proved session.
LEMMA BeginStep ==
    ASSUME IInv, Reading, pc # "exec", NEW what \in Whats \ {"canary"}, NEW sudo \in BOOLEAN, Begin(what, sudo),
           mode' = mode, elevate' = elevate, echo' = echo, verified' = verified, reach' = reach, ended' = ended,
           link' = link, outcome' = outcome, at' = at, result' = result, sheet' = sheet, err' = err,
           trace' = trace, open' = open, run' \in {"no", "deadline", "canceled"},
           what = "platform" => mode # "local",
           pc # "plan", what \in {"which", "check"} <=> pc = "elevate"
    PROVE  IInv'
<1> USE DEF IInv
<1>1. /\ trace \in Seq(Lines) /\ CountedIn(trace) /\ MatchedIn(trace, sent)
      /\ Cardinality(RanIn(trace)) = Len(sent)
  BY NoneInFlight DEF Typed, Ledger
<1>2. /\ pc' = "exec" /\ cmd' \in Commands /\ cmd'.what = what /\ cmd'.st # "idle" /\ cmd'.end # "failed"
      /\ ~cmd'.begun => cmd'.st = "ended" /\ cmd'.end = "lost"
      /\ sent' \in Seq(Names)
      /\ sent' = sent \/ sent' = Append(sent, Id(what))
      /\ Ledger'
  BY <1>1, BeginFacts DEF Typed
<1>3. Id(what) \in Names /\ what # "none"
  BY NameFacts DEF Typed, Whats
<1>4. pc \notin {"returned", "done"}
  BY DEF Reading
<1>5. InHand'
  <2>1. what \in {"which", "check"} => at <= N
    BY DEF InHand
  <2> QED
    BY <1>2, <1>3, <2>1 DEF InHand
<1>6. Baseline'
  BY <1>2, <1>4 DEF Baseline, Planning, Proved
<1> QED
  BY <1>1, <1>2, <1>3, <1>5, <1>6, ReadingStep DEF Typed, TypeOK

\* DetectPlatform.
LEMMA PlatformStep == ASSUME IInv, StartPlatform \/ EndPlatform PROVE IInv'
<1> USE DEF IInv
<1>1. CASE StartPlatform
  <2>1. /\ pc = "platform" /\ Reading /\ Begin("platform", FALSE) /\ mode # "local"
        /\ mode' = mode /\ elevate' = elevate /\ echo' = echo /\ verified' = verified /\ reach' = reach
        /\ ended' = ended /\ run' = run /\ link' = link /\ outcome' = outcome /\ at' = at /\ result' = result
        /\ sheet' = sheet /\ err' = err /\ trace' = trace /\ open' = open
    BY <1>1 DEF StartPlatform, Reading, InHand, env
  <2> QED
    BY <2>1, BeginStep DEF Whats, Typed, TypeOK
<1>2. CASE EndPlatform
  <2>1. /\ cmd.what = "platform" /\ cmd' = Idle /\ trace' = Append(trace, Line(cmd.what, cmd.begun))
        /\ mode' = mode /\ elevate' = elevate /\ echo' = echo /\ verified' = verified /\ reach' = reach
        /\ ended' = ended /\ run' = run /\ link' = link /\ outcome' = outcome /\ at' = at /\ result' = result
        /\ sheet' = sheet /\ sent' = sent
    BY <1>2 DEF EndPlatform, env, Recorded
  <2>2. /\ pc = "exec"
        /\ \/ pc' = "root" /\ err' = err /\ open' = open
           \/ pc' = "returned" /\ err' = "platform" /\ open' = FALSE
    BY <1>2 DEF EndPlatform, Returns, Return
  <2>3. Reading /\ ~Planning
    BY <2>1, <2>2 DEF Reading, Planning
  <2>4. trace' \in Seq(Lines) /\ Ledger'
    BY <2>1, <2>2, EndFacts, LedgerIdle
  <2>5. cmd' \in Commands /\ cmd'.what = "none" /\ cmd'.end # "failed"
    BY <2>1 DEF Idle, Commands, Ends, Statuses
  <2>6. InHand'
    BY <2>1, <2>2, <2>5 DEF InHand
  <2>7. Baseline'
    BY <2>1, <2>2, <2>3, <2>5 DEF Baseline, Planning, Proved
  <2>8. Id("platform") \in Names
    BY NameFacts DEF Typed, Whats
  <2> QED
    BY <2>1, <2>2, <2>3, <2>4, <2>5, <2>6, <2>7, <2>8, ReadingStep DEF Typed, TypeOK
<1> QED
  BY <1>1, <1>2

\* DetectRoot, where the run timeout starts.
LEMMA RootStep == ASSUME IInv, StartRoot \/ EndRoot PROVE IInv'
<1> USE DEF IInv
<1>0. Id("uid") \in Names
  BY NameFacts DEF Typed, Whats
<1>1. CASE StartRoot
  <2>1. /\ pc = "root" /\ Reading /\ ~Planning /\ cmd = Idle /\ ended \in {"no", "deadline", "canceled"}
        /\ mode' = mode /\ elevate' = elevate /\ echo' = echo /\ verified' = verified /\ reach' = reach
        /\ ended' = ended /\ run' = ended /\ link' = link /\ outcome' = outcome /\ at' = at /\ result' = result
        /\ sheet' = sheet /\ trace' = trace
    BY <1>1 DEF StartRoot, Reading, Planning, InHand, Typed, TypeOK
  <2>2. CASE elevate = "none" /\ Begin("uid", FALSE) /\ UNCHANGED <<err, open>>
    BY <2>1, <2>2, BeginStep DEF Whats
  <2>3. CASE /\ cmd' = cmd /\ sent' = sent
             /\ \/ pc' = "returned" /\ err' = "platform" /\ open' = FALSE
                \/ pc' = "plan" /\ err' = err /\ open' = open
    <3>1. trace' \in Seq(Lines) /\ Ledger'
      BY <2>1, <2>3, LedgerSame DEF Typed
    <3>2. cmd' \in Commands /\ cmd'.what = "none" /\ cmd'.end # "failed"
      BY <2>1, <2>3 DEF Idle, Commands, Ends, Statuses
    <3>3. InHand'
      BY <2>1, <2>3, <3>2 DEF InHand
    <3>4. Baseline'
      BY <2>1, <2>3, <3>2 DEF Baseline, Planning, Proved
    <3> QED
      BY <1>0, <2>1, <2>3, <3>1, <3>2, <3>3, <3>4, ReadingStep DEF Typed, TypeOK
  <2> QED
    BY <1>1, <2>2, <2>3 DEF StartRoot, Return
<1>2. CASE EndRoot
  <2>1. /\ cmd.what = "uid" /\ cmd' = Idle /\ trace' = Append(trace, Line(cmd.what, cmd.begun)) /\ pc' = "plan"
        /\ mode' = mode /\ echo' = echo /\ verified' = verified /\ reach' = reach
        /\ ended' = ended /\ run' = run /\ link' = link /\ outcome' = outcome /\ at' = at /\ result' = result
        /\ sheet' = sheet /\ sent' = sent /\ err' = err /\ open' = open
    BY <1>2 DEF EndRoot, env, Recorded
  <2>2. pc = "exec" /\ elevate' \in {"none", "sudo", "root"}
    BY <1>2 DEF EndRoot, Returns, Typed
  <2>3. Reading /\ ~Planning
    BY <2>1, <2>2 DEF Reading, Planning
  <2>4. trace' \in Seq(Lines) /\ Ledger'
    BY <2>1, <2>2, EndFacts, LedgerIdle
  <2>5. cmd' \in Commands /\ cmd'.what = "none" /\ cmd'.end # "failed"
    BY <2>1 DEF Idle, Commands, Ends, Statuses
  <2>6. InHand'
    BY <2>1, <2>2, <2>5 DEF InHand
  <2>7. Baseline'
    BY <2>1, <2>2, <2>3, <2>5 DEF Baseline, Planning, Proved
  <2> QED
    BY <1>0, <2>1, <2>2, <2>3, <2>4, <2>5, <2>6, <2>7, ReadingStep DEF Typed, TypeOK
<1> QED
  BY <1>1, <1>2

\* baseline.Run's loop head.
LEMMA NextCheckStep == ASSUME IInv, NextCheck PROVE IInv'
<1> USE DEF IInv
<1>1. /\ pc = "plan" /\ Reading /\ Planning /\ cmd = Idle
      /\ mode' = mode /\ elevate' = elevate /\ echo' = echo /\ verified' = verified /\ reach' = reach
      /\ ended' = ended /\ run' = run /\ link' = link /\ outcome' = outcome /\ at' = at /\ result' = result
      /\ sent' = sent /\ trace' = trace /\ cmd' = cmd
  BY DEF NextCheck, env, Reading, Planning, InHand
<1>2. trace' \in Seq(Lines) /\ Id("uid") \in Names
  BY <1>1, NameFacts DEF Typed, Whats
<1>3. cmd' \in Commands /\ cmd'.what = "none" /\ cmd'.end # "failed" /\ cmd'.st = "idle"
  BY <1>1 DEF Idle, Commands, Ends, Statuses
<1>4. ~sheet.lost /\ ~sheet.incomplete /\ err = "none" /\ Proved
  BY <1>1 DEF Baseline, Ending, Session
<1>5. CASE at <= N /\ run = "no"
  <2>1. pc' = "elevate" /\ sheet' = sheet /\ err' = err /\ open' = open
    BY <1>5 DEF NextCheck
  <2>2. InHand'
    BY <1>1, <1>3, <1>5, <2>1 DEF InHand
  <2>3. Ledger'
    BY <1>1, <2>1, LedgerSame
  <2>4. Baseline'
    BY <1>1, <2>1 DEF Baseline, Planning, Proved
  <2> QED
    BY <1>1, <1>2, <1>3, <2>1, <2>2, <2>3, <2>4, ReadingStep DEF Typed, TypeOK
<1>6. CASE ~(at <= N /\ run = "no")
  <2>1. pc' = "returned" /\ sheet' = [sheet EXCEPT !.incomplete = @ \/ CutShort] /\ err' = "none" /\ open' = FALSE
    BY <1>6 DEF NextCheck, Return
  <2>2. /\ sheet' \in [incomplete : BOOLEAN, lost : BOOLEAN] /\ sheet'.lost = sheet.lost
        /\ sheet'.incomplete <=> at <= N
    BY <1>4, <2>1 DEF CutShort, Typed
  <2>3. InHand'
    BY <1>1, <1>3, <2>1 DEF InHand
  <2>4. Ledger'
    BY <1>1, <2>1, LedgerSame
  <2>5. Baseline'
    BY <1>1, <1>4, <2>1, <2>2 DEF Baseline, Planning, Proved
  <2> QED
    BY <1>1, <1>2, <1>3, <2>1, <2>2, <2>3, <2>4, <2>5, ReadingStep DEF Typed, TypeOK
<1> QED
  BY <1>5, <1>6

\* reconStage records the host.
LEMMA RecordStep == ASSUME IInv, Record PROVE IInv'
<1> USE DEF IInv
<1>1. /\ pc = "returned" /\ pc' = "done" /\ outcome' = Outcome(err)
      /\ mode' = mode /\ elevate' = elevate /\ echo' = echo /\ verified' = verified /\ reach' = reach
      /\ ended' = ended /\ run' = run /\ link' = link /\ at' = at /\ result' = result /\ open' = open
      /\ sent' = sent /\ trace' = trace /\ cmd' = cmd /\ err' = err /\ sheet' = sheet
  BY DEF Record, env
<1>2. /\ outcome' \in [status : {"none", "not_collected", "refused", "failed", "incomplete", "collected"},
                       reason : {"none", "limit_reached", "refused", "failed"}]
      /\ outcome'.status = "refused" => ended = "no" /\ err \in {"access", "excluded", "canary"}
  BY <1>1 DEF Outcome, Usage
<1>3. Typed'
  <2>1. TypeOK'
    BY <1>1 DEF Typed, TypeOK
  <2> QED
    BY <1>1, <1>2, <2>1 DEF Typed
<1>4. InHand' /\ Session' /\ CanaryFirst'
  BY <1>1 DEF InHand, Session, CanaryFirst, Early, Proving, Reading, Proved
<1>5. Baseline'
  BY <1>1 DEF Baseline, Planning, Proved
<1>6. Ending' /\ RefusedForCause'
  BY <1>1, <1>2 DEF Ending, RefusedForCause
<1>7. Ledger'
  BY <1>1, LedgerSame
<1> QED
  BY <1>3, <1>4, <1>5, <1>6, <1>7

-----------------------------------------------------------------------------
(* The steps preserve the invariant: the planned checks.                   *)

\* A check's result is taken, and its lines are written.
LEMMA TakeStep ==
    ASSUME IInv, pc = "elevate" \/ (pc = "exec" /\ cmd.what \in {"which", "check"}),
           NEW code \in Codes, NEW lost \in BOOLEAN, Take(code, lost),
           cmd' = Idle, sent' = sent, trace' \in Seq(Lines), CountedIn(trace'), MatchedIn(trace', sent),
           Cardinality(RanIn(trace')) = Len(sent),
           mode' = mode, elevate' = elevate, echo' = echo, verified' = verified, reach' = reach,
           ended' = ended, run' = run, link' = link, outcome' = outcome
    PROVE  IInv'
<1> USE DEF IInv
<1>1. Reading /\ Planning /\ at <= N /\ at \in 1..(N + 1) /\ N \in Nat
  <2>1. N \in Nat
    BY HostAssumption DEF HostAssumption, N
  <2> QED
    BY <2>1 DEF Reading, Planning, InHand, Typed, TypeOK
<1>2. /\ result' = [result EXCEPT ![at] = code]
      /\ sheet' = [incomplete |-> lost, lost |-> lost]
      /\ lost => pc' = "returned" /\ err' = "none" /\ open' = FALSE /\ at' = at
      /\ ~lost => pc' = "plan" /\ at' = at + 1 /\ err' = err /\ open' = open
  BY DEF Take, Return
<1>3. /\ pc \notin {"returned", "done"} /\ err = "none" /\ ~sheet.lost /\ ~sheet.incomplete /\ Proved
      /\ result \in [1..N -> Codes \cup {"none"}]
      /\ \A i \in 1..N : result[i] # "none" <=> i < at
  BY <1>1 DEF Reading, Ending, Baseline, Session, Typed, TypeOK
<1>4. at' \in 1..(N + 1) /\ at \in 1..N
  BY <1>1, <1>2
<1>5. /\ result' \in [1..N -> Codes \cup {"none"}] /\ result'[at] # "none"
      /\ \A i \in 1..N : i # at => result'[i] = result[i]
  <2>1. code # "none"
    BY DEF Codes
  <2> QED
    BY <1>2, <1>3, <1>4, <2>1
<1>6. cmd' \in Commands /\ cmd'.what = "none" /\ cmd'.end # "failed" /\ Id("uid") \in Names
  BY NameFacts DEF Idle, Commands, Ends, Statuses, Typed, Whats
<1>7. InHand'
  BY <1>2, <1>6 DEF InHand
<1>8. Baseline'
  <2>1. \A i \in 1..N : result'[i] # "none" <=> (i < at' \/ (i = at' /\ sheet'.lost))
    <3> SUFFICES ASSUME NEW i \in 1..N PROVE result'[i] # "none" <=> (i < at' \/ (i = at' /\ sheet'.lost))
      OBVIOUS
    <3>1. CASE i = at
      BY <1>1, <1>2, <1>5, <3>1
    <3>2. CASE i # at
      <4>1. result'[i] # "none" <=> i < at
        BY <1>3, <1>5, <3>2
      <4> QED
        BY <1>1, <1>2, <3>2, <4>1
    <3> QED
      BY <3>1, <3>2
  <2>2. sheet'.lost = lost /\ sheet'.incomplete = lost
    BY <1>2
  <2>3. /\ sheet'.lost => at' <= N /\ Proved'
        /\ (pc' \notin {"returned", "done"} \/ err' # "none") => ~sheet'.lost /\ ~sheet'.incomplete
        /\ ((pc' \notin {"returned", "done"} /\ ~Planning') \/ err' # "none") => at' = 1
        /\ (pc' = "returned" /\ err' = "none" /\ ~sheet'.lost) => Proved' /\ (sheet'.incomplete <=> at' <= N)
    BY <1>1, <1>2, <1>3, <2>2 DEF Planning, Proved
  <2> QED
    BY <2>1, <2>3 DEF Baseline
<1>9. Ledger'
  BY LedgerIdle
<1>10. sheet' \in [incomplete : BOOLEAN, lost : BOOLEAN] /\ open' \in BOOLEAN /\ sent \in Seq(Names)
       /\ elevate' \in {"none", "sudo", "root"} /\ run' \in {"no", "deadline", "canceled"}
  BY <1>2 DEF Typed, TypeOK
<1>11. \/ pc' = "returned" /\ err' \in {"none", "platform"}
       \/ pc' \in {"root", "plan", "elevate"} /\ err' = err
  BY <1>2
<1> QED
  BY <1>1, <1>4, <1>5, <1>6, <1>7, <1>8, <1>9, <1>10, <1>11, ReadingStep

\* runCheck up to its command, and a check that elevation refuses.
LEMMA StartCheckStep == ASSUME IInv, StartCheck PROVE IInv'
<1> USE DEF IInv
<1>1. /\ pc = "elevate" /\ Reading /\ Planning
      /\ mode' = mode /\ elevate' = elevate /\ echo' = echo /\ verified' = verified /\ reach' = reach
      /\ ended' = ended /\ run' = run /\ link' = link /\ outcome' = outcome
  BY DEF StartCheck, env, Reading, Planning
<1>2. Typed /\ "check" \in Whats /\ "which" \in Whats /\ run' \in {"no", "deadline", "canceled"}
  BY <1>1 DEF Whats, Typed, TypeOK
<1>3. CASE Take("requires_elevation", FALSE) /\ Recorded("check", FALSE) /\ UNCHANGED <<cmd, sent>>
  <2>1. cmd = Idle /\ Cardinality(RanIn(trace)) = Len(sent)
    BY <1>1, NoneInFlight
  <2>2. Id("check") \in Names /\ trace' = Append(trace, NewLine(trace, Id("check"), FALSE))
    BY <1>2, <1>3, NameFacts DEF Recorded
  <2>3. CountedIn(trace) /\ MatchedIn(trace, sent) /\ trace \in Seq(Lines) /\ sent \in Seq(Names)
        /\ Cardinality(RanIn(trace)) \in Nat
    BY LinesFinite DEF Ledger, Typed, RanIn
  <2>4. /\ trace' \in Seq(Lines) /\ CountedIn(trace') /\ MatchedIn(trace', sent)
        /\ Cardinality(RanIn(trace')) = Len(sent)
    BY <2>1, <2>2, <2>3, SilentLine
  <2> QED
    BY <1>1, <1>3, <2>1, <2>4, TakeStep DEF Codes
<1>4. CASE (\E what \in {"check", "which"}, sudo \in BOOLEAN : Begin(what, sudo))
           /\ UNCHANGED <<result, sheet, err, open, at, trace>>
  <2>1. PICK what \in {"check", "which"}, sudo \in BOOLEAN : Begin(what, sudo)
    BY <1>4
  <2> QED
    BY <1>1, <1>2, <1>4, <2>1, BeginStep
<1> QED
  BY <1>3, <1>4 DEF StartCheck

\* The check's command is over.
LEMMA EndCheckStep == ASSUME IInv, EndCheck PROVE IInv'
<1>1. PICK e \in Ends : Returns(e) /\ Take(Classify(e, cmd.sudo, run), e = "lost")
  BY DEF EndCheck
<1>2. /\ cmd.what = "check" /\ pc = "exec" /\ cmd' = Idle /\ trace' = Append(trace, Line(cmd.what, cmd.begun))
      /\ sent' = sent
      /\ mode' = mode /\ elevate' = elevate /\ echo' = echo /\ verified' = verified /\ reach' = reach
      /\ ended' = ended /\ run' = run /\ link' = link /\ outcome' = outcome
  BY <1>1 DEF EndCheck, env, Recorded, Returns
<1>3. Classify(e, cmd.sudo, run) \in Codes
  BY DEF Classify, Codes
<1>4. /\ trace' \in Seq(Lines) /\ CountedIn(trace') /\ MatchedIn(trace', sent)
      /\ Cardinality(RanIn(trace')) = Len(sent)
  BY <1>2, EndFacts
<1> QED
  BY <1>1, <1>2, <1>3, <1>4, TakeStep

\* The probe's command is over: the check runs under sudo, or its result says
\* that its binary is not there.
LEMMA EndProbeStep == ASSUME IInv, EndProbe PROVE IInv'
<1> USE DEF IInv
<1>1. PICK e \in Ends :
          /\ Returns(e)
          /\ IF Installed(e)
             THEN /\ Recorded("which", cmd.begun) /\ Begin("check", TRUE)
                  /\ UNCHANGED <<result, sheet, err, open, at>>
             ELSE /\ trace' = trace \o ProbeLines
                  /\ Take(ProbeCode(e), e = "lost") /\ cmd' = Idle /\ UNCHANGED sent
  BY DEF EndProbe
<1>2. /\ cmd.what = "which" /\ pc = "exec" /\ Reading /\ Planning /\ at <= N
      /\ mode' = mode /\ elevate' = elevate /\ echo' = echo /\ verified' = verified /\ reach' = reach
      /\ ended' = ended /\ run' = run /\ link' = link /\ outcome' = outcome
  BY <1>1 DEF EndProbe, env, Returns, Reading, Planning, InHand
<1>3. /\ Typed /\ trace \in Seq(Lines) /\ sent \in Seq(Names) /\ cmd.begun \in BOOLEAN
      /\ "check" \in Whats /\ "which" \in Whats
  BY DEF Typed, Commands, Whats
<1> DEFINE b == Append(trace, Line("which", cmd.begun))
<1>4. /\ b \in Seq(Lines) /\ CountedIn(b) /\ MatchedIn(b, sent) /\ Cardinality(RanIn(b)) = Len(sent)
      /\ \A other : other # Id("which") => LinesOf(b, other) = LinesOf(trace, other)
  BY <1>2, EndFacts
<1>5. CASE Installed(e)
  <2>1. /\ trace' = b /\ Begin("check", TRUE)
        /\ result' = result /\ sheet' = sheet /\ err' = err /\ open' = open /\ at' = at
    BY <1>1, <1>5 DEF Recorded
  <2>2. /\ pc' = "exec" /\ cmd' \in Commands /\ cmd'.what = "check" /\ cmd'.st # "idle" /\ cmd'.end # "failed"
        /\ ~cmd'.begun => cmd'.st = "ended" /\ cmd'.end = "lost"
        /\ sent' \in Seq(Names)
        /\ sent' = sent \/ sent' = Append(sent, Id("check"))
        /\ Ledger'
    BY <1>3, <1>4, <2>1, BeginFacts
  <2>3. Id("check") \in Names
    BY <1>3, NameFacts
  <2>4. InHand'
    BY <1>2, <2>1, <2>2 DEF InHand
  <2>5. Baseline'
    BY <1>2, <2>1, <2>2 DEF Baseline, Planning, Proved
  <2> QED
    BY <1>2, <1>4, <2>1, <2>2, <2>3, <2>4, <2>5, ReadingStep DEF Typed, TypeOK
<1>6. CASE ~Installed(e)
  <2>1. trace' = trace \o ProbeLines /\ Take(ProbeCode(e), e = "lost") /\ cmd' = Idle /\ sent' = sent
    BY <1>1, <1>6
  <2>2. ProbeCode(e) \in Codes
    BY DEF ProbeCode, Codes
  <2>3. Id("check") \in Names /\ Id("check") # Id("which")
    <3>1. Id("check") \in Names
      BY <1>3, NameFacts
    <3> QED
      BY <3>1 DEF Id
  <2>4. /\ Line("check", FALSE) = NewLine(trace, Id("check"), FALSE)
        /\ LinesOf(b, Id("check")) = LinesOf(trace, Id("check"))
    BY <1>3, <1>4, <2>3, NameFacts
  <2>5. Line("check", FALSE) = NewLine(b, Id("check"), FALSE)
    BY <2>4 DEF NewLine
  <2>6. trace' = Append(b, Line("check", FALSE))
    <3>1. Line("which", cmd.begun) \in Lines
      <4>1. Len(b) = Len(trace) + 1 /\ b[Len(trace) + 1] = Line("which", cmd.begun)
        BY <1>3
      <4> QED
        BY <1>3, <1>4, <4>1
    <3>2. Line("check", FALSE) \in Lines
      BY <1>3, <1>4, <2>3, <2>5, SilentLine
    <3>3. ProbeLines = <<Line("which", cmd.begun), Line("check", FALSE)>>
      BY <1>2 DEF ProbeLines
    <3> QED
      BY <1>3, <2>1, <3>1, <3>2, <3>3, TwoLines
  <2>7. /\ trace' \in Seq(Lines) /\ CountedIn(trace') /\ MatchedIn(trace', sent)
        /\ Cardinality(RanIn(trace')) = Len(sent)
    BY <1>3, <1>4, <2>3, <2>5, <2>6, SilentLine
  <2> QED
    BY <1>2, <2>1, <2>2, <2>7, TakeStep
<1> QED
  BY <1>5, <1>6

\* Exec gives the command up.
LEMMA TimeoutStep == ASSUME IInv, TakeTimeout PROVE IInv'
<1> USE DEF IInv
<1>1. /\ cmd' = [cmd EXCEPT !.took = "timeout"] /\ cmd \in Commands /\ pc = "exec"
      /\ mode' = mode /\ elevate' = elevate /\ pc' = pc /\ open' = open /\ verified' = verified
      /\ reach' = reach /\ at' = at /\ result' = result /\ sheet' = sheet /\ err' = err /\ echo' = echo
      /\ sent' = sent /\ trace' = trace /\ outcome' = outcome
      /\ ended' = ended /\ run' = run /\ link' = link
  BY DEF TakeTimeout, env, Typed
<1>2. /\ cmd' \in Commands /\ cmd'.what = cmd.what /\ cmd'.begun = cmd.begun /\ cmd'.st = cmd.st
      /\ cmd'.end = cmd.end
  BY <1>1 DEF Commands
<1>3. Typed'
  <2>1. TypeOK'
    BY <1>1, <1>2 DEF Typed, TypeOK
  <2> QED
    BY <1>1, <1>2, <2>1 DEF Typed
<1>4. InHand' /\ Session' /\ CanaryFirst'
  BY <1>1, <1>2 DEF InHand, Session, CanaryFirst, Early, Proving, Reading, Proved
<1>5. Baseline' /\ Ending' /\ RefusedForCause'
  BY <1>1, <1>2 DEF Baseline, Planning, Proved, Ending, RefusedForCause
<1>6. Ledger'
  BY <1>1, <1>2, LedgerSame
<1> QED
  BY <1>3, <1>4, <1>5, <1>6

-----------------------------------------------------------------------------
(* The invariant holds in every reachable state.                           *)

LEMMA HostStarts == ASSUME Init PROVE IInv
<1>0. N \in Nat \ {0} /\ mode \in {"local", "ssh", "jump"} /\ elevate \in {"none", "sudo"}
  BY HostAssumption DEF HostAssumption, N, Init
<1>1. /\ pc = "start" /\ ended = "no" /\ run = "no" /\ link = "none" /\ open = FALSE /\ verified = FALSE
      /\ reach = NoReach /\ cmd = Idle /\ at = 1 /\ result = [i \in 1..N |-> "none"]
      /\ sheet = [incomplete |-> FALSE, lost |-> FALSE]
      /\ err = "none" /\ echo = "none" /\ sent = <<>> /\ trace = <<>>
      /\ outcome = [status |-> "none", reason |-> "none"]
  BY DEF Init
<1>2. Idle \in Commands /\ Idle.end \in Ends /\ Idle.st = "idle" /\ Idle.what = "none" /\ Idle.end = "good"
  BY DEF Idle, Commands, Ends, Statuses
<1>3. Typed
  <2>1. TypeOK
    BY <1>0, <1>1, <1>2 DEF TypeOK
  <2>2. <<>> \in Seq(Names) /\ <<>> \in Seq(Lines)
    OBVIOUS
  <2> QED
    BY <1>0, <1>1, <1>2, <2>1, <2>2 DEF Typed, NoReach
<1>4. InHand
  BY <1>1, <1>2 DEF InHand
<1>5. Session /\ CanaryFirst
  <2>1. Len(sent) = 0
    BY <1>1
  <2> QED
    BY <1>1, <2>1 DEF Session, CanaryFirst, Early, Proving, Reading, Proved
<1>6. Baseline
  <2>1. \A i \in 1..N : result[i] = "none" /\ ~(i < at)
    BY <1>0, <1>1
  <2> QED
    BY <1>1, <2>1 DEF Baseline
<1>7. Ending /\ RefusedForCause
  BY <1>1 DEF Ending, RefusedForCause
<1>8. Ledger
  <2>1. DOMAIN trace = {} /\ RanIn(trace) = {}
    BY <1>1 DEF RanIn
  <2>2. Cardinality(RanIn(trace)) = 0 /\ Len(sent) = 0 /\ InFlight = 0
    BY <1>1, <1>2, <2>1, FS_EmptySet DEF InFlight
  <2> QED
    BY <1>1, <2>1, <2>2 DEF Ledger, CountedIn, MatchedIn
<1> QED
  BY <1>3, <1>4, <1>5, <1>6, <1>7, <1>8 DEF IInv

LEMMA HostSteps == ASSUME IInv, [Next]_vars PROVE IInv'
<1>1. CASE Step
  BY <1>1, StartStep, DialStep, TimeoutStep, StartCanaryStep, EndCanaryStep, PlatformStep, RootStep,
     NextCheckStep, StartCheckStep, EndProbeStep, EndCheckStep, RecordStep DEF Step
<1>2. CASE Environment
  BY <1>2, EnvironmentStep
<1>3. CASE Finished \/ UNCHANGED vars
  BY <1>3, HostStutters DEF Finished
<1> QED
  BY <1>1, <1>2, <1>3 DEF Next

\* IInv is an invariant of the collection, whatever its commands do.
THEOREM HostInvariant == Spec => []IInv
<1>1. Init => IInv
  BY HostStarts
<1>2. IInv /\ [Next]_vars => IInv'
  BY HostSteps
<1> QED
  BY <1>1, <1>2, PTL DEF Spec

\* No two lines share a reference: the later one counts the earlier one.
LEMMA OwnReferences ==
    ASSUME NEW a \in Seq(Lines), CountedIn(a), NEW j \in DOMAIN a, NEW k \in DOMAIN a, j < k
    PROVE  a[j].ref # a[k].ref
<1> SUFFICES ASSUME a[j].ref = a[k].ref PROVE FALSE
  OBVIOUS
<1> DEFINE S(m) == {i \in 1..m : a[i].ref[1] = a[m].ref[1]}
<1>1. DOMAIN a = 1..Len(a) /\ Len(a) \in Nat /\ j \in Nat /\ k \in Nat
  OBVIOUS
<1>2. S(j) \subseteq DOMAIN a /\ S(k) \subseteq DOMAIN a
  BY <1>1
<1>3. IsFiniteSet(S(j)) /\ IsFiniteSet(S(k)) /\ Cardinality(S(j)) \in Nat /\ Cardinality(S(k)) \in Nat
  BY <1>2, LinesFinite
<1>4. S(j) \subseteq S(k) /\ k \in S(k) /\ k \notin S(j)
  BY <1>1
<1>5. Cardinality(S(j)) # Cardinality(S(k))
  BY <1>3, <1>4, FS_Subset
<1> QED
  BY <1>5 DEF CountedIn

\* The lines of audit.jsonl are lines of the trace, in its order (FileOfTrace).
FiledIn(f, a) ==
    /\ \A i \in DOMAIN f : \E k \in DOMAIN a : a[k] = f[i]
    /\ \A i, j \in DOMAIN f, k, l \in DOMAIN a : i < j /\ a[k] = f[i] /\ a[l] = f[j] => k < l
Filing == file \in Seq(Lines) /\ FiledIn(file, trace)

\* One more line of the trace, whether or not audit.jsonl took it.
LEMMA LineFiled ==
    ASSUME NEW a \in Seq(Lines), NEW f \in Seq(Lines), NEW x \in Lines, CountedIn(Append(a, x)),
           FiledIn(f, a), NEW g \in Filed(f, x)
    PROVE  g \in Seq(Lines) /\ FiledIn(g, Append(a, x))
<1> DEFINE b == Append(a, x)
           m == Len(a) + 1
           n == Len(f) + 1
<1>1. /\ b \in Seq(Lines) /\ m \in DOMAIN b /\ b[m] = x /\ DOMAIN b \subseteq Nat /\ DOMAIN f \subseteq Nat
      /\ \A k \in DOMAIN a : k \in DOMAIN b /\ b[k] = a[k] /\ k < m
  OBVIOUS
<1>2. \A k, l \in DOMAIN b : b[k] = b[l] => k = l
  <2>1. \A k, l \in DOMAIN b : k < l => b[k] # b[l]
    BY <1>1, OwnReferences
  <2>2. \A k, l \in DOMAIN b : k < l \/ l < k \/ k = l
    BY <1>1
  <2> QED
    BY <2>1, <2>2
<1> HIDE DEF b, m
<1>3. \A i \in DOMAIN f : \E k \in DOMAIN a : b[k] = f[i] /\ k < m /\ \A l \in DOMAIN b : b[l] = f[i] => l = k
  BY <1>1, <1>2 DEF FiledIn
<1>4. FiledIn(f, b)
  <2>1. \A i \in DOMAIN f : \E k \in DOMAIN b : b[k] = f[i]
    BY <1>1, <1>3
  <2>2. ASSUME NEW i \in DOMAIN f, NEW j \in DOMAIN f, NEW k \in DOMAIN b, NEW l \in DOMAIN b,
               i < j, b[k] = f[i], b[l] = f[j]
        PROVE  k < l
    <3>1. k \in DOMAIN a /\ l \in DOMAIN a
      BY <1>3, <2>2
    <3>2. a[k] = f[i] /\ a[l] = f[j]
      BY <1>1, <2>2, <3>1
    <3> QED
      BY <2>2, <3>1, <3>2 DEF FiledIn
  <2> QED
    BY <2>1, <2>2 DEF FiledIn
<1>5. CASE g = f
  BY <1>4, <1>5 DEF b
<1>6. CASE g = Append(f, x)
  <2>1. /\ g \in Seq(Lines) /\ g[n] = x /\ \A i \in DOMAIN f : g[i] = f[i]
        /\ \A i \in DOMAIN g : i \in DOMAIN f \/ i = n
        /\ \A i \in DOMAIN f, j \in DOMAIN g : j < i => j \in DOMAIN f
        /\ \A j \in DOMAIN g : ~(n < j) /\ (j < n => j \in DOMAIN f)
    BY <1>6
  <2> HIDE DEF n
  <2>2. \A i \in DOMAIN g : \E k \in DOMAIN b : b[k] = g[i]
    BY <1>1, <1>4, <2>1 DEF FiledIn
  <2>3. ASSUME NEW i \in DOMAIN g, NEW j \in DOMAIN g, NEW k \in DOMAIN b, NEW l \in DOMAIN b,
               i < j, b[k] = g[i], b[l] = g[j]
        PROVE  k < l
    <3>1. CASE j \in DOMAIN f
      <4>1. i \in DOMAIN f
        BY <2>1, <2>3, <3>1
      <4>2. g[i] = f[i] /\ g[j] = f[j]
        BY <2>1, <3>1, <4>1
      <4> QED
        BY <1>4, <2>3, <3>1, <4>1, <4>2 DEF FiledIn
    <3>2. CASE j = n
      <4>1. i \in DOMAIN f /\ g[i] = f[i] /\ g[j] = x
        BY <2>1, <2>3, <3>2
      <4>2. l = m
        BY <1>1, <1>2, <2>3, <4>1
      <4>3. k < m
        BY <1>3, <2>3, <4>1
      <4> QED
        BY <4>2, <4>3
    <3> QED
      BY <2>1, <3>1, <3>2
  <2> QED
    BY <2>1, <2>2, <2>3 DEF FiledIn, b
<1> QED
  BY <1>5, <1>6 DEF Filed

\* Recorded: a line of the trace, and of audit.jsonl unless its write failed.
LEMMA RecordedFiled ==
    ASSUME IInv, IInv', Filing, NEW what, NEW ran, Recorded(what, ran)
    PROVE  Filing'
<1> DEFINE x == Line(what, ran)
<1>1. trace' = Append(trace, x) /\ file' \in Filed(file, x)
  BY DEF Recorded
<1>2. trace \in Seq(Lines) /\ trace' \in Seq(Lines) /\ CountedIn(trace')
  BY DEF IInv, Typed, Ledger
<1> HIDE DEF x
<1>3. x \in Lines
  <2>1. Len(Append(trace, x)) = Len(trace) + 1 /\ Append(trace, x)[Len(trace) + 1] = x
    BY <1>2
  <2> QED
    BY <1>1, <1>2, <2>1
<1> QED
  BY <1>1, <1>2, <1>3, LineFiled DEF Filing

\* The probe's line and its check's.
LEMMA ProbeFiled == ASSUME IInv, IInv', Filing, EndProbe PROVE Filing'
<1>1. PICK e \in Ends :
          /\ Returns(e)
          /\ IF Installed(e) THEN Recorded("which", cmd.begun)
             ELSE /\ trace' = trace \o ProbeLines
                  /\ \E f \in Filed(file, ProbeLines[1]) : file' \in Filed(f, ProbeLines[2])
  BY DEF EndProbe
<1>2. CASE Installed(e)
  BY <1>1, <1>2, RecordedFiled
<1>3. CASE ~Installed(e)
  <2> DEFINE x == Line("which", cmd.begun)
             y == Line("check", FALSE)
             b == Append(trace, x)
  <2>1. PICK f \in Filed(file, x) : file' \in Filed(f, y)
    BY <1>1, <1>3 DEF ProbeLines
  <2>2. trace' = trace \o <<x, y>>
    BY <1>1, <1>3 DEF ProbeLines
  <2>3. cmd.what = "which" /\ pc = "exec" /\ Typed /\ trace \in Seq(Lines) /\ trace' \in Seq(Lines) /\ CountedIn(trace')
    BY <1>1 DEF EndProbe, Returns, IInv, Typed, Ledger
  <2>4. b \in Seq(Lines) /\ CountedIn(b)
    BY <2>3, EndFacts
  <2> HIDE DEF x, y
  <2>5. x \in Lines /\ y \in Lines
    <3>1. /\ Len(trace \o <<x, y>>) = Len(trace) + 2 /\ (trace \o <<x, y>>)[Len(trace) + 1] = x
          /\ (trace \o <<x, y>>)[Len(trace) + 2] = y /\ Len(trace) \in Nat
      BY <2>3
    <3> QED
      BY <2>2, <2>3, <3>1
  <2>6. trace' = Append(b, y)
    BY <2>2, <2>3, <2>5, TwoLines
  <2>7. f \in Seq(Lines) /\ FiledIn(f, b)
    BY <2>1, <2>3, <2>4, <2>5, LineFiled DEF Filing
  <2> QED
    BY <2>1, <2>3, <2>4, <2>5, <2>6, <2>7, LineFiled DEF Filing
<1> QED
  BY <1>2, <1>3

\* Every step keeps what audit.jsonl holds lines of the trace, in its order.
LEMMA FileSteps == ASSUME IInv, IInv', Filing, [Next]_vars PROVE Filing'
<1>1. CASE trace' = trace /\ file' = file
  BY <1>1 DEF Filing, FiledIn
<1>2. CASE EndCanary \/ EndPlatform \/ EndRoot \/ EndCheck
  BY <1>2, RecordedFiled DEF EndCanary, EndPlatform, EndRoot, EndCheck
<1>3. CASE StartCheck
  BY <1>1, <1>3, RecordedFiled DEF StartCheck
<1>4. CASE EndProbe
  BY <1>4, ProbeFiled
<1>5. CASE Start \/ (\E hop \in BOOLEAN : DialTCP(hop) \/ Handshake(hop)) \/ OpenThroughHop
  BY <1>1, <1>5 DEF Start, DialTCP, Handshake, OpenThroughHop
<1>6. CASE TakeTimeout \/ StartCanary \/ StartPlatform \/ StartRoot \/ NextCheck \/ Record
  BY <1>1, <1>6 DEF TakeTimeout, StartCanary, StartPlatform, StartRoot, NextCheck, Record
<1>7. CASE Environment
  BY <1>1, <1>7 DEF Environment, CommandEnds, CloseSeen, LinkDrops, DeadlinePasses, RunTimesOut,
                    EngagementEnds, rest
<1>8. CASE Finished \/ UNCHANGED vars
  BY <1>1, <1>8 DEF Finished, vars
<1> QED
  BY <1>2, <1>3, <1>4, <1>5, <1>6, <1>7, <1>8 DEF Next, Step

\* What is sent to a host is earned by its canary, and a host is refused only for
\* cause; every command that is over has one line in the trace, in order and under
\* a reference of its own, and audit.jsonl holds lines of the trace in its order,
\* whichever writes fail (VerifyCanary, record, retain, reconStage).
THEOREM HostAlwaysAccounts == Spec => []HostAccounts
<1>1. IInv /\ Filing => HostAccounts
  <2> SUFFICES ASSUME IInv, Filing PROVE CommandsAudited
    BY DEF IInv, Typed, HostAccounts
  <2>1. trace \in Seq(Lines) /\ CountedIn(trace) /\ MatchedIn(trace, sent) /\ DOMAIN trace \subseteq Nat
    BY DEF IInv, Typed, Ledger
  <2>2. Ran = RanIn(trace)
    BY DEF Ran, RanIn
  <2>3. Cardinality(Ran) + InFlight = Len(sent)
    BY <2>2 DEF IInv, Ledger
  <2>4. \A k \in Ran : trace[k].ref[1] = sent[Cardinality({j \in Ran : j <= k})]
    BY <2>1, <2>2 DEF MatchedIn
  <2>5. \A j, k \in DOMAIN trace : trace[j].ref = trace[k].ref => j = k
    <3>1. \A j, k \in DOMAIN trace : j < k => trace[j].ref # trace[k].ref
      BY <2>1, OwnReferences
    <3>2. \A j, k \in DOMAIN trace : j < k \/ k < j \/ j = k
      BY <2>1
    <3> QED
      BY <3>1, <3>2
  <2> QED
    BY <2>3, <2>4, <2>5 DEF CommandsAudited, FileOfTrace, Filing, FiledIn
<1>2. Init => Filing
  BY DEF Init, Filing, FiledIn
<1>3. IInv /\ IInv' /\ Filing /\ [Next]_vars => Filing'
  BY FileSteps
<1> QED
  BY <1>1, <1>2, <1>3, HostInvariant, PTL DEF Spec

-----------------------------------------------------------------------------
(* The collection implements HostPromise.                                  *)

\* The checks answered are those before the one the baseline is at, and that
\* one too when its session was found lost.
LEMMA HowMany ==
    ASSUME IInv
    PROVE  /\ N \in Nat /\ at \in 1..(N + 1)
           /\ ~sheet.lost => Answered = at - 1
           /\ sheet.lost => Answered = at
<1>1. N \in Nat /\ at \in 1..(N + 1)
  BY HostAssumption DEF HostAssumption, N, IInv, Typed, TypeOK
<1>2. \A i \in 1..N : result[i] # "none" <=> (i < at \/ (i = at /\ sheet.lost))
  BY DEF IInv, Baseline
<1>3. CASE ~sheet.lost
  <2>1. {i \in 1..N : result[i] # "none"} = 1..(at - 1)
    BY <1>1, <1>2, <1>3
  <2>2. Cardinality(1..(at - 1)) = at - 1
    <3>1. Cardinality(1..(at - 1)) = IF 1 > at - 1 THEN 0 ELSE (at - 1) - 1 + 1
      BY <1>1, FS_Interval
    <3> QED
      BY <1>1, <3>1
  <2> QED
    BY <1>1, <1>3, <2>1, <2>2 DEF Answered
<1>4. CASE sheet.lost
  <2>1. at <= N
    BY <1>4 DEF IInv, Baseline
  <2>2. {i \in 1..N : result[i] # "none"} = 1..at
    BY <1>1, <1>2, <1>4, <2>1
  <2>3. Cardinality(1..at) = at
    <3>1. Cardinality(1..at) = IF 1 > at THEN 0 ELSE at - 1 + 1
      BY <1>1, FS_Interval
    <3> QED
      BY <1>1, <3>1
  <2> QED
    BY <1>1, <1>4, <2>2, <2>3 DEF Answered
<1> QED
  BY <1>1, <1>3, <1>4

\* The same of the next state.
Counted == (~sheet.lost => Answered = at - 1) /\ (sheet.lost => Answered = at)
LEMMA HowManyNext == IInv' => Counted'
<1>1. IInv => Counted
  BY HowMany DEF Counted
<1> QED
  BY <1>1, PTL

\* A step that leaves what HostPromise speaks of as it was.
LEMMA PromiseSame ==
    ASSUME mode' = mode, echo' = echo, result' = result, sheet'.lost = sheet.lost, outcome' = outcome
    PROVE  Trust' = Trust /\ Answered' = Answered /\ Told' = Told
BY DEF Trust, Answered, Told

\* The canary proves the session, finds it altered, or settles nothing.
LEMMA CanaryProves == ASSUME IInv, EndCanary PROVE Promise!Prove \/ UNCHANGED Promise!vars
<1>1. PICK e \in Ends : Returns(e) /\ echo' = e
  BY DEF EndCanary
<1>2. /\ cmd.what = "canary" /\ mode' = mode /\ result' = result /\ sheet' = sheet /\ outcome' = outcome
  BY DEF EndCanary
<1>3. pc = "exec" /\ Proving /\ mode # "local" /\ echo = "none" /\ ~sheet.lost /\ outcome.status = "none"
  BY <1>1, <1>2 DEF Returns, Proving, IInv, InHand, Session, Baseline, Ending
<1>4. Answered' = Answered /\ Told' = Told /\ Told = "open" /\ Trust = "none"
  BY <1>2, <1>3 DEF Answered, Told, Trust
<1>5. Trust' \in {"proved", "none", "altered"}
  BY <1>2, <1>3 DEF Trust
<1> QED
  BY <1>4, <1>5 DEF Promise!Prove, Promise!vars

\* A check's result is one more answer on a proved session.
LEMMA TakeAnswers ==
    ASSUME IInv, IInv', pc = "elevate" \/ (pc = "exec" /\ cmd.what \in {"which", "check"}),
           NEW code, NEW lost \in BOOLEAN, Take(code, lost),
           mode' = mode, echo' = echo, outcome' = outcome
    PROVE  Promise!Answer
<1>1. Reading /\ at <= N
  BY DEF Reading, IInv, InHand
<1>2. Proved /\ ~sheet.lost /\ outcome.status = "none"
  BY <1>1 DEF Reading, IInv, Session, Baseline, Ending
<1>3. /\ sheet'.lost = lost
      /\ lost => at' = at
      /\ ~lost => at' = at + 1
  BY DEF Take
<1>4. Answered = at - 1 /\ at \in Nat /\ N \in Nat
  BY <1>2, HowMany
<1>5. Answered' = at
  <2>1. /\ ~sheet'.lost => Answered' = at' - 1
        /\ sheet'.lost => Answered' = at'
    BY HowManyNext DEF Counted
  <2> QED
    BY <1>3, <1>4, <2>1
<1>6. Told' = Told /\ Told = "open"
  BY <1>2 DEF Told
<1>7. Trust = "proved" /\ Trust' \in {"proved", "lost"}
  BY <1>2, <1>3 DEF Trust, Proved
<1>8. Answered < N /\ Answered' = Answered + 1
  BY <1>1, <1>4, <1>5
<1> QED
  BY <1>6, <1>7, <1>8 DEF Promise!Answer

\* What is recorded is one of the statuses the collection earned.
LEMMA RecordCloses == ASSUME IInv, Record PROVE Promise!Close
<1>1. /\ pc = "returned" /\ outcome' = Outcome(err) /\ mode' = mode /\ echo' = echo
      /\ result' = result /\ sheet' = sheet
  BY DEF Record
<1>2. Trust' = Trust /\ Answered' = Answered /\ Told = "open"
  <2>1. outcome.status = "none"
    BY <1>1 DEF IInv, Ending
  <2> QED
    BY <1>1, <2>1 DEF Trust, Answered, Told
<1>3. CASE err # "none"
  <2>1. ~sheet.lost /\ at = 1
    BY <1>3 DEF IInv, Baseline
  <2>2. Answered = 0 /\ Trust \in {"none", "altered", "proved"}
    <3>1. Answered = 0
      BY <2>1, HowMany
    <3> QED
      BY <2>1, <3>1 DEF Trust
  <2>3. outcome'.status \in {"refused", "failed", "not_collected"}
    BY <1>1, <1>3 DEF Outcome, Usage
  <2>4. Told' \in {"refused", "failed", "unread"}
    BY <2>3 DEF Told
  <2> QED
    BY <1>2, <2>2, <2>4 DEF Promise!Close, Promise!Statuses
<1>4. CASE err = "none" /\ sheet.lost
  <2>1. outcome'.status = "incomplete" /\ outcome'.reason = "failed"
    BY <1>1, <1>4 DEF Outcome
  <2>2. Trust = "lost" /\ Told' = "incomplete_failed"
    BY <1>4, <2>1 DEF Trust, Told
  <2> QED
    BY <1>2, <2>2 DEF Promise!Close, Promise!Statuses
<1>5. CASE err = "none" /\ ~sheet.lost
  <2>1. Proved /\ (sheet.incomplete <=> at <= N)
    BY <1>1, <1>5 DEF IInv, Baseline
  <2>2. Trust = "proved"
    BY <1>5, <2>1 DEF Trust, Proved
  <2>3. Answered = at - 1 /\ N \in Nat /\ at \in 1..(N + 1)
    BY <1>5, HowMany
  <2>4. CASE sheet.incomplete
    <3>1. Told' = "incomplete_limit"
      BY <1>1, <1>5, <2>4 DEF Told, Outcome
    <3>2. Answered < N
      BY <2>1, <2>3, <2>4
    <3> QED
      BY <1>2, <2>2, <3>1, <3>2 DEF Promise!Close, Promise!Statuses
  <2>5. CASE ~sheet.incomplete
    <3>1. Told' = "collected"
      BY <1>1, <1>5, <2>5 DEF Told, Outcome
    <3>2. Answered = N
      BY <2>1, <2>3, <2>5
    <3> QED
      BY <1>2, <2>2, <3>1, <3>2 DEF Promise!Close, Promise!Statuses
  <2> QED
    BY <2>4, <2>5
<1> QED
  BY <1>3, <1>4, <1>5

\* An engagement that is over before the host's turn records it as unread.
LEMMA StartCloses == ASSUME IInv, Start PROVE Promise!Close \/ UNCHANGED Promise!vars
<1>1. /\ pc = "start" /\ mode' = mode /\ echo' = echo /\ result' = result /\ sheet' = sheet
      /\ outcome' = outcome \/ outcome' = [status |-> "not_collected", reason |-> "limit_reached"]
  BY DEF Start
<1>2. CASE outcome' = outcome
  BY <1>1, <1>2, PromiseSame DEF Promise!vars
<1>3. CASE outcome' = [status |-> "not_collected", reason |-> "limit_reached"]
  <2>1. outcome.status = "none" /\ ~sheet.lost /\ at = 1 /\ echo = "none"
    BY <1>1 DEF IInv, Ending, Baseline, Planning, Session, Early
  <2>2. Trust' = Trust /\ Answered' = Answered /\ Told = "open" /\ Told' = "unread"
    BY <1>1, <1>3, <2>1 DEF Trust, Answered, Told
  <2>3. Answered = 0 /\ Trust \in {"none", "proved"}
    <3>1. Answered = 0
      BY <2>1, HowMany
    <3> QED
      BY <2>1, <3>1 DEF Trust
  <2> QED
    BY <2>2, <2>3 DEF Promise!Close, Promise!Statuses
<1> QED
  BY <1>1, <1>2, <1>3

\* Every step is a step of HostPromise or leaves it as it was.
LEMMA PromiseSteps == ASSUME IInv, IInv', [Next]_vars PROVE [Promise!Next]_(Promise!vars)
<1>1. CASE Start
  BY <1>1, StartCloses DEF Promise!Next
<1>2. CASE EndCanary
  BY <1>2, CanaryProves DEF Promise!Next
<1>3. CASE Record
  BY <1>3, RecordCloses DEF Promise!Next
<1>4. CASE StartCheck
  <2>1. pc = "elevate" /\ mode' = mode /\ echo' = echo /\ outcome' = outcome
    BY <1>4 DEF StartCheck
  <2>2. CASE Take("requires_elevation", FALSE)
    BY <2>1, <2>2, TakeAnswers DEF Promise!Next
  <2>3. CASE result' = result /\ sheet' = sheet
    BY <2>1, <2>3, PromiseSame DEF Promise!vars
  <2> QED
    BY <1>4, <2>2, <2>3 DEF StartCheck
<1>5. CASE EndProbe
  <2>1. PICK e \in Ends :
          /\ Returns(e)
          /\ IF Installed(e)
             THEN /\ Recorded("which", cmd.begun) /\ Begin("check", TRUE)
                  /\ UNCHANGED <<result, sheet, err, open, at>>
             ELSE /\ trace' = trace \o ProbeLines
                  /\ Take(ProbeCode(e), e = "lost") /\ cmd' = Idle /\ UNCHANGED sent
    BY <1>5 DEF EndProbe
  <2>2. pc = "exec" /\ cmd.what = "which" /\ mode' = mode /\ echo' = echo /\ outcome' = outcome
    BY <1>5, <2>1 DEF EndProbe, Returns
  <2>3. CASE Installed(e)
    BY <2>1, <2>2, <2>3, PromiseSame DEF Promise!vars
  <2>4. CASE ~Installed(e)
    BY <2>1, <2>2, <2>4, TakeAnswers DEF Promise!Next
  <2> QED
    BY <2>3, <2>4
<1>6. CASE EndCheck
  <2>1. PICK e \in Ends : Returns(e) /\ Take(Classify(e, cmd.sudo, run), e = "lost")
    BY <1>6 DEF EndCheck
  <2>2. pc = "exec" /\ cmd.what = "check" /\ mode' = mode /\ echo' = echo /\ outcome' = outcome
    BY <1>6, <2>1 DEF EndCheck, Returns
  <2> QED
    BY <2>1, <2>2, TakeAnswers DEF Promise!Next
<1>7. CASE NextCheck
  <2>1. /\ mode' = mode /\ echo' = echo /\ outcome' = outcome /\ result' = result
        /\ sheet' = sheet \/ sheet' = [sheet EXCEPT !.incomplete = @ \/ CutShort]
    BY <1>7 DEF NextCheck
  <2>2. sheet'.lost = sheet.lost
    BY <2>1 DEF IInv, Typed
  <2> QED
    BY <2>1, <2>2, PromiseSame DEF Promise!vars
<1>8. CASE /\ mode' = mode /\ echo' = echo /\ result' = result /\ sheet' = sheet /\ outcome' = outcome
  BY <1>8, PromiseSame DEF Promise!vars
<1>9. CASE (\E hop \in BOOLEAN : DialTCP(hop) \/ Handshake(hop)) \/ OpenThroughHop
  BY <1>8, <1>9 DEF DialTCP, Handshake, OpenThroughHop
<1>10. CASE TakeTimeout \/ StartCanary \/ StartPlatform \/ EndPlatform \/ StartRoot \/ EndRoot
  BY <1>8, <1>10 DEF TakeTimeout, StartCanary, StartPlatform, EndPlatform, StartRoot, EndRoot
<1>11. CASE Environment
  BY <1>8, <1>11 DEF Environment, CommandEnds, CloseSeen, LinkDrops, DeadlinePasses, RunTimesOut,
                     EngagementEnds, rest
<1>12. CASE Finished \/ UNCHANGED vars
  BY <1>8, <1>12 DEF Finished, vars
<1> QED
  BY <1>1, <1>2, <1>3, <1>4, <1>5, <1>6, <1>7, <1>9, <1>10, <1>11, <1>12 DEF Next, Step

\* The collection of a host keeps what HostPromise promises: checks are answered
\* one after the other on a proved session, and the one status recorded tells a
\* whole reading, one that a limit cut, one that a lost session cut, and a host
\* that was not read apart (Collect, baseline.Run, reconStage).
THEOREM HostKeepsPromise == Spec => KeepsPromise
<1>1. Init => Promise!Init
  <2> SUFFICES ASSUME Init PROVE Promise!Init
    OBVIOUS
  <2>1. /\ at = 1 /\ sheet = [incomplete |-> FALSE, lost |-> FALSE] /\ echo = "none"
        /\ outcome = [status |-> "none", reason |-> "none"]
    BY DEF Init
  <2>2. Trust \in {"none", "proved"} /\ Told = "open"
    BY <2>1 DEF Trust, Told
  <2>3. Answered = 0
    BY <2>1, HostStarts, HowMany
  <2> QED
    BY <2>2, <2>3 DEF Promise!Init
<1>2. IInv /\ IInv' /\ [Next]_vars => [Promise!Next]_(Promise!vars)
  BY PromiseSteps
<1> QED
  BY <1>1, <1>2, HostInvariant, PTL DEF Spec, KeepsPromise, Promise!Spec
=============================================================================
