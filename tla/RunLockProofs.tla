--------------------------- MODULE RunLockProofs ---------------------------
(***************************************************************************)
(* Proofs about RunLock.tla: for any number of invocations and any number  *)
(* of requests, the lock of a run directory keeps its run.json consistent. *)
(***************************************************************************)
EXTENDS RunLock, SequenceTheorems, TLAPS

-----------------------------------------------------------------------------
(* The inductive invariant.                                                *)

\* An invocation has the lock exactly while it is where the code holds it.
LockHeld == \A p \in Procs : pc[p] \in Holding <=> lock = p

\* Nothing happened before the directory is there.
NoDir == ~dir => (run = None /\ \A p \in Procs : pc[p] = "idle")

\* While the creator of the directory waits for its lock there is no run.json,
\* so no one else can have come past the probe or the look for run.json.
CreatorAlone ==
    \A c \in Procs : pc[c] = "create" =>
        /\ run = None
        /\ \A q \in Procs \ {c} : pc[q] \in {"idle", "probe", "probing", "refused", "dead"}

\* Whoever goes for the lock as a resume has seen run.json.
SeenRun == \A p \in Procs : pc[p] \in {"lock", "load"} => run # None

\* Nobody has sent, or has sessions in memory, before its session is open.
NotSent ==
    \A p \in Procs :
        /\ pc[p] \in {"idle", "create", "lock", "load", "open"} => sent[p] = 0
        /\ pc[p] \in {"idle", "create"} => mem[p] = <<>>

\* A session is opened on the sessions run.json has.
OpensOnRun ==
    \A p \in Procs : pc[p] = "open" => mem[p] = IF run = None THEN <<>> ELSE run

\* m and r list the same sessions, the last of them p's and not ended in r.
SameBut(m, r, p) ==
    /\ Len(r) > 0 /\ Len(m) = Len(r)
    /\ \A i \in 1 .. Len(r) : i < Len(r) => m[i] = r[i]
    /\ r[Len(r)].by = p /\ ~r[Len(r)].ended

\* A session in progress is the last of run.json, open, and the session's own
\* copy differs from run.json in that entry only.
OwnsLast ==
    \A p \in Procs : pc[p] \in {"run", "close"} => (run # None /\ SameBut(mem[p], run, p))

IInv ==
    /\ TypeOK
    /\ LockHeld /\ NoDir /\ CreatorAlone /\ SeenRun /\ NotSent /\ OpensOnRun /\ OwnsLast
    /\ SentOnRecord

-----------------------------------------------------------------------------
(* The sessions an invocation saves.                                       *)

\* The session's own entry is a record of a session.
LEMMA EntryType ==
    ASSUME NEW p \in Procs, NEW n \in 0 .. MaxSent, NEW e \in BOOLEAN
    PROVE  /\ Entry(p, n, e) \in Records
           /\ Entry(p, n, e).by = p /\ Entry(p, n, e).sent = n /\ Entry(p, n, e).ended = e
BY DEF Entry, Records

\* keepRequests and closeSession change the last entry and nothing else.
LEMMA UpdatedFacts ==
    ASSUME NEW p \in Procs, NEW e \in BOOLEAN, TypeOK, OwnsLast, pc[p] \in {"run", "close"}
    PROVE  /\ run \in Sessions /\ Len(run) \in Nat /\ Len(run) > 0
           /\ Updated(p, e) \in Sessions
           /\ Len(Updated(p, e)) = Len(run)
           /\ \A i \in 1 .. Len(run) : i < Len(run) => Updated(p, e)[i] = run[i]
           /\ Updated(p, e)[Len(run)] = Entry(p, sent[p], e)
<1>1. run \in Sessions /\ mem[p] \in Sessions /\ SameBut(mem[p], run, p)
  BY DEF TypeOK, OwnsLast
<1>2. Len(run) \in Nat /\ Len(run) > 0 /\ Len(mem[p]) = Len(run)
  BY <1>1, LenProperties DEF SameBut, Sessions
<1>3. Entry(p, sent[p], e) \in Records
  BY EntryType DEF TypeOK
<1>4. Len(mem[p]) \in 1 .. Len(mem[p])
  BY <1>2
<1>5. /\ Updated(p, e) \in Sessions
      /\ Len(Updated(p, e)) = Len(run)
      /\ \A i \in 1 .. Len(run) :
            Updated(p, e)[i] = IF i = Len(run) THEN Entry(p, sent[p], e) ELSE mem[p][i]
  BY <1>1, <1>2, <1>3, <1>4, ExceptSeq DEF Updated, Sessions
<1> QED
  BY <1>1, <1>2, <1>5 DEF SameBut

\* openManifest appends one entry to what the session loaded.
LEMMA OpenedFacts ==
    ASSUME NEW p \in Procs, TypeOK, OpensOnRun, pc[p] = "open"
    PROVE  LET m == Opened(p) IN
           /\ m \in Sessions
           /\ Len(m) \in Nat /\ Len(m) > 0
           /\ m[Len(m)] = Entry(p, 0, FALSE)
           /\ run # None =>
                /\ run \in Sessions /\ Len(run) \in Nat /\ Len(m) = Len(run) + 1
                /\ \A i \in 1 .. Len(run) : m[i] = run[i]
<1>1. mem[p] \in Seq(Records) /\ Len(mem[p]) \in Nat
  BY LenProperties DEF TypeOK, Sessions
<1>2. Entry(p, 0, FALSE) \in Records
  BY MaxSentAssumption DEF Entry, Records
<1>3. /\ Opened(p) \in Seq(Records)
      /\ Len(Opened(p)) = Len(mem[p]) + 1
      /\ \A i \in 1 .. Len(mem[p]) : Opened(p)[i] = mem[p][i]
      /\ Opened(p)[Len(mem[p]) + 1] = Entry(p, 0, FALSE)
  <2>1. PICK e \in Records : e = Entry(p, 0, FALSE)
    BY <1>2
  <2>2. Opened(p) = Append(mem[p], e)
    BY <2>1 DEF Opened
  <2>3. /\ Append(mem[p], e) \in Seq(Records)
        /\ Len(Append(mem[p], e)) = Len(mem[p]) + 1
        /\ \A i \in 1 .. Len(mem[p]) : Append(mem[p], e)[i] = mem[p][i]
        /\ Append(mem[p], e)[Len(mem[p]) + 1] = e
    BY <1>1, AppendProperties
  <2> QED
    BY <2>1, <2>2, <2>3
<1>4. run # None => (run \in Sessions /\ mem[p] = run)
  BY DEF TypeOK, OpensOnRun
<1> QED
  BY <1>1, <1>3, <1>4 DEF Sessions

-----------------------------------------------------------------------------
(* Every step keeps the invariant.                                         *)

\* Before any invocation comes there is no directory and the invariant holds.
LEMMA InitIInv == Init => IInv
<1> SUFFICES ASSUME Init PROVE IInv
  OBVIOUS
<1>1. TypeOK
  <2>1. <<>> \in Sessions /\ 0 \in 0 .. MaxSent
    BY MaxSentAssumption DEF Sessions
  <2> QED
    BY <2>1 DEF Init, TypeOK, Holding, PCs
<1>2. LockHeld /\ NoDir /\ CreatorAlone /\ SeenRun /\ NotSent /\ OpensOnRun /\ OwnsLast /\ SentOnRecord
  BY ProcsAssumption DEF Init, LockHeld, Holding, NoDir, CreatorAlone, SeenRun, NotSent,
     OpensOnRun, OwnsLast, SentOnRecord
<1> QED
  BY <1>1, <1>2 DEF IInv

\* The steps that leave run.json, the sessions in memory and the counts alone:
\* Mkdir, Probe, ProbeClose, CreateLock, Stat, LockRunDir, Return, Close, Crash.
LockStep(p) ==
    \/ Mkdir(p) \/ Probe(p) \/ ProbeClose(p) \/ CreateLock(p) \/ Stat(p)
    \/ LockRunDir(p) \/ Return(p) \/ Close(p) \/ Crash(p)

\* Taking, waiting for and releasing the lock keeps the invariant.
LEMMA LockStepIInv ==
    ASSUME IInv, NEW p \in Procs, LockStep(p)
    PROVE  IInv'
<1> USE DEF Goto
<1>1. UNCHANGED <<run, mem, sent>>
  BY DEF LockStep, Mkdir, Probe, ProbeClose, CreateLock, Stat, LockRunDir, Return, Close, Crash
<1>2. TypeOK'
  BY DEF IInv, TypeOK, Holding, PCs, LockStep, Mkdir, Probe, ProbeClose, CreateLock, Stat,
     LockRunDir, Return, Close, Crash
<1>3. LockHeld'
  BY ProcsAssumption DEF IInv, TypeOK, LockHeld, Holding, LockStep, Mkdir, Probe, ProbeClose, CreateLock,
     Stat, LockRunDir, Return, Close, Crash
<1>4. NoDir'
  BY DEF IInv, TypeOK, NoDir, LockStep, Mkdir, Probe, ProbeClose, CreateLock, Stat,
     LockRunDir, Return, Close, Crash
<1>5. CreatorAlone'
  BY DEF IInv, TypeOK, NoDir, CreatorAlone, LockStep, Mkdir, Probe, ProbeClose, CreateLock, Stat,
     LockRunDir, Return, Close, Crash
<1>6. SeenRun'
  BY <1>1 DEF IInv, TypeOK, SeenRun, LockStep, Mkdir, Probe, ProbeClose, CreateLock, Stat,
     LockRunDir, Return, Close, Crash
<1>7. NotSent'
  BY <1>1 DEF IInv, TypeOK, NotSent, LockStep, Mkdir, Probe, ProbeClose, CreateLock, Stat,
     LockRunDir, Return, Close, Crash
<1>8. OpensOnRun'
  BY <1>1 DEF IInv, TypeOK, CreatorAlone, NotSent, OpensOnRun, LockStep, Mkdir, Probe, ProbeClose,
     CreateLock, Stat, LockRunDir, Return, Close, Crash
<1>9. OwnsLast'
  BY <1>1 DEF IInv, TypeOK, OwnsLast, SameBut, LockStep, Mkdir, Probe, ProbeClose, CreateLock, Stat,
     LockRunDir, Return, Close, Crash
<1>10. SentOnRecord'
  BY <1>1 DEF IInv, SentOnRecord
<1> QED
  BY <1>2, <1>3, <1>4, <1>5, <1>6, <1>7, <1>8, <1>9, <1>10 DEF IInv

\* While one invocation has the lock no other is where it would have it.
LEMMA HoldsAlone ==
    ASSUME LockHeld, NEW p \in Procs, pc[p] \in Holding, NEW q \in Procs, q # p
    PROVE  pc[q] \notin Holding
BY DEF LockHeld

\* While one invocation is past the probe and holds the lock, nobody created
\* the directory and still waits for it.
LEMMA NoCreator ==
    ASSUME CreatorAlone, NEW p \in Procs, pc[p] \in Holding \ {"probing"}, NEW c \in Procs
    PROVE  pc[c] # "create"
BY DEF CreatorAlone, Holding

\* LoadPrior reads run.json under the lock, so what it loads is what openManifest
\* finds.
LEMMA LoadPriorIInv ==
    ASSUME IInv, NEW p \in Procs, LoadPrior(p)
    PROVE  IInv'
<1> USE DEF Goto
<1>1. pc[p] = "load" /\ UNCHANGED <<dir, lock, run, sent>>
  BY DEF LoadPrior
<1>2. run # None /\ run \in Sessions
  BY <1>1 DEF IInv, TypeOK, SeenRun
<1>3. TypeOK'
  BY <1>2 DEF IInv, TypeOK, Holding, PCs, LoadPrior
<1>4. LockHeld' /\ NoDir' /\ CreatorAlone' /\ SeenRun'
  BY DEF IInv, TypeOK, LockHeld, Holding, NoDir, CreatorAlone, SeenRun, LoadPrior
<1>5. NotSent' /\ OpensOnRun'
  BY <1>2 DEF IInv, TypeOK, NotSent, OpensOnRun, LoadPrior
<1>6. OwnsLast'
  BY DEF IInv, TypeOK, OwnsLast, SameBut, LoadPrior
<1>7. SentOnRecord'
  BY <1>1 DEF IInv, SentOnRecord
<1> QED
  BY <1>3, <1>4, <1>5, <1>6, <1>7 DEF IInv

\* A request is sent only once its session is on record as not ended.
LEMMA WorkIInv ==
    ASSUME IInv, NEW p \in Procs, Work(p)
    PROVE  IInv'
<1>1. pc[p] = "run" /\ UNCHANGED <<dir, lock, run, pc, mem>>
  BY DEF Work
<1>2. TypeOK'
  BY MaxSentAssumption DEF IInv, TypeOK, Work
<1>3. LockHeld' /\ NoDir' /\ CreatorAlone' /\ SeenRun' /\ NotSent' /\ OpensOnRun' /\ OwnsLast'
  BY <1>1 DEF IInv, TypeOK, LockHeld, NoDir, CreatorAlone, SeenRun, NotSent, OpensOnRun, OwnsLast,
     SameBut, Work
<1>4. SentOnRecord'
  <2> SUFFICES ASSUME NEW q \in Procs, sent'[q] > 0
               PROVE  /\ run # None
                      /\ \E i \in DOMAIN run : run[i].by = q /\ (run[i].ended => run[i].sent = sent'[q])
    BY <1>1 DEF SentOnRecord
  <2>1. CASE q = p
    <3>1. run # None /\ run \in Sessions /\ SameBut(mem[p], run, p)
      BY <1>1 DEF IInv, TypeOK, OwnsLast
    <3>2. Len(run) \in DOMAIN run
      BY <3>1, LenProperties DEF SameBut, Sessions
    <3> QED
      BY <2>1, <3>1, <3>2 DEF SameBut
  <2>2. CASE q # p
    BY <2>2 DEF IInv, TypeOK, SentOnRecord, Work
  <2> QED
    BY <2>1, <2>2
<1> QED
  BY <1>2, <1>3, <1>4 DEF IInv

\* openManifest puts the session at the end of run.json, or run.json is as before.
LEMMA OpenManifestIInv ==
    ASSUME IInv, NEW p \in Procs, OpenManifest(p)
    PROVE  IInv'
<1> USE DEF Goto
<1>1. /\ pc[p] = "open" /\ UNCHANGED <<dir, lock, sent>>
      /\ mem' = [mem EXCEPT ![p] = Opened(p)]
  BY DEF OpenManifest
<1> DEFINE m == Opened(p)
<1>2. /\ m \in Sessions
      /\ Len(m) \in Nat /\ Len(m) > 0 /\ m[Len(m)] = Entry(p, 0, FALSE)
      /\ run # None =>
            /\ run \in Sessions /\ Len(run) \in Nat /\ Len(m) = Len(run) + 1
            /\ \A i \in 1 .. Len(run) : m[i] = run[i]
  BY <1>1, OpenedFacts DEF IInv
<1>3. m # None /\ DOMAIN m = 1 .. Len(m)
  BY <1>2, NoneAssumption, LenProperties DEF Sessions
<1>4. \/ run' = m /\ pc' = [pc EXCEPT ![p] = "run"]
      \/ run' = run /\ pc' = [pc EXCEPT ![p] = "unlock"]
  BY DEF OpenManifest, Save
<1>5. \A q \in Procs : q # p => pc[q] \notin Holding
  BY <1>1, HoldsAlone DEF IInv, Holding
<1>6. \A q \in Procs : pc[q] # "create"
  BY <1>1, NoCreator DEF IInv, Holding
<1>7. \A q \in Procs : q # p => (pc'[q] = pc[q] /\ mem'[q] = mem[q])
  BY <1>1, <1>4 DEF IInv, TypeOK
<1>8. pc'[p] \in {"run", "unlock"} /\ mem'[p] = m
  BY <1>1, <1>4 DEF IInv, TypeOK
<1> HIDE DEF m
<1>9. TypeOK'
  BY <1>1, <1>2, <1>4 DEF IInv, TypeOK, Holding, PCs, m
<1>10. LockHeld' /\ NoDir' /\ CreatorAlone'
  BY <1>1, <1>4, <1>6, <1>7, <1>8 DEF IInv, TypeOK, LockHeld, Holding, NoDir, CreatorAlone
<1>11. SeenRun' /\ NotSent' /\ OpensOnRun'
  BY <1>1, <1>3, <1>4, <1>5, <1>7, <1>8 DEF IInv, TypeOK, Holding, SeenRun, NotSent, OpensOnRun
<1>12. OwnsLast'
  <2> SUFFICES ASSUME NEW q \in Procs, pc'[q] \in {"run", "close"}
               PROVE  run' # None /\ SameBut(mem'[q], run', q)
    BY DEF OwnsLast, SameBut
  <2>1. q = p /\ run' = m
    BY <1>4, <1>5, <1>7, <1>8 DEF Holding, IInv, TypeOK
  <2>2. m[Len(m)].by = p /\ ~ m[Len(m)].ended
    BY <1>2 DEF Entry
  <2>3. run' = m /\ mem'[q] = m
    BY <2>1, <1>8
  <2>4. SameBut(m, m, p)
    BY <1>2, <2>2 DEF SameBut
  <2> QED
    BY <1>3, <2>1, <2>3, <2>4
<1>13. SentOnRecord'
  <2> SUFFICES ASSUME NEW q \in Procs, sent[q] > 0
               PROVE  /\ run' # None
                      /\ \E i \in DOMAIN run' : run'[i].by = q /\ (run'[i].ended => run'[i].sent = sent[q])
    BY <1>1 DEF SentOnRecord
  <2>1. run # None
    BY DEF IInv, SentOnRecord
  <2>2. PICK i \in DOMAIN run : run[i].by = q /\ (run[i].ended => run[i].sent = sent[q])
    BY DEF IInv, SentOnRecord
  <2>3. i \in 1 .. Len(run) /\ i \in 1 .. Len(m) /\ m[i] = run[i]
    BY <1>2, <2>1, LenProperties DEF Sessions
  <2> QED
    BY <1>3, <1>4, <2>1, <2>2, <2>3
<1> QED
  BY <1>9, <1>10, <1>11, <1>12, <1>13 DEF IInv

\* The two steps that bring the session's entry up to date; e: it has ended.
Bring(p, e) ==
    /\ mem' = [mem EXCEPT ![p] = Updated(p, e)]
    /\ UNCHANGED <<dir, lock, sent>>
    /\ \/ run' = Updated(p, e)
       \/ run' = run

\* keepRequests leaves the session running or ends it after a failed write;
\* closeSession ends it.
LEMMA BringIInv ==
    ASSUME IInv, NEW p \in Procs, NEW e \in BOOLEAN, Bring(p, e), pc[p] \in {"run", "close"},
           NEW to \in {"run", "close", "unlock"}, pc' = [pc EXCEPT ![p] = to],
           e => to = "unlock"
    PROVE  IInv'
<1> DEFINE m == Updated(p, e)
<1>1. /\ run \in Sessions /\ Len(run) \in Nat /\ Len(run) > 0
      /\ m \in Sessions /\ Len(m) = Len(run)
      /\ \A i \in 1 .. Len(run) : i < Len(run) => m[i] = run[i]
      /\ m[Len(run)] = Entry(p, sent[p], e)
  BY UpdatedFacts DEF IInv
<1>2. m[Len(run)].by = p /\ m[Len(run)].sent = sent[p] /\ m[Len(run)].ended = e
  BY <1>1 DEF Entry
<1>3. m # None /\ run # None /\ DOMAIN m = 1 .. Len(run) /\ DOMAIN run = 1 .. Len(run)
  BY <1>1, NoneAssumption, LenProperties DEF Sessions
<1>4. mem' = [mem EXCEPT ![p] = m] /\ UNCHANGED <<dir, lock, sent>> /\ (run' = m \/ run' = run)
  BY DEF Bring
<1>5. \A q \in Procs : q # p => pc[q] \notin Holding
  BY HoldsAlone DEF IInv, Holding
<1>6. \A q \in Procs : pc[q] # "create"
  BY NoCreator DEF IInv, Holding
<1>7. \A q \in Procs : q # p => (pc'[q] = pc[q] /\ mem'[q] = mem[q])
  BY <1>4 DEF IInv, TypeOK
<1>8. pc'[p] = to /\ mem'[p] = m
  BY <1>4 DEF IInv, TypeOK
<1> HIDE DEF m
<1>9. TypeOK'
  BY <1>1, <1>4 DEF IInv, TypeOK, Holding, PCs
<1>10. LockHeld' /\ NoDir' /\ CreatorAlone'
  BY <1>4, <1>6, <1>7, <1>8 DEF IInv, TypeOK, LockHeld, Holding, NoDir, CreatorAlone
<1>11. SeenRun' /\ NotSent' /\ OpensOnRun'
  BY <1>3, <1>4, <1>5, <1>7, <1>8 DEF IInv, TypeOK, Holding, SeenRun, NotSent, OpensOnRun
<1>12. OwnsLast'
  <2> SUFFICES ASSUME NEW q \in Procs, pc'[q] \in {"run", "close"}
               PROVE  run' # None /\ SameBut(mem'[q], run', q)
    BY DEF OwnsLast, SameBut
  <2>1. q = p /\ ~e
    BY <1>5, <1>7, <1>8 DEF Holding
  <2>2. SameBut(m, m, p)
    BY <1>1, <1>2, <2>1 DEF SameBut
  <2>3. SameBut(m, run, p)
    BY <1>1 DEF SameBut, IInv, OwnsLast
  <2> QED
    BY <1>3, <1>4, <1>8, <2>1, <2>2, <2>3
<1>13. SentOnRecord'
  <2> SUFFICES ASSUME NEW q \in Procs, sent[q] > 0
               PROVE  /\ run' # None
                      /\ \E i \in DOMAIN run' : run'[i].by = q /\ (run'[i].ended => run'[i].sent = sent[q])
    BY <1>4 DEF SentOnRecord
  <2>1. PICK i \in DOMAIN run : run[i].by = q /\ (run[i].ended => run[i].sent = sent[q])
    BY DEF IInv, SentOnRecord
  <2>2. CASE run' = run
    BY <1>3, <2>1, <2>2
  <2>3. CASE run' = m /\ i < Len(run)
    BY <1>1, <1>3, <2>1, <2>3
  <2>4. CASE run' = m /\ i = Len(run)
    <3>1. q = p
      BY <2>1, <2>4 DEF IInv, OwnsLast, SameBut
    <3> QED
      BY <1>2, <1>3, <2>1, <2>4, <3>1
  <2> QED
    BY <1>1, <1>3, <1>4, <2>2, <2>3, <2>4
<1> QED
  BY <1>9, <1>10, <1>11, <1>12, <1>13 DEF IInv

\* keepRequests saves the count of a session that goes on.
LEMMA KeepRequestsIInv ==
    ASSUME IInv, NEW p \in Procs, KeepRequests(p)
    PROVE  IInv'
<1>1. pc[p] = "run" /\ Bring(p, FALSE)
  BY DEF KeepRequests, Save, Bring
<1>2. PICK to \in {"run", "close", "unlock"} : pc' = [pc EXCEPT ![p] = to]
  BY DEF KeepRequests, Goto
<1> QED
  BY <1>1, <1>2, BringIInv

\* closeSession saves the count of a session that ended.
LEMMA CloseSessionIInv ==
    ASSUME IInv, NEW p \in Procs, CloseSession(p)
    PROVE  IInv'
<1>1. pc[p] = "close" /\ Bring(p, TRUE) /\ pc' = [pc EXCEPT ![p] = "unlock"]
  BY DEF CloseSession, Save, Bring, Goto
<1> QED
  BY <1>1, BringIInv

\* Every step of every invocation, crashes included, keeps the invariant.
LEMMA NextIInv == IInv /\ [Next]_vars => IInv'
<1> SUFFICES ASSUME IInv, [Next]_vars PROVE IInv'
  OBVIOUS
<1>1. CASE UNCHANGED vars
  BY <1>1 DEF vars, IInv, TypeOK, LockHeld, NoDir, CreatorAlone, SeenRun, NotSent, OpensOnRun,
     OwnsLast, SameBut, SentOnRecord
<1>2. CASE Next
  <2>1. PICK p \in Procs : Mkdir(p) \/ Stat(p) \/ Step(p) \/ Work(p) \/ Crash(p)
    BY <1>2 DEF Next
  <2>2. \/ LockStep(p) \/ LoadPrior(p) \/ OpenManifest(p) \/ KeepRequests(p)
        \/ CloseSession(p) \/ Work(p)
    BY <2>1 DEF Step, LockStep
  <2> QED
    BY <2>2, LockStepIInv, LoadPriorIInv, OpenManifestIInv, KeepRequestsIInv, CloseSessionIInv,
       WorkIInv
<1> QED
  BY <1>1, <1>2 DEF vars

\* The inductive invariant holds throughout.
THEOREM Invariant == Spec => []IInv
BY InitIInv, NextIInv, PTL DEF Spec

-----------------------------------------------------------------------------
(* What follows.                                                           *)

\* The directory's state keeps its type: no session records more than it can
\* have sent, and only invocations hold the lock.
THEOREM TypeCorrect == Spec => []TypeOK
<1>1. IInv => TypeOK
  BY DEF IInv
<1> QED
  BY Invariant, <1>1, PTL

\* CreateRunDir waits for the lock of its new directory behind a probe only,
\* for any number of invocations.
THEOREM CreatorBehindProbe == Spec => []CreatorWaitsForProbe
<1>1. IInv => CreatorWaitsForProbe
  <2> SUFFICES ASSUME IInv, NEW c \in Procs, pc[c] = "create", lock # None
               PROVE  pc[lock] = "probing"
    BY DEF CreatorWaitsForProbe
  <2>1. lock \in Procs /\ pc[lock] \in Holding
    BY DEF IInv, TypeOK, LockHeld
  <2>2. lock # c
    BY <2>1 DEF Holding
  <2>3. pc[lock] \in {"idle", "probe", "probing", "refused", "dead"}
    BY <2>1, <2>2 DEF IInv, CreatorAlone
  <2> QED
    BY <2>1, <2>3 DEF Holding
<1> QED
  BY Invariant, <1>1, PTL

\* Nothing an invocation sent is lost to run.json: its count is there, or its
\* session is there as one that did not end.
THEOREM NothingSentIsLost == Spec => []SentOnRecord
<1>1. IInv => SentOnRecord
  BY DEF IInv
<1> QED
  BY Invariant, <1>1, PTL

\* What SessionsOnlyGrow says of one step.
Grows ==
    run # None =>
        /\ run' # None
        /\ Len(run') >= Len(run)
        /\ \A i \in DOMAIN run :
            /\ run'[i].by = run[i].by
            /\ run[i].ended => run'[i] = run[i]

\* A step that leaves run.json alone loses no session.
LEMMA SameGrows == ASSUME TypeOK, run' = run PROVE Grows
<1> SUFFICES ASSUME run # None PROVE Len(run) \in Nat
  BY DEF Grows
<1> QED
  BY LenProperties DEF TypeOK, Sessions

\* keepRequests and closeSession lose no session.
LEMMA BringGrows ==
    ASSUME IInv, NEW p \in Procs, NEW e \in BOOLEAN, Bring(p, e), pc[p] \in {"run", "close"}
    PROVE  Grows
<1>1. CASE run' = run
  BY <1>1, SameGrows DEF IInv
<1>2. CASE run' = Updated(p, e)
  <2> DEFINE m == Updated(p, e)
  <2>1. /\ run \in Sessions /\ Len(run) \in Nat /\ Len(run) > 0
        /\ m \in Sessions /\ Len(m) = Len(run)
        /\ \A i \in 1 .. Len(run) : i < Len(run) => m[i] = run[i]
        /\ m[Len(run)] = Entry(p, sent[p], e)
    BY UpdatedFacts DEF IInv
  <2>2. m[Len(run)].by = p
    BY <2>1 DEF Entry
  <2>3. run[Len(run)].by = p /\ ~run[Len(run)].ended
    BY DEF IInv, OwnsLast, SameBut
  <2>4. m # None /\ DOMAIN run = 1 .. Len(run)
    BY <2>1, NoneAssumption, LenProperties DEF Sessions
  <2> HIDE DEF m
  <2>5. run' = m
    BY <1>2 DEF m
  <2>6. ASSUME NEW i \in DOMAIN run
        PROVE  m[i].by = run[i].by /\ (run[i].ended => m[i] = run[i])
    <3>1. CASE i < Len(run)
      BY <2>1, <2>4, <3>1
    <3>2. CASE i = Len(run)
      BY <2>2, <2>3, <3>2
    <3> QED
      BY <2>1, <2>4, <3>1, <3>2
  <2> QED
    BY <2>1, <2>4, <2>5, <2>6 DEF Grows
<1> QED
  BY <1>1, <1>2 DEF Bring

\* openManifest loses no session.
LEMMA OpenManifestGrows ==
    ASSUME IInv, NEW p \in Procs, OpenManifest(p)
    PROVE  Grows
<1>1. CASE run' = run
  BY <1>1, SameGrows DEF IInv
<1>2. CASE run' = Opened(p)
  <2> SUFFICES ASSUME run # None PROVE Grows
    BY DEF Grows
  <2>1. /\ Opened(p) \in Sessions
        /\ run \in Sessions /\ Len(run) \in Nat /\ Len(Opened(p)) = Len(run) + 1
        /\ \A i \in 1 .. Len(run) : Opened(p)[i] = run[i]
    BY OpenedFacts DEF IInv, OpenManifest
  <2>2. Opened(p) # None /\ DOMAIN run = 1 .. Len(run)
    BY <2>1, NoneAssumption, LenProperties DEF Sessions
  <2> QED
    BY <1>2, <2>1, <2>2 DEF Grows
<1> QED
  BY <1>1, <1>2 DEF OpenManifest, Save

\* No step of any invocation, crash or failed write drops a session from
\* run.json, gives it to another, or changes one that has ended.
THEOREM SessionsKept == Spec => SessionsOnlyGrow
<1>1. IInv /\ [Next]_vars => [Grows]_vars
  <2> SUFFICES ASSUME IInv, Next PROVE Grows
    BY DEF vars
  <2>1. PICK p \in Procs : Mkdir(p) \/ Stat(p) \/ Step(p) \/ Work(p) \/ Crash(p)
    BY DEF Next
  <2>2. CASE LockStep(p) \/ LoadPrior(p) \/ Work(p)
    <3>1. run' = run
      BY <2>2 DEF LockStep, Mkdir, Probe, ProbeClose, CreateLock, Stat, LockRunDir, Return, Close,
         Crash, LoadPrior, Work
    <3> QED
      BY <3>1, SameGrows DEF IInv
  <2>3. CASE KeepRequests(p)
    <3>1. pc[p] = "run" /\ Bring(p, FALSE)
      BY <2>3 DEF KeepRequests, Save, Bring
    <3> QED
      BY <3>1, BringGrows
  <2>4. CASE CloseSession(p)
    <3>1. pc[p] = "close" /\ Bring(p, TRUE)
      BY <2>4 DEF CloseSession, Save, Bring
    <3> QED
      BY <3>1, BringGrows
  <2>5. CASE OpenManifest(p)
    BY <2>5, OpenManifestGrows
  <2> QED
    BY <2>1, <2>2, <2>3, <2>4, <2>5 DEF Step, LockStep
<1> QED
  BY Invariant, <1>1, PTL DEF Spec, SessionsOnlyGrow, Grows
=============================================================================
