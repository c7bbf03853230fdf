------------------------------ MODULE RunLock ------------------------------
(***************************************************************************)
(* One run directory and the invocations of scheck that contend for it:    *)
(* the flock of rundir.go (CreateRunDir, LockRunDir, Close), the way a     *)
(* resume opens the directory (resume.go OpenRun, LoadPrior) and the       *)
(* sessions they record in run.json (openManifest, keepRequests,           *)
(* closeSession). Each member of Procs is one invocation; it may crash at  *)
(* any point, which releases the lock, and any write of run.json may fail. *)
(*                                                                         *)
(* Of run.json only the list of sessions is modelled: who, how much it is  *)
(* recorded to have sent, and whether it ended. Resume.tla has the rest.   *)
(***************************************************************************)
EXTENDS Integers, Sequences

CONSTANTS
    Procs,     \* invocations of scheck on this directory
    MaxSent,   \* bound: requests a session sends
    None

ASSUME ProcsAssumption == None \notin Procs
ASSUME MaxSentAssumption == MaxSent \in Nat

\* A session of run.json, and what run.json lists.
Records  == [by : Procs, sent : 0 .. MaxSent, ended : BOOLEAN]
Sessions == Seq(Records)

ASSUME NoneAssumption == None \notin Sessions

VARIABLES
    dir,    \* the directory exists
    lock,   \* who holds the flock, None when it is free
    run,    \* run.json's sessions, None while there is no run.json
    pc,
    mem,    \* each invocation's own copy of the sessions (run.manifest)
    sent    \* what each session really sent

vars == <<dir, lock, run, pc, mem, sent>>

Init ==
    /\ dir = FALSE
    /\ lock = None
    /\ run = None
    /\ pc = [p \in Procs |-> "idle"]
    /\ mem = [p \in Procs |-> <<>>]
    /\ sent = [p \in Procs |-> 0]

Goto(p, to) == pc' = [pc EXCEPT ![p] = to]

-----------------------------------------------------------------------------
(* A new run: CreateRunDir.                                                *)

\* os.Mkdir: the directory is new and its creator will wait for its lock, or
\* it exists and is probed, only to say which refusal it is.
Mkdir(p) ==
    /\ pc[p] = "idle"
    /\ dir' = TRUE
    /\ Goto(p, IF dir THEN "probe" ELSE "create")
    /\ UNCHANGED <<lock, run, mem, sent>>

\* LockRunDir without waiting: refused when it is locked.
Probe(p) ==
    /\ pc[p] = "probe"
    /\ IF lock = None
       THEN lock' = p /\ Goto(p, "probing")
       ELSE UNCHANGED lock /\ Goto(p, "refused")
    /\ UNCHANGED <<dir, run, mem, sent>>

\* The probe lets go: the directory already holds a run.
ProbeClose(p) ==
    /\ pc[p] = "probing"
    /\ lock' = None
    /\ Goto(p, "refused")
    /\ UNCHANGED <<dir, run, mem, sent>>

\* Mutant: the creator does not wait either.
CreateLockNoWait(p) ==
    /\ pc[p] = "create"
    /\ IF lock = None
       THEN lock' = p /\ Goto(p, "open")
       ELSE UNCHANGED lock /\ Goto(p, "refused")
    /\ UNCHANGED <<dir, run, mem, sent>>

\* lock with LOCK_EX: the creator waits for a probe rather than fail.
CreateLock(p) ==
    /\ pc[p] = "create"
    /\ lock = None
    /\ lock' = p
    /\ Goto(p, "open")
    /\ UNCHANGED <<dir, run, mem, sent>>

-----------------------------------------------------------------------------
(* A resume: OpenRun and LoadPrior.                                        *)

\* Mutant: run.json is not looked for before the lock is taken.
StatAny(p) ==
    /\ pc[p] = "idle"
    /\ dir
    /\ Goto(p, "lock")
    /\ UNCHANGED <<dir, lock, run, mem, sent>>

\* run.json is there, or it is not a run directory.
Stat(p) ==
    /\ pc[p] = "idle"
    /\ dir
    /\ Goto(p, IF run = None THEN "refused" ELSE "lock")
    /\ UNCHANGED <<dir, lock, run, mem, sent>>

\* Mutant: a lock others may share.
LockRunDirShared(p) ==
    /\ pc[p] = "lock"
    /\ lock' = p /\ Goto(p, "load")
    /\ UNCHANGED <<dir, run, mem, sent>>

LockRunDir(p) ==
    /\ pc[p] = "lock"
    /\ IF lock = None
       THEN lock' = p /\ Goto(p, "load")
       ELSE UNCHANGED lock /\ Goto(p, "refused")
    /\ UNCHANGED <<dir, run, mem, sent>>

\* LoadPrior reads run.json under the lock; LoadEngagement may refuse.
LoadPrior(p) ==
    /\ pc[p] = "load"
    /\ \/ mem' = [mem EXCEPT ![p] = run] /\ Goto(p, "open")
       \/ UNCHANGED mem /\ Goto(p, "unlock")
    /\ UNCHANGED <<dir, lock, run, sent>>

-----------------------------------------------------------------------------
(* The session.                                                            *)

Entry(p, n, ended) == [by |-> p, sent |-> n, ended |-> ended]

\* Mutant: a session marked as ended at every save.
UpdatedEnded(p, ended) == [mem[p] EXCEPT ![Len(mem[p])] = Entry(p, sent[p], TRUE)]

\* The session's own entry, the last, brought up to date.
Updated(p, ended) == [mem[p] EXCEPT ![Len(mem[p])] = Entry(p, sent[p], ended)]

\* saveManifest: run.json is replaced, or the write fails and it is as before.
Save(m, ok) == run' = IF ok THEN m ELSE run

\* openManifest: the session is on record before anything is sent.
Opened(p) == Append(mem[p], Entry(p, 0, FALSE))
OpenManifest(p) ==
    /\ pc[p] = "open"
    /\ mem' = [mem EXCEPT ![p] = Opened(p)]
    /\ \E ok \in BOOLEAN : Save(Opened(p), ok) /\ Goto(p, IF ok THEN "run" ELSE "unlock")
    /\ UNCHANGED <<dir, lock, sent>>

\* A stage sends.
Work(p) ==
    /\ pc[p] = "run"
    /\ sent[p] < MaxSent
    /\ sent' = [sent EXCEPT ![p] = @ + 1]
    /\ UNCHANGED <<dir, lock, run, pc, mem>>

\* keepRequests, after each stage: what was sent so far; a write that fails
\* ends the run.
KeepRequests(p) ==
    /\ pc[p] = "run"
    /\ mem' = [mem EXCEPT ![p] = Updated(p, FALSE)]
    /\ \E ok \in BOOLEAN : Save(Updated(p, FALSE), ok) /\ Goto(p, IF ok THEN "run" ELSE "close")
    /\ UNCHANGED <<dir, lock, sent>>

\* Run returns, with or without an error; closeSession is deferred.
Return(p) ==
    /\ pc[p] = "run"
    /\ Goto(p, "close")
    /\ UNCHANGED <<dir, lock, run, mem, sent>>

CloseSession(p) ==
    /\ pc[p] = "close"
    /\ mem' = [mem EXCEPT ![p] = Updated(p, TRUE)]
    /\ \E ok \in BOOLEAN : Save(Updated(p, TRUE), ok)
    /\ Goto(p, "unlock")
    /\ UNCHANGED <<dir, lock, sent>>

\* RunDir.Close.
Close(p) ==
    /\ pc[p] = "unlock"
    /\ lock' = None
    /\ Goto(p, "ended")
    /\ UNCHANGED <<dir, run, mem, sent>>

\* The process dies: the kernel releases its lock.
Crash(p) ==
    /\ pc[p] \notin {"idle", "refused", "ended", "dead"}
    /\ lock' = IF lock = p THEN None ELSE lock
    /\ Goto(p, "dead")
    /\ UNCHANGED <<dir, run, mem, sent>>

Step(p) ==
    \/ Probe(p) \/ ProbeClose(p) \/ CreateLock(p)
    \/ LockRunDir(p) \/ LoadPrior(p)
    \/ OpenManifest(p) \/ KeepRequests(p) \/ Return(p) \/ CloseSession(p) \/ Close(p)

Next == \E p \in Procs : Mkdir(p) \/ Stat(p) \/ Step(p) \/ Work(p) \/ Crash(p)

Spec == Init /\ [][Next]_vars

\* A process keeps running, and a run's stages come to an end: limits.timeout
\* or the bounds of every read. A session does not keep requests forever.
FairSpec ==
    /\ Spec
    /\ \A p \in Procs :
        /\ WF_vars(Probe(p) \/ ProbeClose(p) \/ CreateLock(p) \/ LockRunDir(p) \/ LoadPrior(p)
                    \/ OpenManifest(p) \/ CloseSession(p) \/ Close(p))
        /\ WF_vars(Return(p))

-----------------------------------------------------------------------------
(* Properties.                                                             *)

Holding == {"probing", "load", "open", "run", "close", "unlock"}
PCs == Holding \cup {"idle", "probe", "create", "lock", "refused", "ended", "dead"}

\* The type of the directory's state.
TypeOK ==
    /\ dir \in BOOLEAN
    /\ lock \in Procs \cup {None}
    /\ run \in Sessions \cup {None}
    /\ pc \in [Procs -> PCs]
    /\ mem \in [Procs -> Sessions]
    /\ sent \in [Procs -> 0 .. MaxSent]

\* The creator of a directory waits for its lock only behind a probe, never
\* behind a run: rundir.go, CreateRunDir: "only a probe can hold its lock, and
\* only for an instant". A resume cannot come first because OpenRun looks for
\* run.json before it takes the lock.
CreatorWaitsForProbe ==
    \A c \in Procs : (pc[c] = "create" /\ lock # None) => pc[lock] = "probing"

\* Everything a session sent is on record in run.json or its session is named
\* there as one that did not end (stages.go egress: "an earlier one that did
\* not end named as unrecorded"): no crash, failed write or later session
\* loses it.
SentOnRecord ==
    \A p \in Procs : sent[p] > 0 =>
        /\ run # None
        /\ \E i \in DOMAIN run : run[i].by = p /\ (run[i].ended => run[i].sent = sent[p])

\* run.json never loses a session: no session's save drops or reorders the
\* sessions of another (LoadPrior reads under the lock; a new run's directory
\* is its own).
SessionsOnlyGrow ==
    [][run # None =>
        /\ run' # None
        /\ Len(run') >= Len(run)
        /\ \A i \in DOMAIN run :
            /\ run'[i].by = run[i].by
            /\ run[i].ended => run'[i] = run[i]]_vars

\* The creator of a directory gets its lock, unless it dies: no refusal and no
\* run in the way, however many probes come first (CreateRunDir's last line).
CreatorLocks == \A p \in Procs : pc[p] = "create" ~> pc[p] \in {"open", "dead"}
=============================================================================
