---------------------------- MODULE ResumeProofs ----------------------------
(***************************************************************************)
(* Proofs about Resume.tla: for any number of sessions, crashes, failed    *)
(* writes and edits by hand, what a resume keeps of a host is whole and    *)
(* nothing it keeps is old; what it says of what it goes by is so.         *)
(***************************************************************************)
EXTENDS Resume, TLAPS

-----------------------------------------------------------------------------
(* The inductive invariant.                                                *)

\* The sessions up to the n-th.
Writers(n) == [id : 1 .. n, start : Times]

\* The files a manifest lists are as sessions wrote them: an envelope is dated
\* by its session, a record names an envelope of its own session and has its
\* status. A hash of an edited file never gets into a manifest, and between
\* the two writes of recordHost the old record still names its own envelope.
Whole(files, n) ==
    /\ files = [f \in Files |-> files[f]]
    /\ files["env"] # None =>
        /\ files["env"].by \in Writers(n)
        /\ files["env"].at = files["env"].by.start
    /\ files["record"] # None =>
        /\ files["record"].envelope.by = files["record"].by
        /\ files["record"].envelope.status = files["record"].status

Manifest(m, n) ==
    /\ m = [files |-> m.files, inputs |-> m.inputs, host |-> m.host]
    /\ Whole(m.files, n)

\* A Scope document a session wrote is dated by that session, also when later
\* sessions keep it and write it again.
Dated(doc) == (doc # None /\ doc.by # None) => doc.at = doc.by.start

Sound ==
    /\ id \in 0 .. MaxSessions /\ start \in Times
    /\ stage \in Stages
    /\ pc = "idle" => (prior = None /\ kept = Nothing)
    /\ pc # "idle" => id >= 1
    /\ kept = [scope |-> kept.scope, host |-> kept.host]

Manifests ==
    /\ Manifest(mem, id)
    /\ run # None => Manifest(run, id)
    /\ prior # None => Whole(prior.run.files, id - 1)

\* The write in progress.
Writing ==
    /\ pc \in {"write", "save"} =>
        /\ buf.file \in Files
        /\ buf.then \in {"keep", "record", "requests", "out", "next"}
        /\ buf.then = "record" => buf.file = "env"
        /\ buf.file = "env" => (buf.doc.by = Me /\ buf.doc.at = start)
        /\ buf.file = "record" =>
            /\ buf.doc.envelope.by = buf.doc.by
            /\ buf.doc.envelope.status = buf.doc.status
        /\ buf.file = "scope" => Dated(buf.doc)
    /\ pc = "save" => mem.files[buf.file] = buf.doc
    /\ pc = "record" => mem.files["env"].by = Me

ScopesDated ==
    /\ disk = [f \in Files |-> disk[f]]
    /\ Dated(disk["scope"]) /\ Dated(scoped)
    /\ prior # None => Dated(prior.scope)

IInv == Sound /\ Manifests /\ Writing /\ ScopesDated /\ HostKeptWhole /\ NothingOldKept

-----------------------------------------------------------------------------
(* Facts about parts of the invariant.                                     *)

\* What later sessions may add to leaves a manifest of earlier ones whole.
LEMMA WholeMonotonic ==
    ASSUME NEW files, NEW m \in Nat, NEW n \in Nat, m <= n, Whole(files, m)
    PROVE  Whole(files, n)
<1>1. Writers(m) \subseteq Writers(n)
  BY DEF Writers
<1> QED
  BY <1>1 DEF Whole

\* What a session kept stays sound while the session and its inputs are the same.
LEMMA KeptSame ==
    ASSUME HostKeptWhole, NothingOldKept, UNCHANGED <<kept, id, start, config>>
    PROVE  HostKeptWhole' /\ NothingOldKept'
BY DEF HostKeptWhole, NothingOldKept, KeptFrom, HostInputs

\* A process that keeps nothing keeps nothing unsound.
LEMMA KeptNothing ==
    ASSUME kept' = Nothing
    PROVE  HostKeptWhole' /\ NothingOldKept'
BY DEF HostKeptWhole, NothingOldKept, Nothing

\* The process of a session names it as one of the sessions so far.
LEMMA MeWrites ==
    ASSUME Sound, pc # "idle"
    PROVE  Me \in Writers(id) /\ Me.start = start
BY ConstantsAssumption DEF Sound, Me, Writers, Times, Ids

\* A run directory starts out empty and no session is under way.
LEMMA InitIInv == Init => IInv
<1> SUFFICES ASSUME Init PROVE IInv
  OBVIOUS
<1>1. Sound
  BY ConstantsAssumption DEF Init, Sound, Times, Stages, Nothing
<1>2. Manifests
  BY DEF Init, Manifests, Manifest, Whole, Empty, NoFiles, Files
<1>3. Writing /\ ScopesDated
  BY DEF Init, Writing, ScopesDated, Dated, NoFiles, Files
<1>4. HostKeptWhole /\ NothingOldKept
  BY DEF Init, HostKeptWhole, NothingOldKept, Nothing
<1> QED
  BY <1>1, <1>2, <1>3, <1>4 DEF IInv

-----------------------------------------------------------------------------
(* Every step keeps the invariant.                                         *)

\* A process that ends, having saved its manifest or not: closeSession, a
\* failed openManifest, a crash.
LEMMA ExitIInv ==
    ASSUME IInv, Exit, UNCHANGED <<disk, id>>, run' = run \/ run' = mem
    PROVE  IInv'
<1>1. Sound'
  BY ConstantsAssumption DEF IInv, Sound, Exit, Times, Stages, Nothing
<1>2. Whole(NoFiles, id)
  BY DEF Whole, NoFiles, Files
<1>3. Manifests'
  <2>1. Manifest(mem, id)'
    BY <1>2 DEF Exit, Manifest, Empty
  <2>2. run' # None => Manifest(run, id)'
    BY DEF IInv, Manifests, Manifest, Whole, Writers
  <2> QED
    BY <2>1, <2>2 DEF Manifests, Exit
<1>4. Writing' /\ ScopesDated'
  BY DEF IInv, Writing, ScopesDated, Dated, Exit
<1>5. HostKeptWhole' /\ NothingOldKept'
  BY KeptNothing DEF Exit
<1> QED
  BY <1>1, <1>3, <1>4, <1>5 DEF IInv

\* A step that goes on to another place of the session and writes nothing.
LEMMA QuietIInv ==
    ASSUME IInv, pc # "idle", pc' \notin {"idle", "write", "save", "record"}, stage' \in Stages,
           UNCHANGED <<disk, run, mem, id, config, start, prior, scoped, kept>>
    PROVE  IInv'
<1>1. Sound' /\ Manifests' /\ Writing' /\ ScopesDated'
  BY DEF IInv, Sound, Manifests, Manifest, Whole, Writers, Writing, ScopesDated, Dated
<1>2. HostKeptWhole' /\ NothingOldKept'
  BY KeptSame DEF IInv
<1> QED
  BY <1>1, <1>2 DEF IInv

\* A step that begins a write: every document a session writes is its own, a
\* record's envelope included, and a Scope document is written as it is dated.
LEMMA WriteIInv ==
    ASSUME IInv, pc # "idle",
           NEW file \in Files, NEW STATE doc, NEW then \in {"keep", "record", "requests", "out", "next"},
           Write(file, doc, then),
           then = "record" => file = "env",
           file = "env" => (doc.by = Me /\ doc.at = start),
           file = "record" => (doc.envelope.by = doc.by /\ doc.envelope.status = doc.status),
           file = "scope" => Dated(doc),
           run' = run \/ run' = mem,
           Manifest(mem', id), Dated(scoped'),
           UNCHANGED <<disk, id, config, start, prior, stage, kept>>
    PROVE  IInv'
<1>1. Sound'
  BY DEF IInv, Sound, Write
<1>2. Manifests'
  BY DEF IInv, Manifests, Manifest, Whole, Writers
<1>3. ScopesDated'
  BY DEF IInv, ScopesDated, Dated
<1>4. Writing'
  <2>1. buf' = [file |-> file, doc |-> doc, then |-> then] /\ pc' = "write" /\ Me' = Me
    BY DEF Write, Me
  <2> QED
    BY <2>1 DEF Writing, Dated
<1>5. HostKeptWhole' /\ NothingOldKept'
  BY KeptSame DEF IInv
<1> QED
  BY <1>1, <1>2, <1>3, <1>4, <1>5 DEF IInv

\* RunDir.Write puts the document in place and its hash in the manifest: the
\* record of an earlier session stays with the envelope it names.
LEMMA WriteFileIInv ==
    ASSUME IInv, WriteFile
    PROVE  IInv'
<1>1. /\ pc = "write" /\ pc' \in {"save", "close"}
      /\ UNCHANGED <<run, id, config, start, prior, stage, buf, scoped, kept>>
  BY DEF WriteFile, sessVars
<1>2. Sound'
  BY <1>1 DEF IInv, Sound
<1>3. CASE pc' = "close" /\ UNCHANGED <<disk, mem>>
  BY <1>1, <1>3, QuietIInv DEF IInv, Sound
<1>4. CASE /\ pc' = "save"
           /\ disk' = [disk EXCEPT ![buf.file] = buf.doc]
           /\ mem' = [mem EXCEPT !.files[buf.file] = buf.doc]
  <2>1. /\ buf.file \in Files
        /\ buf.file = "env" => (buf.doc.by \in Writers(id) /\ buf.doc.at = buf.doc.by.start)
    BY <1>1, MeWrites DEF IInv, Writing
  <2>2. Manifest(mem, id)'
    <3>1. mem.files = [f \in Files |-> mem.files[f]]
      BY DEF IInv, Manifests, Manifest, Whole
    <3>2. /\ mem' = [files |-> mem'.files, inputs |-> mem'.inputs, host |-> mem'.host]
          /\ mem'.files = [f \in Files |-> IF f = buf.file THEN buf.doc ELSE mem.files[f]]
      BY <1>4, <2>1, <3>1 DEF IInv, Manifests, Manifest
    <3>3. Whole(mem'.files, id)
      BY <1>1, <2>1, <3>2 DEF IInv, Manifests, Manifest, Whole, Writing, Files
    <3> QED
      BY <1>1, <3>2, <3>3 DEF Manifest, Whole, Writers
  <2>3. Manifests'
    BY <1>1, <2>2 DEF IInv, Manifests, Manifest, Whole, Writers
  <2>4. mem'.files[buf.file] = buf.doc
    BY <1>4, <2>1 DEF IInv, Manifests, Manifest, Whole
  <2>5. Writing'
    BY <1>1, <1>4, <2>4 DEF IInv, Writing, Me, Dated
  <2>6. ScopesDated'
    <3>1. disk' = [f \in Files |-> IF f = buf.file THEN buf.doc ELSE disk[f]]
      BY <1>4, <2>1 DEF IInv, ScopesDated
    <3>2. Dated(disk'["scope"])
      BY <1>1, <3>1 DEF IInv, ScopesDated, Writing, Files
    <3> QED
      BY <1>1, <3>1, <3>2 DEF IInv, ScopesDated, Dated
  <2>7. HostKeptWhole' /\ NothingOldKept'
    BY <1>1, KeptSame DEF IInv
  <2> QED
    BY <1>2, <2>3, <2>5, <2>6, <2>7 DEF IInv
<1> QED
  BY <1>3, <1>4 DEF WriteFile

\* saveManifest: recordHost goes on to its second write only with its own
\* envelope in the manifest.
LEMMA SaveFileIInv ==
    ASSUME IInv, SaveFile
    PROVE  IInv'
<1>1. /\ pc = "save" /\ pc' \in {buf.then, "close"}
      /\ run' = mem \/ run' = run
      /\ UNCHANGED <<disk, id, config, start, prior, mem, stage, scoped, kept>>
  BY DEF SaveFile, sessVars, histVars
<1>2. pc' \notin {"idle", "write", "save"} /\ (pc' = "record" => mem.files["env"].by = Me)
  BY <1>1 DEF IInv, Writing
<1>3. Sound' /\ Manifests' /\ ScopesDated'
  BY <1>1, <1>2 DEF IInv, Sound, Manifests, Manifest, Whole, Writers, ScopesDated, Dated
<1>4. Writing'
  BY <1>1, <1>2 DEF IInv, Writing, Me
<1>5. HostKeptWhole' /\ NothingOldKept'
  BY <1>1, KeptSame DEF IInv
<1> QED
  BY <1>3, <1>4, <1>5 DEF IInv

\* A new session loads what the sessions before it saved.
LEMMA StartIInv ==
    ASSUME IInv, Start
    PROVE  IInv'
<1>1. PICK c \in Loadable, t \in Times :
        /\ pc = "idle" /\ id < MaxSessions
        /\ id' = id + 1 /\ config' = c /\ start' = t
        /\ prior' = IF run = None THEN None ELSE Loaded
        /\ mem' = IF run = None THEN [Empty EXCEPT !.host = c \in HostConfigs] ELSE run
        /\ pc' = "open"
        /\ UNCHANGED <<disk, run, stage, scoped, kept>>
  BY DEF Start, dirVars, histVars
<1>2. id \in Nat /\ id' \in Nat /\ id <= id' /\ id' - 1 = id
  BY <1>1, ConstantsAssumption DEF IInv, Sound
<1>3. Sound'
  BY <1>1, ConstantsAssumption DEF IInv, Sound
<1>4. run # None => Manifest(run, id')
  BY <1>2, WholeMonotonic DEF IInv, Manifests, Manifest
<1>5. run = None => Manifest(mem', id')
  <2>1. Whole(NoFiles, id')
    BY DEF Whole, NoFiles, Files
  <2> SUFFICES ASSUME run = None PROVE Manifest(mem', id')
    OBVIOUS
  <2>2. mem' = [Empty EXCEPT !.host = c \in HostConfigs]
    BY <1>1, Zenon
  <2>3. mem'.files = NoFiles /\ mem' = [files |-> mem'.files, inputs |-> mem'.inputs, host |-> mem'.host]
    BY <2>2 DEF Empty
  <2> QED
    BY <2>1, <2>3 DEF Manifest
<1>6. prior' # None => (prior'.run = run /\ prior'.scope = disk["scope"] /\ run # None)
  BY <1>1 DEF Loaded
<1>7. Manifests'
  <2>1. Manifest(mem', id') /\ (run' # None => Manifest(run', id'))
    BY <1>1, <1>4, <1>5
  <2>2. prior' # None => Whole(prior'.run.files, id' - 1)
    BY <1>2, <1>6 DEF IInv, Manifests, Manifest
  <2> QED
    BY <2>1, <2>2 DEF Manifests, Manifest, Whole, Writers
<1>8. Writing' /\ ScopesDated'
  BY <1>1, <1>6 DEF IInv, Writing, ScopesDated, Dated
<1>9. HostKeptWhole' /\ NothingOldKept'
  BY <1>1, KeptNothing DEF IInv, Sound
<1> QED
  BY <1>3, <1>7, <1>8, <1>9 DEF IInv

\* Scope's document is kept only fresh.
LEMMA KeepScopeIInv ==
    ASSUME IInv, KeepScope
    PROVE  IInv'
<1>1. /\ pc = "scope" /\ pc' = "keep" /\ MayKeepScope
      /\ kept' = [kept EXCEPT !.scope = prior.scope] /\ scoped' = prior.scope
      /\ UNCHANGED <<disk, run, mem, id, config, start, prior, stage>>
  BY DEF KeepScope, sessVars, dirVars
<1>2. prior # None /\ prior.scope # None /\ Fresh(prior.scope.at) /\ Dated(prior.scope)
  BY <1>1 DEF IInv, ScopesDated, MayKeepScope
<1>3. kept' = [scope |-> prior.scope, host |-> kept.host]
  BY <1>1 DEF IInv, Sound
<1>4. Sound' /\ Manifests' /\ Writing' /\ ScopesDated'
  BY <1>1, <1>2, <1>3 DEF IInv, Sound, Manifests, Manifest, Whole, Writers, Writing, ScopesDated, Dated
<1>5. HostKeptWhole'
  BY <1>1, <1>3 DEF IInv, HostKeptWhole, HostInputs
<1>6. NothingOldKept'
  BY <1>1, <1>2, <1>3 DEF IInv, NothingOldKept, KeptFrom, Fresh, Dated
<1> QED
  BY <1>4, <1>5, <1>6 DEF IInv

\* keptHost: the record in the directory is the one run.json lists, so its
\* envelope is of its own session; that is the envelope in the directory.
LEMMA KeepHostIInv ==
    ASSUME IInv, KeepHost
    PROVE  IInv'
<1> DEFINE env == disk["env"]
           rec == disk["record"]
<1>1. /\ pc = "recon" /\ pc' = "requests" /\ MayKeepHost
      /\ kept' = [kept EXCEPT !.host = [env |-> env, rec |-> rec]]
      /\ UNCHANGED <<disk, run, mem, id, config, start, prior, stage, scoped>>
  BY DEF KeepHost, sessVars, dirVars, workVars
<1>2. kept' = [scope |-> kept.scope, host |-> [env |-> env, rec |-> rec]]
  BY <1>1 DEF IInv, Sound
<1>3. /\ prior # None /\ env # None /\ rec # None /\ HostInputs # None
      /\ prior.run.files["record"] = rec /\ prior.run.files["env"] = env
      /\ rec.envelope = env /\ rec.fp = HostInputs /\ rec.status = "collected" /\ Fresh(env.at)
  BY <1>1 DEF MayKeepHost
<1>4. /\ env.by \in Writers(id - 1) /\ env.at = env.by.start
      /\ rec.by = env.by /\ env.status = "collected"
  BY <1>3 DEF IInv, Manifests, Whole
<1>5. env.by # None /\ env.by.id < id
  <2>1. id \in 0 .. MaxSessions /\ MaxSessions \in Nat
    BY ConstantsAssumption DEF IInv, Sound
  <2>2. Writers(id - 1) \subseteq [id : Ids, start : Times]
    BY <2>1 DEF Writers, Ids
  <2> QED
    BY <1>4, <2>1, <2>2, ConstantsAssumption DEF Writers
<1>6. Sound' /\ Manifests' /\ Writing' /\ ScopesDated'
  BY <1>1, <1>2 DEF IInv, Sound, Manifests, Manifest, Whole, Writers, Writing, ScopesDated, Dated
<1>7. HostKeptWhole'
  BY <1>1, <1>2, <1>3, <1>4, <1>5 DEF HostKeptWhole, HostInputs
<1>8. NothingOldKept'
  BY <1>1, <1>2, <1>3, <1>4 DEF IInv, NothingOldKept, KeptFrom, Fresh
<1> QED
  BY <1>6, <1>7, <1>8 DEF IInv

\* An edit by hand changes no manifest, and a Scope document written by hand is
\* no session's.
LEMMA EditIInv ==
    ASSUME IInv, Edit
    PROVE  IInv'
<1>1. PICK f \in Files \ {"out"}, at \in Times, fp \in {HostFp[c] : c \in Configs} :
        /\ disk' = [disk EXCEPT ![f] = EditedDoc(f, at, fp)]
        /\ UNCHANGED <<run, pc, id, config, start, prior, mem, stage, buf, scoped, kept>>
  BY DEF Edit, sessVars, workVars
<1>2. Sound' /\ Manifests' /\ Writing'
  BY <1>1 DEF IInv, Sound, Manifests, Manifest, Whole, Writers, Writing, Me, Dated
<1>3. Dated(EditedDoc("scope", at, fp))
  BY DEF EditedDoc, Dated
<1>4. disk' = [g \in Files |-> IF g = f THEN EditedDoc(f, at, fp) ELSE disk[g]]
  BY <1>1 DEF IInv, ScopesDated
<1>5. Dated(disk'["scope"])
  BY <1>3, <1>4 DEF IInv, ScopesDated, Files
<1>6. ScopesDated'
  BY <1>1, <1>4, <1>5 DEF IInv, ScopesDated, Dated
<1>7. HostKeptWhole' /\ NothingOldKept'
  BY <1>1, KeptSame DEF IInv
<1> QED
  BY <1>2, <1>6, <1>7 DEF IInv

\* openManifest saves what the session loaded.
LEMMA OpenManifestIInv ==
    ASSUME IInv, OpenManifest
    PROVE  IInv'
<1>1. CASE Exit /\ UNCHANGED run
  BY <1>1, ExitIInv DEF OpenManifest
<1>2. CASE pc' = "intake" /\ run' = mem /\ UNCHANGED <<config, start, prior, workVars, tainted, kept>>
  <2>1. pc = "open" /\ UNCHANGED <<disk, id, config, start, prior, mem, stage, buf, scoped, kept>>
    BY <1>2 DEF OpenManifest, workVars
  <2>2. Sound' /\ Manifests' /\ Writing' /\ ScopesDated'
    BY <1>2, <2>1 DEF IInv, Sound, Manifests, Manifest, Whole, Writers, Writing, ScopesDated, Dated
  <2>3. HostKeptWhole' /\ NothingOldKept'
    BY <2>1, KeptSame DEF IInv
  <2> QED
    BY <2>2, <2>3 DEF IInv
<1> QED
  BY <1>1, <1>2 DEF OpenManifest

\* Scope runs: its document is dated by this session.
LEMMA RunScopeIInv ==
    ASSUME IInv, RunScope
    PROVE  IInv'
<1>1. /\ pc = "scope" /\ mem' = [mem EXCEPT !.inputs = ScopeInputs]
      /\ UNCHANGED <<disk, run, id, config, start, prior, stage, kept>>
  BY DEF RunScope, dirVars, sessVars, histVars
<1>2. Manifest(mem', id)
  BY <1>1 DEF IInv, Manifests, Manifest
<1>3. ASSUME NEW complete \in BOOLEAN, NEW STATE doc,
             doc = [by |-> Me, fp |-> ScopeInputs, complete |-> complete, at |-> start],
             scoped' = doc, Write("scope", doc, "keep")
      PROVE  IInv'
  <2>1. Dated(doc)
    BY <1>3 DEF Dated, Me
  <2> QED
    BY <1>1, <1>2, <1>3, <2>1, WriteIInv DEF Files
<1>4. CASE pc' = "close" /\ UNCHANGED <<scoped, buf>>
  <2>1. Sound' /\ Writing' /\ ScopesDated'
    BY <1>1, <1>4 DEF IInv, Sound, Writing, ScopesDated, Dated
  <2>2. Manifests'
    BY <1>1, <1>2 DEF IInv, Manifests, Manifest, Whole, Writers
  <2>3. HostKeptWhole' /\ NothingOldKept'
    BY <1>1, KeptSame DEF IInv
  <2> QED
    BY <2>1, <2>2, <2>3 DEF IInv
<1> QED
  BY <1>3, <1>4 DEF RunScope

\* The writes that follow the manifest as the session has it.
LEMMA StageWritesIInv ==
    ASSUME IInv, Intake \/ Collect \/ RecordHost \/ RewriteScope \/ WriteOut
    PROVE  IInv'
<1>1. /\ pc # "idle"
      /\ UNCHANGED <<disk, run, id, config, start, prior, mem, stage, scoped, kept>>
  BY DEF Intake, Collect, RecordHost, RewriteScope, WriteOut, dirVars, sessVars, histVars
<1>2. Manifest(mem', id) /\ Dated(scoped')
  BY <1>1 DEF IInv, Manifests, ScopesDated
<1>3. CASE Intake
  <2>1. Write("engagement", config, "keep")
    BY <1>3 DEF Intake
  <2> QED
    BY <1>1, <1>2, <2>1, WriteIInv DEF Files
<1>4. CASE Collect
  <2>1. PICK status \in {"collected", "incomplete"} :
            Write("env", [by |-> Me, at |-> start, status |-> status], "record")
    BY <1>4 DEF Collect
  <2>2. Write("env", [by |-> Me, at |-> start, status |-> status], "record")
    BY <2>1
  <2> QED
    BY <1>1, <1>2, <2>2, WriteIInv DEF Files
<1>5. CASE RecordHost
  <2> DEFINE doc == [by |-> Me, fp |-> HostInputs, status |-> mem.files["env"].status,
                     envelope |-> mem.files["env"]]
  <2>1. pc = "record" /\ Write("record", doc, "requests")
    BY <1>5 DEF RecordHost
  <2>2. doc.envelope.by = doc.by /\ doc.envelope.status = doc.status
    BY <2>1 DEF IInv, Writing
  <2> HIDE DEF doc
  <2> QED
    BY <1>1, <1>2, <2>1, <2>2, WriteIInv DEF Files
<1>6. CASE RewriteScope
  <2>1. Write("scope", scoped, "out")
    BY <1>6 DEF RewriteScope
  <2>2. Dated(scoped)
    BY DEF IInv, ScopesDated
  <2> QED
    BY <1>1, <1>2, <2>1, <2>2, WriteIInv DEF Files
<1>7. CASE WriteOut
  <2>1. Write("out", "document", "keep")
    BY <1>7 DEF WriteOut
  <2> QED
    BY <1>1, <1>2, <2>1, WriteIInv DEF Files
<1> QED
  BY <1>3, <1>4, <1>5, <1>6, <1>7

\* keepRequests saves the manifest and may go on to write a request.
LEMMA KeepRequestsIInv ==
    ASSUME IInv, KeepRequests
    PROVE  IInv'
<1>1. /\ pc = "keep"
      /\ run' = run \/ run' = mem
      /\ UNCHANGED <<disk, id, config, start, prior, mem, stage, scoped, kept>>
  BY DEF KeepRequests, sessVars, histVars
<1>2. Manifest(mem', id) /\ Dated(scoped')
  BY <1>1 DEF IInv, Manifests, ScopesDated
<1>3. CASE Write("request", success, "next")
  BY <1>1, <1>2, <1>3, WriteIInv DEF Files
<1>4. CASE pc' \in {"next", "close"}
  <2>1. Sound' /\ Manifests' /\ Writing' /\ ScopesDated'
    BY <1>1, <1>4 DEF IInv, Sound, Manifests, Manifest, Whole, Writers, Writing, ScopesDated, Dated
  <2>2. HostKeptWhole' /\ NothingOldKept'
    BY <1>1, KeptSame DEF IInv
  <2> QED
    BY <2>1, <2>2 DEF IInv
<1> QED
  BY <1>3, <1>4 DEF KeepRequests

\* The steps that only go on: a host that cannot be collected, the reads, the
\* next stage, the end of the stages.
LEMMA GoOnIInv ==
    ASSUME IInv, HostFails \/ Requests \/ NextStage \/ Done
    PROVE  IInv'
<1>1. /\ pc # "idle"
      /\ UNCHANGED <<disk, run, mem, id, config, start, prior, scoped, kept>>
  BY DEF HostFails, Requests, NextStage, Done, dirVars, sessVars, workVars, histVars
<1>2. stage' \in Stages /\ pc' \notin {"idle", "write", "save", "record"}
  BY DEF HostFails, Requests, NextStage, Done, workVars, IInv, Sound, Stages
<1> QED
  BY <1>1, <1>2, QuietIInv

\* A refused resume changes nothing the invariant is about.
LEMMA RefuseIInv ==
    ASSUME IInv, UNCHANGED <<dirVars, pc, sessVars, workVars, kept>>
    PROVE  IInv'
<1>1. Sound' /\ Manifests' /\ Writing' /\ ScopesDated'
  BY DEF IInv, dirVars, sessVars, workVars, Sound, Manifests, Manifest, Whole, Writers, Writing, Me,
     ScopesDated, Dated
<1>2. HostKeptWhole' /\ NothingOldKept'
  BY KeptSame DEF IInv, sessVars
<1> QED
  BY <1>1, <1>2 DEF IInv

\* Every step keeps the invariant.
LEMMA NextIInv == IInv /\ [Next]_vars => IInv'
<1> SUFFICES ASSUME IInv, [Next]_vars PROVE IInv'
  OBVIOUS
<1>1. CASE UNCHANGED vars \/ Refuse
  BY <1>1, RefuseIInv DEF vars, histVars, Refuse
<1>2. CASE Start \/ Edit
  BY <1>2, StartIInv, EditIInv
<1>3. CASE CloseSession \/ Crash
  BY <1>3, ExitIInv DEF CloseSession, Crash, dirVars
<1>4. CASE Session
  BY <1>3, <1>4, WriteFileIInv, SaveFileIInv, OpenManifestIInv, StageWritesIInv, KeepScopeIInv,
     RunScopeIInv, KeepHostIInv, GoOnIInv, KeepRequestsIInv DEF Session
<1> QED
  BY <1>1, <1>2, <1>3, <1>4 DEF Next

-----------------------------------------------------------------------------
(* What follows.                                                           *)

\* The inductive invariant holds throughout.
THEOREM Invariant == Spec => []IInv
BY InitIInv, NextIInv, PTL DEF Spec

\* keptHost keeps one earlier session's complete collection under this
\* session's inputs or nothing, wherever sessions were cut, whatever writes
\* failed and whatever was edited.
THEOREM KeptHostIsWhole == Spec => []HostKeptWhole
<1>1. IInv => HostKeptWhole
  BY DEF IInv
<1> QED
  BY Invariant, <1>1, PTL

\* Nothing older than the maximum is kept: keeping a document does not make it
\* younger.
THEOREM KeptIsFresh == Spec => []NothingOldKept
<1>1. IInv => NothingOldKept
  BY DEF IInv
<1> QED
  BY Invariant, <1>1, PTL

-----------------------------------------------------------------------------
(* Documents have the types of their files.                                *)

\* The documents in the places that are not files: what a session loaded, what
\* it is about to write, and the envelope its record will name.
Typed ==
    /\ pc # "idle" => config \in Configs
    /\ prior # None => prior.scope \in ScopeDocs \cup {None}
    /\ pc = "record" => mem.files["env"] \in EnvDocs
    /\ pc \in {"write", "save"} =>
        /\ buf.file = "engagement" => buf.doc \in Configs
        /\ buf.file = "scope" => buf.doc \in ScopeDocs \cup {None}
        /\ buf.file = "env" => buf.doc \in EnvDocs
        /\ buf.file = "record" => buf.doc \in RecordDocs
        /\ buf.file = "request" => buf.doc \in RequestDocs /\ buf.doc.by # None
        /\ buf.file = "out" => buf.doc = "document"
    /\ success # None => success.by # None

TypesHold == TypeOK /\ Typed

\* A document of its file's type leaves the files as they are typed.
LEMMA StoredPut ==
    ASSUME NEW files, Stored(files), NEW f \in Files, NEW doc,
           f = "engagement" => doc \in Configs \cup {"edited"},
           f = "scope" => doc \in ScopeDocs \cup {None},
           f = "env" => doc \in EnvDocs,
           f = "record" => doc \in RecordDocs,
           f = "request" => doc \in RequestDocs,
           f = "out" => doc = "document"
    PROVE  Stored([files EXCEPT ![f] = doc])
<1> DEFINE new == [files EXCEPT ![f] = doc]
<1>1. DOMAIN new = Files /\ \A g \in Files : new[g] = IF g = f THEN doc ELSE files[g]
  BY DEF Stored
<1> HIDE DEF new
<1>2. /\ new["engagement"] \in Configs \cup {"edited", None}
      /\ new["scope"] \in ScopeDocs \cup {None}
      /\ new["env"] \in EnvDocs \cup {None}
      /\ new["record"] \in RecordDocs \cup {None}
      /\ new["request"] \in RequestDocs \cup {None}
      /\ new["out"] \in {"document", None}
  BY <1>1 DEF Stored, Files
<1> QED
  BY <1>1, <1>2 DEF Stored, new

\* A failure is counted, and there are only MaxFaults of them.
LEMMA Counted ==
    ASSUME TypeOK, NEW ok \in Outcomes, Count(ok)
    PROVE  faults' \in 0 .. MaxFaults
<1>1. faults < MaxFaults \/ ok = TRUE
  BY DEF Outcomes
<1>2. faults' = faults \/ (faults' = faults + 1 /\ ok # TRUE)
  BY Zenon DEF Count
<1>3. faults' = faults \/ (faults < MaxFaults /\ faults' = faults + 1)
  BY <1>1, <1>2, Zenon
<1>4. faults \in 0 .. MaxFaults /\ MaxFaults \in Nat
  BY ConstantsAssumption DEF TypeOK
<1> QED
  BY <1>3, <1>4

\* The session under way names itself as an author.
LEMMA MeIsAuthor ==
    ASSUME Sound, TypeOK, pc # "idle"
    PROVE  Me \in Authors /\ Me # None
<1>1. id \in 1 .. MaxSessions /\ start \in Times
  BY ConstantsAssumption DEF Sound
<1>2. Me \in [id : Ids, start : Times]
  BY <1>1 DEF Me, Ids
<1> QED
  BY <1>2, ConstantsAssumption DEF Authors

\* A process that ends, its manifest saved or not, holds nothing.
LEMMA ExitTypes ==
    ASSUME TypesHold, Exit, UNCHANGED <<disk, id, dirty, refused, edits>>, run' = run \/ run' = mem,
           faults' \in 0 .. MaxFaults
    PROVE  TypesHold'
<1>1. Stored(NoFiles)
  BY DEF Stored, NoFiles, Files
<1>2. Stored(disk') /\ (run' # None => Stored(run'.files)) /\ Stored(mem'.files)
  BY <1>1 DEF TypesHold, TypeOK, Exit, Empty
<1>3. pc' = "idle" /\ start' = 0 /\ stage' = "intake" /\ scoped' = None /\ success' = None
      /\ edited' = {} /\ tainted' = {} /\ reused' = FALSE
  BY DEF Exit
<1>4. pc' \in PCs /\ start' \in Times /\ stage' \in Stages /\ id' \in 0 .. MaxSessions
      /\ scoped' \in ScopeDocs \cup {None} /\ success' \in RequestDocs \cup {None}
      /\ edited' \subseteq Files /\ tainted' \subseteq Files /\ dirty' \subseteq Files
  BY <1>3, ConstantsAssumption DEF TypesHold, TypeOK, PCs, Stages, Times
<1>6. reused' \in BOOLEAN /\ refused' \in BOOLEAN /\ edits' \in 0 .. MaxEdits
  BY <1>3 DEF TypesHold, TypeOK
<1>7. TypeOK'
  BY <1>2, <1>4, <1>6 DEF TypeOK
<1>5. Typed'
  BY DEF Exit, Typed
<1> QED
  BY <1>7, <1>5 DEF TypesHold

\* A step that goes on, writes nothing and reads nothing new.
LEMMA QuietTypes ==
    ASSUME TypesHold, pc # "idle", pc' \in PCs \ {"write", "save", "record", "idle"}, stage' \in Stages,
           UNCHANGED <<disk, id, config, start, prior, dirty, refused, edits>>,
           run' = run \/ run' = mem, mem'.files = mem.files,
           faults' \in 0 .. MaxFaults, scoped' \in ScopeDocs \cup {None},
           success' \in RequestDocs \cup {None}, success' # None => success'.by # None,
           edited' \subseteq Files, tainted' \subseteq Files, reused' \in BOOLEAN
    PROVE  TypesHold'
<1>1. TypeOK'
  BY DEF TypesHold, TypeOK
<1>2. Typed'
  BY DEF TypesHold, Typed
<1> QED
  BY <1>1, <1>2 DEF TypesHold

\* A step that begins a write of a document of its file's type.
LEMMA WriteTypes ==
    ASSUME TypesHold, pc # "idle", NEW file \in Files, NEW STATE doc, NEW then \in {"keep", "record", "requests", "out", "next"},
           Write(file, doc, then),
           file = "engagement" => doc \in Configs,
           file = "scope" => doc \in ScopeDocs \cup {None},
           file = "env" => doc \in EnvDocs,
           file = "record" => doc \in RecordDocs,
           file = "request" => doc \in RequestDocs /\ doc.by # None,
           file = "out" => doc = "document",
           UNCHANGED <<disk, id, config, start, prior, stage, success, reused, dirty, tainted, refused, edits>>,
           run' = run \/ run' = mem, mem'.files = mem.files,
           faults' \in 0 .. MaxFaults, scoped' \in ScopeDocs \cup {None}, edited' \subseteq Files
    PROVE  TypesHold'
<1>1. buf' = [file |-> file, doc |-> doc, then |-> then] /\ pc' = "write"
  BY DEF Write
<1>2. TypeOK'
  BY <1>1 DEF TypesHold, TypeOK, PCs
<1>3. buf'.file = file /\ buf'.doc = doc
  BY <1>1
<1>4. Typed'
  BY <1>1, <1>3 DEF TypesHold, Typed
<1> QED
  BY <1>2, <1>4 DEF TypesHold

\* The two halves of a write put a document of its type in place and on record.
LEMMA WriteFileTypes ==
    ASSUME IInv, TypesHold, WriteFile
    PROVE  TypesHold'
<1>1. PICK ok \in Outcomes :
        /\ Count(ok)
        /\ pc' = IF ok THEN "save" ELSE "close"
        /\ disk' = IF ok THEN [disk EXCEPT ![buf.file] = buf.doc] ELSE disk
        /\ mem' = IF ok THEN [mem EXCEPT !.files[buf.file] = buf.doc] ELSE mem
        /\ dirty' = IF ok THEN dirty \ {buf.file} ELSE dirty
  BY DEF WriteFile
<1>2. /\ pc = "write"
      /\ UNCHANGED <<run, id, config, start, prior, stage, buf, scoped, edited, success, reused, edits,
                     tainted, refused>>
  BY DEF WriteFile, sessVars
<1>3. faults' \in 0 .. MaxFaults
  BY <1>1, Counted DEF TypesHold
<1>4. buf.file \in Files
  BY <1>2 DEF IInv, Writing
<1>5. Stored([disk EXCEPT ![buf.file] = buf.doc]) /\ Stored([mem.files EXCEPT ![buf.file] = buf.doc])
  BY <1>2, <1>4, StoredPut DEF TypesHold, TypeOK, Typed
<1>6. ok => mem'.files = [mem.files EXCEPT ![buf.file] = buf.doc]
  BY <1>1 DEF IInv, Manifests, Manifest
<1>7. Stored(disk') /\ Stored(mem'.files)
  BY <1>1, <1>5, <1>6 DEF TypesHold, TypeOK
<1>8. TypeOK'
  BY <1>1, <1>2, <1>3, <1>7 DEF TypesHold, TypeOK, PCs
<1>9. Typed'
  BY <1>1, <1>2 DEF TypesHold, Typed
<1> QED
  BY <1>8, <1>9 DEF TypesHold

LEMMA SaveFileTypes ==
    ASSUME IInv, TypesHold, SaveFile
    PROVE  TypesHold'
<1>1. PICK ok \in Outcomes :
        /\ Count(ok) /\ pc' = (IF ok THEN buf.then ELSE "close") /\ run' = (IF ok THEN mem ELSE run)
  BY DEF SaveFile
<1>2. /\ pc = "save"
      /\ UNCHANGED <<disk, id, config, start, prior, mem, stage, scoped, edited, success, reused, edits,
                     dirty, tainted, refused>>
  BY DEF SaveFile, sessVars, histVars
<1>3. faults' \in 0 .. MaxFaults
  BY <1>1, Counted DEF TypesHold
<1>4. /\ buf.then \in {"keep", "record", "requests", "out", "next"}
      /\ buf.then = "record" => buf.file = "env" /\ mem.files["env"] = buf.doc
  BY <1>2 DEF IInv, Writing
<1>5. pc' = "record" => mem.files["env"] \in EnvDocs
  BY <1>1, <1>2, <1>4 DEF TypesHold, Typed
<1>6. TypeOK'
  BY <1>1, <1>2, <1>3, <1>4 DEF TypesHold, TypeOK, PCs
<1>7. Typed'
  BY <1>1, <1>2, <1>4, <1>5 DEF TypesHold, Typed
<1> QED
  BY <1>6, <1>7 DEF TypesHold

\* A session loads documents of their types, and an edit leaves such.
LEMMA StartTypes ==
    ASSUME IInv, TypesHold, Start
    PROVE  TypesHold'
<1>1. PICK c \in Loadable, t \in Times :
        /\ pc = "idle" /\ id < MaxSessions
        /\ id' = id + 1 /\ config' = c /\ start' = t
        /\ prior' = IF run = None THEN None ELSE Loaded
        /\ mem' = IF run = None THEN [Empty EXCEPT !.host = c \in HostConfigs] ELSE run
        /\ pc' = "open"
        /\ UNCHANGED <<disk, run, stage, scoped, edited, success, reused, faults, edits,
                       dirty, tainted, refused>>
  BY DEF Start, dirVars, histVars
<1>2. c \in Configs
  BY <1>1 DEF Loadable
<1>3. id' \in 0 .. MaxSessions
  BY <1>1, ConstantsAssumption DEF TypesHold, TypeOK
<1>4. Stored(NoFiles)
  BY DEF Stored, NoFiles, Files
<1>5. Stored(mem'.files)
  <2>1. CASE run # None
    BY <1>1, <2>1 DEF TypesHold, TypeOK
  <2>2. CASE run = None
    <3>1. mem' = [Empty EXCEPT !.host = c \in HostConfigs]
      BY <1>1, <2>2, Zenon
    <3>2. mem'.files = NoFiles
      BY <3>1 DEF Empty
    <3> QED
      BY <1>4, <3>2
  <2> QED
    BY <2>1, <2>2
<1>6. prior' # None => prior'.scope = disk["scope"]
  BY <1>1 DEF Loaded
<1>7. TypeOK'
  BY <1>1, <1>3, <1>5 DEF TypesHold, TypeOK, PCs
<1>8. Typed'
  BY <1>1, <1>2, <1>6 DEF TypesHold, Typed, TypeOK, Stored
<1> QED
  BY <1>7, <1>8 DEF TypesHold

LEMMA EditTypes ==
    ASSUME IInv, TypesHold, Edit
    PROVE  TypesHold'
<1>1. PICK f \in Files \ {"out"}, at \in Times, fp \in {HostFp[c] : c \in Configs} :
        /\ pc = "idle" /\ edits < MaxEdits /\ edits' = edits + 1
        /\ disk' = [disk EXCEPT ![f] = EditedDoc(f, at, fp)]
        /\ dirty' = IF f = "scope" /\ EditedDoc(f, at, fp) \in adopted THEN dirty \ {f} ELSE dirty \cup {f}
        /\ UNCHANGED <<run, pc, id, config, start, prior, mem, stage, buf, scoped, edited, success, reused,
                       faults, tainted, refused>>
  BY DEF Edit, sessVars, workVars
<1>2. edits' \in 0 .. MaxEdits
  BY <1>1, ConstantsAssumption DEF TypesHold, TypeOK
<1> DEFINE doc == EditedDoc(f, at, fp)
<1>3. /\ f = "engagement" => doc = "edited"
      /\ f = "scope" => doc \in ScopeDocs
      /\ f = "env" => doc \in EnvDocs
      /\ f = "record" => doc \in RecordDocs
      /\ f = "request" => doc \in RequestDocs
  BY <1>1 DEF TypesHold, TypeOK, Stored, EditedDoc, ScopeDocs, EnvDocs, RecordDocs, RequestDocs, Authors
<1> HIDE DEF doc
<1>4. Stored([disk EXCEPT ![f] = doc])
  BY <1>1, <1>3, StoredPut DEF TypesHold, TypeOK
<1>5. Stored(disk') /\ dirty' \subseteq Files
  BY <1>1, <1>4 DEF TypesHold, TypeOK, doc
<1>6. TypeOK'
  BY <1>1, <1>2, <1>5 DEF TypesHold, TypeOK
<1>7. Typed'
  BY <1>1 DEF TypesHold, Typed
<1> QED
  BY <1>6, <1>7 DEF TypesHold

\* The writes of the stages.
LEMMA StageWritesTypes ==
    ASSUME IInv, TypesHold, Intake \/ Collect \/ RecordHost \/ RewriteScope \/ WriteOut
    PROVE  TypesHold'
<1>1. /\ pc # "idle"
      /\ UNCHANGED <<disk, run, id, config, start, prior, mem, stage, scoped, edited, success, reused,
                     faults, edits, dirty, tainted, refused>>
  BY DEF Intake, Collect, RecordHost, RewriteScope, WriteOut, dirVars, sessVars, histVars
<1>2. /\ config \in Configs /\ scoped \in ScopeDocs \cup {None}
      /\ faults' \in 0 .. MaxFaults /\ scoped' \in ScopeDocs \cup {None} /\ edited' \subseteq Files
  BY <1>1 DEF TypesHold, TypeOK, Typed
<1>3. Me \in Authors /\ start \in Times
  BY <1>1, MeIsAuthor DEF IInv, TypesHold, Sound
<1>4. CASE Intake
  <2>1. Write("engagement", config, "keep")
    BY <1>4 DEF Intake
  <2> QED
    BY <1>1, <1>2, <2>1, WriteTypes DEF Files
<1>5. CASE Collect
  <2>1. PICK status \in {"collected", "incomplete"} :
            Write("env", [by |-> Me, at |-> start, status |-> status], "record")
    BY <1>5 DEF Collect
  <2> DEFINE doc == [by |-> Me, at |-> start, status |-> status]
  <2>2. doc \in EnvDocs
    BY <1>3 DEF EnvDocs
  <2>3. Write("env", doc, "record")
    BY <2>1
  <2> HIDE DEF doc
  <2> QED
    BY <1>1, <1>2, <2>2, <2>3, WriteTypes DEF Files
<1>6. CASE RecordHost
  <2> DEFINE doc == [by |-> Me, fp |-> HostInputs, status |-> mem.files["env"].status,
                     envelope |-> mem.files["env"]]
  <2>1. pc = "record" /\ Write("record", doc, "requests")
    BY <1>6 DEF RecordHost
  <2>2. mem.files["env"] \in EnvDocs
    BY <2>1 DEF TypesHold, Typed
  <2>3. mem.files["env"].status \in {"collected", "incomplete"}
    BY <2>2 DEF EnvDocs
  <2>4. HostInputs \in {HostFp[c] : c \in Configs}
    BY <1>2 DEF HostInputs
  <2>5. doc \in RecordDocs
    BY <1>3, <2>2, <2>3, <2>4 DEF RecordDocs
  <2> HIDE DEF doc
  <2> QED
    BY <1>1, <1>2, <2>1, <2>5, WriteTypes DEF Files
<1>7. CASE RewriteScope
  <2>1. Write("scope", scoped, "out")
    BY <1>7 DEF RewriteScope
  <2> QED
    BY <1>1, <1>2, <2>1, WriteTypes DEF Files
<1>8. CASE WriteOut
  <2>1. Write("out", "document", "keep")
    BY <1>8 DEF WriteOut
  <2> QED
    BY <1>1, <1>2, <2>1, WriteTypes DEF Files
<1> QED
  BY <1>4, <1>5, <1>6, <1>7, <1>8

\* Scope runs or its document is kept: either has the type.
LEMMA ScopeTypes ==
    ASSUME IInv, TypesHold, KeepScope \/ RunScope
    PROVE  TypesHold'
<1>1. /\ pc = "scope"
      /\ UNCHANGED <<disk, run, id, config, start, prior, stage, success, reused, edits, dirty, refused>>
  BY DEF KeepScope, RunScope, dirVars, sessVars, histVars
<1>2. config \in Configs /\ Me \in Authors /\ start \in Times
  BY <1>1, MeIsAuthor DEF IInv, TypesHold, Typed, TypeOK
<1>3. CASE KeepScope
  <2>1. /\ pc' = "keep" /\ UNCHANGED <<mem, faults>>
        /\ prior # None /\ scoped' = prior.scope
        /\ edited' = edited \cup Used("scope") /\ tainted' = tainted \cup (dirty \cap {"scope"})
    BY <1>3 DEF KeepScope, MayKeepScope
  <2>2. prior.scope \in ScopeDocs \cup {None}
    BY <2>1 DEF TypesHold, Typed
  <2>3. edited' \subseteq Files /\ tainted' \subseteq Files
    BY <2>1 DEF TypesHold, TypeOK, Used, Files
  <2>4. /\ pc' \in PCs \ {"write", "save", "record", "idle"} /\ stage' \in Stages
        /\ faults' \in 0 .. MaxFaults /\ reused' \in BOOLEAN
        /\ success' \in RequestDocs \cup {None} /\ (success' # None => success'.by # None)
    BY <1>1, <2>1 DEF TypesHold, TypeOK, Typed, PCs
  <2> QED
    BY <1>1, <2>1, <2>2, <2>3, <2>4, QuietTypes
<1>4. CASE RunScope
  <2>1. PICK ok \in Outcomes, complete \in BOOLEAN :
          /\ Count(ok)
          /\ IF ok
             THEN LET doc == [by |-> Me, fp |-> ScopeInputs, complete |-> complete, at |-> start]
                  IN scoped' = doc /\ Write("scope", doc, "keep")
             ELSE complete /\ pc' = "close" /\ UNCHANGED <<scoped, buf>>
    BY <1>4 DEF RunScope
  <2>2. /\ mem' = [mem EXCEPT !.inputs = ScopeInputs]
        /\ UNCHANGED <<edited, tainted>>
    BY <1>4 DEF RunScope, histVars
  <2>3. mem'.files = mem.files
    BY <2>2 DEF IInv, Manifests, Manifest
  <2>4. faults' \in 0 .. MaxFaults
    BY <2>1, Counted DEF TypesHold
  <2> DEFINE doc == [by |-> Me, fp |-> ScopeInputs, complete |-> complete, at |-> start]
  <2>5. doc \in ScopeDocs
    BY <1>2 DEF ScopeDocs, ScopeInputs
  <2>6. (scoped' = doc /\ Write("scope", doc, "keep")) \/ (pc' = "close" /\ scoped' = scoped)
    BY <2>1, Zenon
  <2> HIDE DEF doc
  <2>7. CASE scoped' = doc /\ Write("scope", doc, "keep")
    BY <1>1, <2>2, <2>3, <2>4, <2>5, <2>7, WriteTypes DEF Files, TypesHold, TypeOK
  <2>8. CASE pc' = "close" /\ scoped' = scoped
    BY <1>1, <2>2, <2>3, <2>4, <2>8, QuietTypes DEF TypesHold, TypeOK, Typed, PCs
  <2> QED
    BY <2>6, <2>7, <2>8
<1> QED
  BY <1>3, <1>4

\* keepRequests writes the successes it found.
LEMMA KeepRequestsTypes ==
    ASSUME IInv, TypesHold, KeepRequests
    PROVE  TypesHold'
<1>1. PICK ok \in Outcomes :
        /\ Count(ok)
        /\ run' = (IF ok THEN mem ELSE run)
        /\ edited' = (IF ok /\ reused THEN edited \cup Used("request") ELSE edited)
        /\ IF ok /\ success # None
           THEN Write("request", success, "next")
           ELSE pc' = (IF ok THEN "next" ELSE "close") /\ UNCHANGED buf
  BY DEF KeepRequests
<1>2. /\ pc = "keep"
      /\ UNCHANGED <<disk, id, config, start, prior, mem, stage, scoped, success, reused, edits,
                     dirty, tainted, refused>>
  BY DEF KeepRequests, sessVars, histVars
<1>3. faults' \in 0 .. MaxFaults
  BY <1>1, Counted DEF TypesHold
<1>4. edited' \subseteq Files /\ (run' = run \/ run' = mem)
  BY <1>1 DEF TypesHold, TypeOK, Used, Files
<1>5. (success # None /\ Write("request", success, "next")) \/ pc' \in {"next", "close"}
  BY <1>1, Zenon
<1>6. CASE success # None /\ Write("request", success, "next")
  BY <1>2, <1>3, <1>4, <1>6, WriteTypes DEF Files, TypesHold, TypeOK, Typed
<1>7. CASE pc' \in {"next", "close"}
  BY <1>2, <1>3, <1>4, <1>7, QuietTypes DEF TypesHold, TypeOK, Typed, PCs
<1> QED
  BY <1>5, <1>6, <1>7

\* The steps that only go on.
LEMMA GoOnTypes ==
    ASSUME IInv, TypesHold, KeepHost \/ HostFails \/ Requests \/ NextStage \/ Done
    PROVE  TypesHold'
<1>1. /\ pc # "idle"
      /\ UNCHANGED <<disk, run, mem, id, config, start, prior, scoped, edited, dirty, refused, edits>>
  BY DEF KeepHost, HostFails, Requests, NextStage, Done, dirVars, sessVars, workVars, histVars
<1>2. stage' \in Stages /\ pc' \in PCs \ {"write", "save", "record", "idle"}
  BY DEF KeepHost, HostFails, Requests, NextStage, Done, workVars, TypesHold, TypeOK, Stages, PCs
<1>3. faults' \in 0 .. MaxFaults
  <2>1. CASE HostFails
    BY <2>1, Counted DEF HostFails, TypesHold
  <2>2. CASE KeepHost \/ Requests \/ NextStage \/ Done
    BY <2>2 DEF KeepHost, Requests, NextStage, Done, TypesHold, TypeOK
  <2> QED
    BY <2>1, <2>2
<1>4. /\ success' = success \/ success' = [by |-> Me, at |-> start]
      /\ reused' = reused \/ reused' = TRUE
      /\ tainted' = tainted \/ tainted' = tainted \cup (dirty \cap {"request"})
  BY DEF KeepHost, HostFails, Requests, NextStage, Done, workVars, histVars
<1>5. Me \in Authors /\ Me # None /\ start \in Times
  BY <1>1, MeIsAuthor DEF IInv, TypesHold, TypeOK
<1>6. success' \in RequestDocs \cup {None} /\ (success' # None => success'.by # None)
  BY <1>4, <1>5 DEF TypesHold, TypeOK, Typed, RequestDocs
<1>7. reused' \in BOOLEAN /\ tainted' \subseteq Files /\ scoped' \in ScopeDocs \cup {None} /\ edited' \subseteq Files
  BY <1>1, <1>4 DEF TypesHold, TypeOK, Files
<1> QED
  BY <1>1, <1>2, <1>3, <1>6, <1>7, QuietTypes

\* A refused resume, and a step that changes nothing.
LEMMA IdleTypes ==
    ASSUME TypesHold, refused' \in BOOLEAN,
           UNCHANGED <<dirVars, pc, sessVars, workVars, faults, edits, dirty, tainted>>
    PROVE  TypesHold'
<1>1. TypeOK'
  BY DEF TypesHold, TypeOK, dirVars, sessVars, workVars
<1>2. Typed'
  BY DEF TypesHold, Typed, dirVars, sessVars, workVars
<1> QED
  BY <1>1, <1>2 DEF TypesHold

\* Every step leaves documents of their types.
LEMMA TypesNext == IInv /\ TypesHold /\ [Next]_vars => TypesHold'
<1> SUFFICES ASSUME IInv, TypesHold, [Next]_vars PROVE TypesHold'
  OBVIOUS
<1>1. CASE UNCHANGED vars \/ Refuse
  BY <1>1, IdleTypes DEF vars, histVars, Refuse, TypesHold, TypeOK
<1>2. CASE Start \/ Edit
  BY <1>2, StartTypes, EditTypes
<1>3. CASE CloseSession
  <2>1. PICK ok \in Outcomes : Count(ok) /\ run' = IF ok THEN mem ELSE run
    BY <1>3 DEF CloseSession
  <2>2. faults' \in 0 .. MaxFaults /\ (run' = run \/ run' = mem)
    BY <2>1, Counted DEF TypesHold
  <2> QED
    BY <1>3, <2>2, ExitTypes DEF CloseSession
<1>4. CASE Crash
  <2>1. faults' \in 0 .. MaxFaults
    BY <1>4, ConstantsAssumption DEF Crash, TypesHold, TypeOK
  <2> QED
    BY <1>4, <2>1, ExitTypes DEF Crash, dirVars
<1>5. CASE OpenManifest
  <2>1. faults' \in 0 .. MaxFaults
    BY <1>5, Counted DEF OpenManifest, TypesHold
  <2>2. CASE Exit /\ UNCHANGED run
    BY <1>5, <2>1, <2>2, ExitTypes DEF OpenManifest
  <2>3. CASE pc' = "intake" /\ run' = mem /\ UNCHANGED <<config, start, prior, workVars, tainted, kept>>
    <3>1. pc = "open" /\ UNCHANGED <<disk, id, edits, dirty, refused>>
      BY <1>5 DEF OpenManifest
    <3> QED
      BY <2>1, <2>3, <3>1, QuietTypes DEF TypesHold, TypeOK, Typed, PCs, workVars
  <2> QED
    BY <1>5, <2>2, <2>3 DEF OpenManifest
<1>6. CASE Session
  BY <1>3, <1>5, <1>6, WriteFileTypes, SaveFileTypes, StageWritesTypes, ScopeTypes, KeepRequestsTypes,
     GoOnTypes DEF Session
<1> QED
  BY <1>1, <1>2, <1>3, <1>4, <1>6 DEF Next

-----------------------------------------------------------------------------
(* Every edited file that a session used is named.                         *)

\* A Scope document of no session is in a manifest only if a session wrote it
\* again, and a session's requests are its own.
Listed(files) ==
    /\ files["scope"] # None /\ files["scope"].by = None => files["scope"] \in adopted
    /\ files["request"] # None => files["request"].by # None

\* What is dirty is there, is of no session, and no manifest lists it.
Known ==
    /\ Listed(mem.files)
    /\ run # None => Listed(run.files)
    /\ prior # None => Listed(prior.run.files)
    /\ "scope" \in dirty => disk["scope"] # None /\ disk["scope"].by = None /\ disk["scope"] \notin adopted
    /\ "request" \in dirty => disk["request"] # None /\ disk["request"].by = None

\* An edited request that was used is not named yet: recon still goes on, and
\* the next keepRequests will name it.
Pending ==
    /\ stage = "recon" /\ reused /\ prior # None /\ Edited(prior.run, "request")
    /\ pc \in {"rewrite", "out", "write", "save", "keep", "close"}
    /\ pc \in {"write", "save"} => buf.file # "request" /\ buf.then \in {"out", "keep"}

Named ==
    /\ tainted \subseteq {"scope", "request"}
    /\ "scope" \in tainted => "scope" \in edited
    /\ "request" \in tainted => "request" \in edited \/ Pending

\* The manifests as they were, saved or not, know what they knew.
LEMMA KnownSame ==
    ASSUME Known, UNCHANGED <<disk, dirty, adopted>>, run' = run \/ run' = mem,
           mem'.files = mem.files \/ mem'.files = NoFiles, prior' = prior \/ prior' = None
    PROVE  Known'
<1>1. Listed(NoFiles)'
  BY DEF Listed, NoFiles, Files
<1>2. ASSUME NEW files, Listed(files) PROVE Listed(files)'
  BY <1>2 DEF Listed
<1>3. Listed(mem.files)' /\ (run' # None => Listed(run.files)') /\ (prior' # None => Listed(prior.run.files)')
  BY <1>1, <1>2 DEF Known, Listed
<1> QED
  BY <1>3 DEF Known

\* A write adopts the Scope document it puts in place.
LEMMA WriteFileKnown ==
    ASSUME IInv, TypesHold, Known, WriteFile
    PROVE  Known'
<1>1. /\ pc = "write" /\ buf.file \in Files
      /\ UNCHANGED <<run, prior>>
  BY DEF WriteFile, sessVars, IInv, Writing
<1>2. CASE UNCHANGED <<disk, mem, dirty, adopted>>
  BY <1>1, <1>2, KnownSame
<1>3. CASE /\ disk' = [disk EXCEPT ![buf.file] = buf.doc]
           /\ mem' = [mem EXCEPT !.files[buf.file] = buf.doc]
           /\ dirty' = dirty \ {buf.file}
           /\ adopted' = IF buf.file = "scope" /\ buf.doc # None /\ buf.doc.by = None
                         THEN adopted \cup {buf.doc} ELSE adopted
  <2>1. \A g \in Files : disk'[g] = IF g = buf.file THEN buf.doc ELSE disk[g]
    BY <1>1, <1>3 DEF TypesHold, TypeOK, Stored
  <2>2. \A g \in Files : mem'.files[g] = IF g = buf.file THEN buf.doc ELSE mem.files[g]
    BY <1>1, <1>3 DEF IInv, Manifests, Manifest, Whole
  <2>3. adopted \subseteq adopted'
    BY <1>3
  <2>4. ASSUME NEW files, Listed(files) PROVE Listed(files)'
    BY <2>3, <2>4 DEF Listed
  <2>5. Listed(mem.files)'
    <3>1. mem'.files["scope"] # None /\ mem'.files["scope"].by = None => mem'.files["scope"] \in adopted'
      BY <1>3, <2>2, <2>3 DEF Known, Listed, Files
    <3>2. mem'.files["request"] # None => mem'.files["request"].by # None
      BY <1>1, <2>2 DEF Known, Listed, Files, TypesHold, Typed
    <3> QED
      BY <3>1, <3>2 DEF Listed
  <2>6. (run' # None => Listed(run.files)') /\ (prior' # None => Listed(prior.run.files)')
    BY <1>1, <2>4 DEF Known, Listed
  <2>7. "scope" \in dirty' => disk'["scope"] # None /\ disk'["scope"].by = None /\ disk'["scope"] \notin adopted'
    BY <1>3, <2>1 DEF Known, Files
  <2>8. "request" \in dirty' => disk'["request"] # None /\ disk'["request"].by = None
    BY <1>3, <2>1 DEF Known, Files
  <2> QED
    BY <2>5, <2>6, <2>7, <2>8 DEF Known
<1> QED
  BY <1>2, <1>3 DEF WriteFile

\* A session loads what run.json lists.
LEMMA StartKnown ==
    ASSUME Known, Start
    PROVE  Known'
<1>1. PICK c \in Loadable :
        /\ prior' = IF run = None THEN None ELSE Loaded
        /\ mem' = IF run = None THEN [Empty EXCEPT !.host = c \in HostConfigs] ELSE run
        /\ UNCHANGED <<disk, run, dirty, adopted>>
  BY DEF Start, dirVars, histVars
<1>2. ASSUME NEW files, Listed(files) PROVE Listed(files)'
  BY <1>1, <1>2 DEF Listed
<1>3. Listed(NoFiles)'
  BY DEF Listed, NoFiles, Files
<1>4. CASE run = None
  <2>1. mem' = [Empty EXCEPT !.host = c \in HostConfigs] /\ prior' = None
    BY <1>1, <1>4, Zenon
  <2>2. mem'.files = NoFiles
    BY <2>1 DEF Empty
  <2> QED
    BY <1>1, <1>3, <1>4, <2>1, <2>2 DEF Known, Listed
<1>5. CASE run # None
  <2>1. mem' = run /\ run' = run /\ prior'.run = run
    BY <1>1, <1>5 DEF Loaded
  <2>2. Listed(run.files)'
    BY <1>2, <1>5, <2>1 DEF Known, Listed
  <2> QED
    BY <1>1, <2>1, <2>2 DEF Known, Listed
<1> QED
  BY <1>4, <1>5

\* An edit is of no session, and into what a session adopted it is no edit.
LEMMA EditKnown ==
    ASSUME TypesHold, Known, Edit
    PROVE  Known'
<1>1. PICK f \in Files \ {"out"}, at \in Times, fp \in {HostFp[c] : c \in Configs} :
        /\ disk' = [disk EXCEPT ![f] = EditedDoc(f, at, fp)]
        /\ dirty' = IF f = "scope" /\ EditedDoc(f, at, fp) \in adopted THEN dirty \ {f} ELSE dirty \cup {f}
        /\ UNCHANGED <<run, prior, mem, adopted>>
  BY DEF Edit, sessVars, workVars
<1> DEFINE doc == EditedDoc(f, at, fp)
<1>2. /\ f = "scope" => doc \in ScopeDocs /\ doc.by = None
      /\ f = "request" => doc \in RequestDocs /\ doc.by = None
  BY <1>1 DEF EditedDoc, ScopeDocs, RequestDocs, Authors
<1>3. /\ disk' = [disk EXCEPT ![f] = doc]
      /\ dirty' = IF f = "scope" /\ doc \in adopted THEN dirty \ {f} ELSE dirty \cup {f}
  BY <1>1
<1> HIDE DEF doc
<1>4. \A g \in Files : disk'[g] = IF g = f THEN doc ELSE disk[g]
  BY <1>3 DEF TypesHold, TypeOK, Stored
<1>5. "scope" \in dirty' => disk'["scope"] # None /\ disk'["scope"].by = None /\ disk'["scope"] \notin adopted'
  BY <1>1, <1>2, <1>3, <1>4, NoneAssumption DEF Known, Files
<1>6. "request" \in dirty' => disk'["request"] # None /\ disk'["request"].by = None
  BY <1>1, <1>2, <1>3, <1>4, NoneAssumption DEF Known, Files
<1>7. Listed(mem.files)' /\ (run' # None => Listed(run.files)') /\ (prior' # None => Listed(prior.run.files)')
  BY <1>1 DEF Known, Listed
<1> QED
  BY <1>5, <1>6, <1>7 DEF Known

\* Every step leaves the manifests without what is dirty.
LEMMA KnownNext == IInv /\ TypesHold /\ Known /\ [Next]_vars => Known'
<1> SUFFICES ASSUME IInv, TypesHold, Known, [Next]_vars PROVE Known'
  OBVIOUS
<1>1. CASE UNCHANGED vars \/ Refuse
  BY <1>1, KnownSame DEF vars, dirVars, sessVars, workVars, histVars, Refuse
<1>2. CASE Start \/ Edit
  BY <1>2, StartKnown, EditKnown
<1>3. CASE CloseSession \/ Crash \/ OpenManifest
  <2>1. UNCHANGED <<disk, dirty, adopted>> /\ (run' = run \/ run' = mem)
    BY <1>3 DEF CloseSession, Crash, OpenManifest, dirVars
  <2>2. Exit \/ UNCHANGED <<mem, prior>>
    BY <1>3 DEF CloseSession, Crash, OpenManifest, workVars
  <2>3. (mem'.files = mem.files \/ mem'.files = NoFiles) /\ (prior' = prior \/ prior' = None)
    BY <2>2 DEF Exit, Empty
  <2> QED
    BY <2>1, <2>3, KnownSame
<1>4. CASE RunScope
  <2>1. mem' = [mem EXCEPT !.inputs = ScopeInputs] /\ UNCHANGED <<disk, dirty, adopted, run, prior>>
    BY <1>4 DEF RunScope, dirVars, sessVars, histVars
  <2>2. mem'.files = mem.files
    BY <2>1 DEF IInv, Manifests, Manifest
  <2> QED
    BY <2>1, <2>2, KnownSame
<1>5. CASE \/ SaveFile \/ Intake \/ KeepScope \/ KeepHost \/ HostFails \/ Collect \/ RecordHost
           \/ Requests \/ RewriteScope \/ WriteOut \/ KeepRequests \/ NextStage \/ Done
  <2>1. UNCHANGED <<disk, dirty, adopted, mem, prior>> /\ (run' = run \/ run' = mem)
    BY <1>5 DEF SaveFile, Intake, KeepScope, KeepHost, HostFails, Collect, RecordHost, Requests,
       RewriteScope, WriteOut, KeepRequests, NextStage, Done, dirVars, sessVars, workVars, histVars
  <2> QED
    BY <2>1, KnownSame
<1> QED
  BY <1>1, <1>2, <1>3, <1>4, <1>5, WriteFileKnown DEF Next, Session

\* What was used by the session that ends, or before one begins, is nothing.
LEMMA NothingNamed ==
    ASSUME tainted' = {}
    PROVE  Named'
BY DEF Named

\* A step that leaves what was used and named, and where a pending one stays so.
LEMMA NamedSame ==
    ASSUME Named, tainted' = tainted, edited \subseteq edited', Pending => Pending' \/ "request" \in edited'
    PROVE  Named'
BY DEF Named

\* A step within recon that leaves the request where it is.
LEMMA PendingSame ==
    ASSUME Pending, UNCHANGED <<stage, reused, prior>>, disk'["request"] = disk["request"],
           pc' \in {"rewrite", "out", "write", "save", "keep", "close"},
           pc' \in {"write", "save"} => buf'.file # "request" /\ buf'.then \in {"out", "keep"}
    PROVE  Pending'
BY DEF Pending, Edited

\* Scope's document, if it is edited, is named as it is kept.
LEMMA KeepScopeNamed ==
    ASSUME IInv, Known, Named, KeepScope
    PROVE  Named'
<1>1. /\ pc = "scope" /\ prior # None
      /\ edited' = edited \cup Used("scope")
      /\ tainted' = tainted \cup (dirty \cap {"scope"})
  BY DEF KeepScope, MayKeepScope
<1>2. "scope" \in dirty => Edited(prior.run, "scope")
  BY <1>1 DEF Known, Listed, Edited
<1>3. "scope" \in dirty => "scope" \in edited'
  BY <1>1, <1>2 DEF Used
<1>4. ~Pending
  BY <1>1 DEF Pending
<1> QED
  BY <1>1, <1>3, <1>4 DEF Named

\* A request of an earlier session that answers and is edited is pending: no
\* manifest lists it.
LEMMA RequestsNamed ==
    ASSUME IInv, Known, Named, stage = "recon", Requests
    PROVE  Named'
<1>1. /\ pc = "requests" /\ pc' = "rewrite"
      /\ UNCHANGED <<disk, stage, prior, edited>>
  BY DEF Requests, dirVars, sessVars
<1>2. ~Pending
  BY <1>1 DEF Pending
<1>3. CASE MayReuse /\ reused' = TRUE /\ tainted' = tainted \cup (dirty \cap {"request"})
  <2>1. "request" \in dirty => Edited(prior.run, "request")
    BY <1>3 DEF Known, Listed, Edited, MayReuse
  <2>2. "request" \in dirty => Pending'
    BY <1>1, <1>3, <2>1 DEF Pending, Edited, MayReuse
  <2> QED
    BY <1>1, <1>2, <1>3, <2>2 DEF Named
<1>4. CASE tainted' = tainted
  BY <1>1, <1>2, <1>4, NamedSame
<1> QED
  BY <1>3, <1>4 DEF Requests

\* keepRequests names it.
LEMMA KeepRequestsNamed ==
    ASSUME Named, KeepRequests
    PROVE  Named'
<1>1. PICK ok \in Outcomes :
        /\ edited' = (IF ok /\ reused THEN edited \cup Used("request") ELSE edited)
        /\ ~ok => pc' = "close"
  BY DEF KeepRequests
<1>2. pc = "keep" /\ UNCHANGED <<disk, prior, stage, reused, tainted>>
  BY DEF KeepRequests, sessVars, histVars
<1>3. CASE ok
  <2>1. Pending => "request" \in edited'
    BY <1>1, <1>3 DEF Pending, Used
  <2> QED
    BY <1>1, <1>2, <1>3, <2>1, NamedSame
<1>4. CASE ~ok
  <2>1. pc' = "close" /\ edited' = edited
    BY <1>1, <1>4
  <2>2. Pending => Pending'
    BY <1>2, <2>1, PendingSame
  <2> QED
    BY <1>2, <2>1, <2>2, NamedSame
<1> QED
  BY <1>3, <1>4

\* Every step keeps what was used named or pending.
LEMMA NamedNext ==
    IInv /\ TypesHold /\ Known /\ Named /\ (pc = "requests" => stage = "recon") /\ [Next]_vars => Named'
<1> SUFFICES ASSUME IInv, TypesHold, Known, Named, pc = "requests" => stage = "recon", [Next]_vars
             PROVE  Named'
  OBVIOUS
<1>1. CASE UNCHANGED vars \/ Refuse
  <2>1. UNCHANGED <<tainted, edited, stage, reused, prior, disk, pc, buf>>
    BY <1>1 DEF vars, dirVars, sessVars, workVars, histVars, Refuse
  <2>2. Pending => Pending'
    BY <2>1, PendingSame DEF Pending
  <2> QED
    BY <2>1, <2>2, NamedSame
<1>2. CASE CloseSession \/ Crash \/ (OpenManifest /\ Exit)
  BY <1>2, NothingNamed DEF CloseSession, Crash, Exit
<1>3. CASE Start \/ Edit \/ (OpenManifest /\ ~Exit) \/ Intake \/ RunScope \/ KeepHost \/ HostFails
        \/ Collect \/ RecordHost \/ NextStage \/ Done
  <2>1. tainted' = tainted /\ edited' = edited
    BY <1>3 DEF Start, Edit, OpenManifest, Intake, RunScope, KeepHost, HostFails, Collect, RecordHost,
       NextStage, Done, workVars, histVars
  <2>2. pc \in {"idle", "open", "intake", "scope", "recon", "record", "next"}
    BY <1>3 DEF Start, Edit, OpenManifest, Intake, RunScope, KeepHost, HostFails, Collect, RecordHost,
       NextStage, Done
  <2>3. ~Pending
    BY <2>2 DEF Pending
  <2> QED
    BY <2>1, <2>3, NamedSame
<1>4. CASE RewriteScope
  <2>1. /\ buf' = [file |-> "scope", doc |-> scoped, then |-> "out"] /\ pc' = "write"
        /\ UNCHANGED <<tainted, edited, stage, reused, prior, disk>>
    BY <1>4 DEF RewriteScope, Write, dirVars, sessVars, histVars
  <2>2. Pending => Pending'
    BY <2>1, PendingSame
  <2> QED
    BY <2>1, <2>2, NamedSame
<1>5. CASE WriteOut
  <2>1. /\ buf' = [file |-> "out", doc |-> "document", then |-> "keep"] /\ pc' = "write"
        /\ UNCHANGED <<tainted, edited, stage, reused, prior, disk>>
    BY <1>5 DEF WriteOut, Write, dirVars, sessVars, histVars
  <2>2. Pending => Pending'
    BY <2>1, PendingSame
  <2> QED
    BY <2>1, <2>2, NamedSame
<1>6. CASE WriteFile
  <2>1. /\ pc = "write" /\ pc' \in {"save", "close"} /\ buf.file \in Files
        /\ UNCHANGED <<tainted, edited, stage, reused, prior, buf>>
        /\ disk' = disk \/ disk' = [disk EXCEPT ![buf.file] = buf.doc]
    BY <1>6 DEF WriteFile, sessVars, IInv, Writing
  <2>2. buf.file # "request" => disk'["request"] = disk["request"]
    BY <2>1 DEF TypesHold, TypeOK, Stored, Files
  <2>3. Pending => Pending'
    BY <2>1, <2>2, PendingSame DEF Pending
  <2> QED
    BY <2>1, <2>3, NamedSame
<1>7. CASE SaveFile
  <2>1. /\ pc = "save" /\ pc' \in {buf.then, "close"}
        /\ UNCHANGED <<tainted, edited, stage, reused, prior, disk>>
    BY <1>7 DEF SaveFile, sessVars, histVars
  <2>2. Pending => Pending'
    BY <2>1, PendingSame DEF Pending
  <2> QED
    BY <2>1, <2>2, NamedSame
<1>8. CASE KeepScope \/ Requests \/ KeepRequests
  BY <1>8, KeepScopeNamed, RequestsNamed, KeepRequestsNamed DEF Requests
<1> QED
  BY <1>1, <1>2, <1>3, <1>4, <1>5, <1>6, <1>7, <1>8 DEF Next, Session

-----------------------------------------------------------------------------
(* An uncut run's Scope document stands beside its inputs.                 *)

\* Where a session is within its stages, and what its manifest has of the
\* Scope inputs of the session before: they stay until Scope runs.
Placed ==
    /\ pc = "scope" => stage = "scope"
    /\ pc \in {"recon", "record", "requests"} => stage = "recon"
    /\ pc \in {"write", "save"} /\ buf.then \in {"record", "requests"} => stage = "recon"
    /\ pc = "idle" => scoped = None
    /\ id = 0 => run = None /\ disk["scope"] = None
    /\ prior # None /\ (stage = "intake" \/ pc = "scope") => mem.inputs = prior.run.inputs

\* A Scope document of a session is what Scope makes of these inputs.
Of(doc, inputs) == (doc # None /\ doc.by # None) => doc.fp = inputs

\* Where nothing failed and no session was cut, the document stands beside its
\* own inputs, except while Scope's first write is on its way.
Matched ==
    /\ prior # None => Of(prior.scope, prior.run.inputs)
    /\ pc = "idle" /\ run # None => Of(disk["scope"], run.inputs)
    /\ pc # "idle" /\ ~(pc = "write" /\ buf.file = "scope") => Of(disk["scope"], mem.inputs)
    /\ pc = "write" /\ buf.file = "scope" => Of(buf.doc, mem.inputs)
    /\ Of(scoped, mem.inputs)
    /\ ScopeKept

Uncut == faults = 0 => Matched

\* A process that ends is nowhere in the stages.
LEMMA ExitPlaced ==
    ASSUME Sound, Placed, Exit, pc # "idle", UNCHANGED <<id, disk>>
    PROVE  Placed'
BY DEF Placed, Exit, Sound

\* Every step keeps a session where its stages put it.
LEMMA PlacedNext == IInv /\ TypesHold /\ Placed /\ [Next]_vars => Placed'
<1> SUFFICES ASSUME IInv, TypesHold, Placed, [Next]_vars PROVE Placed'
  OBVIOUS
<1>1. CASE UNCHANGED vars \/ Refuse
  BY <1>1 DEF vars, dirVars, sessVars, workVars, Refuse, Placed
<1>2. CASE CloseSession \/ Crash \/ (OpenManifest /\ Exit)
  <2>1. pc # "idle" /\ Exit /\ UNCHANGED <<id, disk>>
    BY <1>2 DEF CloseSession, Crash, OpenManifest, dirVars
  <2> QED
    BY <2>1, ExitPlaced DEF IInv
<1>3. CASE Start
  <2>1. PICK c \in Loadable :
          /\ pc = "idle" /\ id' = id + 1
          /\ prior' = IF run = None THEN None ELSE Loaded
          /\ mem' = IF run = None THEN [Empty EXCEPT !.host = c \in HostConfigs] ELSE run
          /\ pc' = "open"
    BY <1>3 DEF Start
  <2>2. id' # 0
    BY <2>1, ConstantsAssumption DEF IInv, Sound
  <2>3. prior' # None => mem'.inputs = prior'.run.inputs
    BY <2>1 DEF Loaded
  <2> QED
    BY <2>1, <2>2, <2>3 DEF Placed
<1>4. CASE Edit
  <2>1. run # None /\ pc = "idle" /\ UNCHANGED <<run, pc, id, prior, mem, stage, buf, scoped>>
    BY <1>4 DEF Edit, sessVars, workVars
  <2> QED
    BY <2>1 DEF Placed
<1>5. CASE OpenManifest /\ ~Exit
  <2>1. pc = "open" /\ pc' = "intake" /\ UNCHANGED <<id, prior, mem, stage, scoped>>
    BY <1>5 DEF OpenManifest, workVars
  <2> QED
    BY <2>1 DEF Placed, IInv, Sound
<1>6. CASE WriteFile
  <2>1. /\ pc = "write" /\ pc' \in {"save", "close"}
        /\ UNCHANGED <<run, id, prior, stage, buf, scoped>>
        /\ mem' = mem \/ mem' = [mem EXCEPT !.files[buf.file] = buf.doc]
    BY <1>6 DEF WriteFile, sessVars
  <2>2. mem'.inputs = mem.inputs
    BY <2>1 DEF IInv, Manifests, Manifest
  <2> QED
    BY <2>1, <2>2 DEF Placed, IInv, Sound
<1>7. CASE SaveFile
  <2>1. /\ pc = "save" /\ pc' \in {buf.then, "close"}
        /\ UNCHANGED <<id, disk, prior, mem, stage, scoped>>
    BY <1>7 DEF SaveFile, sessVars
  <2>2. buf.then \in {"keep", "record", "requests", "out", "next"}
    BY <2>1 DEF IInv, Writing
  <2> QED
    BY <2>1, <2>2 DEF Placed, IInv, Sound
<1>8. CASE RunScope
  <2>1. pc = "scope" /\ UNCHANGED <<id, disk, stage>>
    BY <1>8 DEF RunScope, dirVars, sessVars
  <2>2. pc' = "close" \/ (pc' = "write" /\ buf'.then = "keep")
    BY <1>8 DEF RunScope, Write
  <2> QED
    BY <2>1, <2>2 DEF Placed, IInv, Sound
<1>9. CASE NextStage
  <2>1. pc = "next" /\ UNCHANGED <<id, disk, prior, mem>>
    BY <1>9 DEF NextStage, dirVars, sessVars
  <2>2. \/ stage = "intake" /\ stage' = "scope" /\ pc' = "scope"
        \/ stage = "scope" /\ stage' = "recon" /\ pc' = "recon"
        \/ stage = "recon" /\ stage' = "report" /\ pc' = "out"
    BY <1>9 DEF NextStage, IInv, Sound, Stages
  <2> QED
    BY <2>1, <2>2 DEF Placed, IInv, Sound
<1>10. CASE Intake \/ Collect \/ RecordHost \/ RewriteScope \/ WriteOut
  <2>1. pc # "idle" /\ pc' = "write" /\ UNCHANGED <<id, disk, prior, mem, stage>>
    BY <1>10 DEF Intake, Collect, RecordHost, RewriteScope, WriteOut, Write, dirVars, sessVars
  <2>2. buf'.then \in {"record", "requests"} => pc \in {"recon", "record"}
    BY <1>10 DEF Intake, Collect, RecordHost, RewriteScope, WriteOut, Write
  <2> QED
    BY <2>1, <2>2 DEF Placed, IInv, Sound
<1>11. CASE KeepScope \/ KeepHost \/ HostFails \/ Requests \/ KeepRequests \/ Done
  <2>1. pc # "idle" /\ UNCHANGED <<id, disk, prior, mem, stage>>
    BY <1>11 DEF KeepScope, KeepHost, HostFails, Requests, KeepRequests, Done, dirVars, sessVars, workVars
  <2>2. /\ pc' \in {"keep", "requests", "close", "rewrite", "next", "write"}
        /\ pc' = "requests" => pc = "recon"
        /\ pc' = "write" => buf'.then = "next"
    BY <1>11 DEF KeepScope, KeepHost, HostFails, Requests, KeepRequests, Done, Write
  <2> QED
    BY <2>1, <2>2 DEF Placed, IInv, Sound
<1> QED
  BY <1>1, <1>2, <1>3, <1>4, <1>5, <1>6, <1>7, <1>8, <1>9, <1>10, <1>11 DEF Next, Session

\* A step that moves no document and no inputs.
LEMMA MatchedSame ==
    ASSUME Uncut, faults' = 0 => faults = 0,
           UNCHANGED <<disk, config, prior, scoped, kept>>, mem'.inputs = mem.inputs,
           pc # "idle", pc' # "idle", pc # "write",
           pc' = "write" /\ buf'.file = "scope" => buf'.doc = scoped
    PROVE  Uncut'
BY DEF Uncut, Matched, Of, ScopeKept, ScopeInputs

\* What fails is counted.
LEMMA FaultsOnlyGrow ==
    ASSUME TypeOK, NEW ok \in BOOLEAN, Count(ok)
    PROVE  (faults' = 0 => faults = 0) /\ (~ok => faults' # 0)
<1>1. faults \in Nat
  BY ConstantsAssumption DEF TypeOK
<1>2. (ok /\ faults' = faults) \/ (~ok /\ faults' = faults + 1)
  BY Zenon DEF Count
<1> QED
  BY <1>1, <1>2

\* Outcomes are truth values.
LEMMA OutcomesBoolean == Outcomes \subseteq BOOLEAN
BY DEF Outcomes

\* The write of Scope's document ends with it beside its inputs.
LEMMA WriteFileMatched ==
    ASSUME IInv, TypesHold, Uncut, WriteFile
    PROVE  Uncut'
<1>1. PICK ok \in Outcomes :
        /\ Count(ok)
        /\ pc' = IF ok THEN "save" ELSE "close"
        /\ disk' = IF ok THEN [disk EXCEPT ![buf.file] = buf.doc] ELSE disk
        /\ mem' = IF ok THEN [mem EXCEPT !.files[buf.file] = buf.doc] ELSE mem
  BY DEF WriteFile
<1>2. /\ pc = "write" /\ buf.file \in Files
      /\ UNCHANGED <<config, prior, scoped, kept>>
  BY DEF WriteFile, sessVars, IInv, Writing
<1>3. (faults' = 0 => faults = 0) /\ (~ok => faults' # 0)
  BY <1>1, FaultsOnlyGrow, OutcomesBoolean DEF TypesHold
<1>4. CASE ~ok
  BY <1>3, <1>4 DEF Uncut
<1>5. CASE ok
  <2>1. pc' = "save" /\ mem'.inputs = mem.inputs
    BY <1>1, <1>5 DEF IInv, Manifests, Manifest
  <2>2. disk'["scope"] = IF buf.file = "scope" THEN buf.doc ELSE disk["scope"]
    BY <1>1, <1>2, <1>5 DEF TypesHold, TypeOK, Stored, Files
  <2> QED
    BY <1>2, <1>3, <2>1, <2>2 DEF Uncut, Matched, Of, ScopeKept, ScopeInputs
<1> QED
  BY <1>4, <1>5

\* A session starts with what run.json has beside the document it loads.
LEMMA StartMatched ==
    ASSUME IInv, TypesHold, Placed, Uncut, Start
    PROVE  Uncut'
<1>1. PICK c \in Loadable :
        /\ pc = "idle" /\ (run = None => id = 0)
        /\ prior' = IF run = None THEN None ELSE Loaded
        /\ mem' = IF run = None THEN [Empty EXCEPT !.host = c \in HostConfigs] ELSE run
        /\ pc' = "open"
        /\ UNCHANGED <<disk, run, scoped, faults, kept>>
  BY DEF Start, dirVars, histVars
<1>2. scoped' = None /\ kept' = Nothing
  BY <1>1 DEF Placed, IInv, Sound
<1>3. faults = 0 => Of(disk["scope"], mem'.inputs)
  BY <1>1 DEF Placed, Uncut, Matched, Of
<1>4. faults = 0 /\ prior' # None => Of(prior'.scope, prior'.run.inputs)
  BY <1>1 DEF Uncut, Matched, Loaded
<1> QED
  BY <1>1, <1>2, <1>3, <1>4 DEF Uncut, Matched, Of, ScopeKept, Nothing

\* A document is kept only for inputs that are the ones it stands beside.
LEMMA KeepScopeMatched ==
    ASSUME IInv, Placed, Uncut, KeepScope
    PROVE  Uncut'
<1>1. /\ pc = "scope" /\ pc' = "keep" /\ prior # None /\ ScopeInputs = prior.run.inputs
      /\ kept' = [kept EXCEPT !.scope = prior.scope] /\ scoped' = prior.scope
      /\ UNCHANGED <<disk, mem, config, prior, faults>>
  BY DEF KeepScope, MayKeepScope, sessVars, dirVars
<1>2. kept'.scope = prior.scope
  BY <1>1 DEF IInv, Sound
<1>3. mem.inputs = prior.run.inputs
  BY <1>1 DEF Placed
<1> QED
  BY <1>1, <1>2, <1>3 DEF Uncut, Matched, Of, ScopeKept, ScopeInputs

\* Scope runs: the inputs change and the document for them is on its way, or
\* it fails.
LEMMA RunScopeMatched ==
    ASSUME IInv, TypesHold, Uncut, RunScope
    PROVE  Uncut'
<1>1. PICK ok \in Outcomes, complete \in BOOLEAN :
        /\ Count(ok)
        /\ IF ok
           THEN LET doc == [by |-> Me, fp |-> ScopeInputs, complete |-> complete, at |-> start]
                IN scoped' = doc /\ Write("scope", doc, "keep")
           ELSE complete /\ pc' = "close" /\ UNCHANGED <<scoped, buf>>
  BY DEF RunScope
<1>2. /\ pc = "scope" /\ mem' = [mem EXCEPT !.inputs = ScopeInputs]
      /\ UNCHANGED <<disk, config, prior, kept>>
  BY DEF RunScope, dirVars, sessVars, histVars
<1>3. (faults' = 0 => faults = 0) /\ (~ok => faults' # 0)
  BY <1>1, FaultsOnlyGrow, OutcomesBoolean DEF TypesHold
<1>4. CASE ~ok
  BY <1>3, <1>4 DEF Uncut
<1>5. CASE ok
  <2> DEFINE doc == [by |-> Me, fp |-> ScopeInputs, complete |-> complete, at |-> start]
  <2>1. scoped' = doc /\ Write("scope", doc, "keep")
    BY <1>1, <1>5
  <2>2. doc.fp = ScopeInputs
    OBVIOUS
  <2> HIDE DEF doc
  <2>3. pc' = "write" /\ buf'.file = "scope" /\ buf'.doc = doc
    BY <2>1 DEF Write
  <2>4. mem'.inputs = ScopeInputs
    BY <1>2 DEF IInv, Manifests, Manifest
  <2> QED
    BY <1>2, <1>3, <2>1, <2>2, <2>3, <2>4 DEF Uncut, Matched, Of, ScopeKept, ScopeInputs
<1> QED
  BY <1>4, <1>5

\* A process that ends uncut has saved its manifest.
LEMMA ExitMatched ==
    ASSUME IInv, TypesHold, Uncut, CloseSession \/ Crash \/ (OpenManifest /\ Exit)
    PROVE  Uncut'
<1>1. CASE CloseSession
  <2>1. PICK ok \in Outcomes : Count(ok) /\ run' = IF ok THEN mem ELSE run
    BY <1>1 DEF CloseSession
  <2>2. pc = "close" /\ Exit /\ disk' = disk
    BY <1>1 DEF CloseSession
  <2>3. (faults' = 0 => faults = 0) /\ (~ok => faults' # 0)
    BY <2>1, FaultsOnlyGrow, OutcomesBoolean DEF TypesHold
  <2>4. CASE ~ok
    BY <2>3, <2>4 DEF Uncut
  <2>5. CASE ok
    <3>1. run' = mem
      BY <2>1, <2>5
    <3> QED
      BY <2>2, <2>3, <3>1 DEF Uncut, Matched, Of, ScopeKept, Exit, Nothing
  <2> QED
    BY <2>4, <2>5
<1>2. CASE Crash
  <2>1. faults' # 0
    BY <1>2, ConstantsAssumption DEF Crash, TypesHold, TypeOK
  <2> QED
    BY <2>1 DEF Uncut
<1>3. CASE OpenManifest /\ Exit
  <2>1. PICK ok \in Outcomes : Count(ok) /\ (ok => pc' = "intake")
    BY <1>3 DEF OpenManifest
  <2>2. ~ok
    BY <1>3, <2>1 DEF Exit
  <2>3. faults' # 0
    BY <2>1, <2>2, FaultsOnlyGrow, OutcomesBoolean DEF TypesHold
  <2> QED
    BY <2>3 DEF Uncut
<1> QED
  BY <1>1, <1>2, <1>3

\* Every step keeps an uncut run's document beside its inputs.
LEMMA UncutNext == IInv /\ TypesHold /\ Placed /\ Uncut /\ [Next]_vars => Uncut'
<1> SUFFICES ASSUME IInv, TypesHold, Placed, Uncut, [Next]_vars PROVE Uncut'
  OBVIOUS
<1>1. CASE UNCHANGED vars \/ Refuse
  BY <1>1 DEF vars, dirVars, sessVars, workVars, histVars, Refuse, Uncut, Matched, Of, ScopeKept, ScopeInputs
<1>2. CASE Edit
  <2>1. PICK f \in Files \ {"out"}, at \in Times, fp \in {HostFp[c] : c \in Configs} :
          /\ pc = "idle"
          /\ disk' = [disk EXCEPT ![f] = EditedDoc(f, at, fp)]
          /\ UNCHANGED <<run, pc, config, prior, mem, buf, scoped, faults, kept>>
    BY <1>2 DEF Edit, sessVars, workVars
  <2> DEFINE doc == EditedDoc(f, at, fp)
  <2>2. f = "scope" => doc.by = None
    BY DEF EditedDoc
  <2> HIDE DEF doc
  <2>3. disk'["scope"] = IF f = "scope" THEN doc ELSE disk["scope"]
    BY <2>1 DEF TypesHold, TypeOK, Stored, Files, doc
  <2> QED
    BY <2>1, <2>2, <2>3 DEF Uncut, Matched, Of, ScopeKept, ScopeInputs
<1>3. CASE Start \/ WriteFile \/ KeepScope \/ RunScope \/ CloseSession \/ Crash \/ (OpenManifest /\ Exit)
  BY <1>3, StartMatched, WriteFileMatched, KeepScopeMatched, RunScopeMatched, ExitMatched
<1>4. CASE (OpenManifest /\ ~Exit) \/ SaveFile \/ HostFails \/ KeepRequests
  <2>1. PICK ok \in Outcomes : Count(ok)
    BY <1>4 DEF OpenManifest, SaveFile, HostFails, KeepRequests
  <2>2. faults' = 0 => faults = 0
    BY <2>1, FaultsOnlyGrow, OutcomesBoolean DEF TypesHold
  <2>3. /\ pc \notin {"idle", "write"}
        /\ UNCHANGED <<disk, config, prior, scoped, mem, kept>>
    BY <1>4 DEF OpenManifest, SaveFile, HostFails, KeepRequests, dirVars, sessVars, workVars, histVars
  <2>4. pc' # "idle" /\ (pc' = "write" => buf'.file = "request")
    BY <1>4 DEF OpenManifest, SaveFile, HostFails, KeepRequests, Write, IInv, Writing
  <2> QED
    BY <2>2, <2>3, <2>4, MatchedSame
<1>5. CASE \/ Intake \/ KeepHost \/ Collect \/ RecordHost \/ Requests \/ RewriteScope \/ WriteOut
           \/ NextStage \/ Done
  <2>1. /\ pc \notin {"idle", "write"}
        /\ UNCHANGED <<disk, config, prior, scoped, mem, faults>>
    BY <1>5 DEF Intake, KeepHost, Collect, RecordHost, Requests, RewriteScope, WriteOut, NextStage, Done,
       dirVars, sessVars, workVars
  <2>2. pc' # "idle" /\ (pc' = "write" /\ buf'.file = "scope" => buf'.doc = scoped)
    BY <1>5 DEF Intake, KeepHost, Collect, RecordHost, Requests, RewriteScope, WriteOut, NextStage, Done,
       Write, IInv, Sound, Stages
  <2>3. CASE KeepHost
    <3>1. kept'.scope = kept.scope
      BY <2>3 DEF KeepHost, IInv, Sound
    <3> QED
      BY <2>1, <2>2, <3>1 DEF Uncut, Matched, Of, ScopeKept, ScopeInputs
  <2>4. CASE ~KeepHost
    <3>1. kept' = kept
      BY <1>5, <2>4 DEF Intake, Collect, RecordHost, Requests, RewriteScope, WriteOut, NextStage, Done, histVars
    <3> QED
      BY <2>1, <2>2, <3>1, MatchedSame
  <2> QED
    BY <2>3, <2>4
<1> QED
  BY <1>1, <1>2, <1>3, <1>4, <1>5 DEF Next, Session

-----------------------------------------------------------------------------
(* What a resume says of what it goes by.                                  *)

\* What ScopeHonest rests on, with IInv.
HInv == TypesHold /\ Known /\ Named /\ Placed /\ Uncut

\* An empty directory, and nothing used.
LEMMA InitHInv == Init => HInv
<1> SUFFICES ASSUME Init PROVE HInv
  OBVIOUS
<1>1. Stored(NoFiles)
  BY DEF Stored, NoFiles, Files
<1>2. TypeOK
  <2>1. Stored(disk) /\ (run # None => Stored(run.files)) /\ Stored(mem.files)
    BY <1>1 DEF Init, Empty
  <2>2. /\ pc \in PCs /\ id \in 0 .. MaxSessions /\ start \in Times /\ stage \in Stages
        /\ faults \in 0 .. MaxFaults /\ edits \in 0 .. MaxEdits
    BY ConstantsAssumption DEF Init, PCs, Times, Stages
  <2>3. /\ scoped \in ScopeDocs \cup {None} /\ success \in RequestDocs \cup {None}
        /\ edited \subseteq Files /\ tainted \subseteq Files /\ dirty \subseteq Files
        /\ reused \in BOOLEAN /\ refused \in BOOLEAN
    BY DEF Init
  <2> QED
    BY <2>1, <2>2, <2>3 DEF TypeOK
<1>3. Typed
  BY DEF Init, Typed
<1>4. Known /\ Named
  BY DEF Init, Known, Named, Listed, Empty, NoFiles, Files
<1>5. Placed
  BY DEF Init, Placed, NoFiles, Files
<1>6. Uncut
  BY DEF Init, Uncut, Matched, Of, ScopeKept, Nothing, NoFiles, Files
<1> QED
  BY <1>2, <1>3, <1>4, <1>5, <1>6 DEF HInv, TypesHold

\* What a resume says of what it goes by holds for any number of sessions,
\* failures, crashes and edits: every file has a document of its type, an
\* edited file that the session used is named in its report, and where nothing
\* failed or was cut a Scope document is kept only for the inputs it is of
\* (resume.go used, edited, Manifest.ScopeInputs; stages.go scope).
THEOREM ScopeAlwaysHonest == Spec => []ScopeHonest
<1>1. IInv /\ HInv /\ [Next]_vars => HInv'
  BY TypesNext, KnownNext, NamedNext, PlacedNext, UncutNext DEF HInv, Placed
<1>2. HInv => ScopeHonest
  <2> SUFFICES ASSUME HInv PROVE ScopeHonest
    OBVIOUS
  <2>1. TypeOK /\ ScopeKeptUncut
    BY DEF HInv, TypesHold, Uncut, Matched, ScopeKeptUncut
  <2>2. EditsNamed
    BY DEF HInv, Named, Pending, EditsNamed
  <2> QED
    BY <2>1, <2>2 DEF ScopeHonest
<1> QED
  BY InitHInv, Invariant, <1>1, <1>2, PTL DEF Spec
=============================================================================
