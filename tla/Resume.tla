------------------------------- MODULE Resume -------------------------------
(***************************************************************************)
(* What the sessions of a run leave in its directory and what a resume     *)
(* keeps of it (internal/engagement: stages.go Run, write, scope and       *)
(* reconStage; resume.go). RunLock.tla shows that sessions come one after  *)
(* another, so there is one session at a time here.                        *)
(*                                                                         *)
(* A stage writes a file and then run.json with the file's hash: two       *)
(* writes, each atomic (RunDir.Write renames), each of which may fail, and *)
(* the process may die between any two steps. Between sessions the         *)
(* engagement file may change, files may be edited by hand and the clock   *)
(* may be set.                                                             *)
(*                                                                         *)
(* One host asset, one request identity. A file's hash is its content. An  *)
(* engagement file is what the fingerprints scopeInputs and hostInputs     *)
(* make of it, None for a build that names no commit. Output that no       *)
(* resume reads (recon.json, report.json...) is one file, "out".           *)
(***************************************************************************)
EXTENDS Integers, FiniteSets

CONSTANTS
    Configs,            \* engagement files, with the build that reads them
    ScopeFp, HostFp,    \* [Configs -> fingerprints \cup {None}]
    HostConfigs,        \* the ones --host builds, rather than a file
    MaxKept,            \* the age past which nothing is kept, in units of time
    MaxTime,            \* bound: the clock's readings
    MaxSessions,        \* bound: sessions of the run
    MaxFaults,          \* bound: writes and stages that fail, and crashes
    MaxEdits,           \* bound: files edited by hand
    None

Files  == {"engagement", "scope", "env", "record", "request", "out"}
Stages == {"intake", "scope", "recon", "report"}
Ids    == 1 .. MaxSessions
Times  == 0 .. MaxTime

ASSUME ConstantsAssumption ==
    /\ HostConfigs \subseteq Configs
    /\ MaxKept \in Nat /\ MaxTime \in Nat /\ MaxSessions \in Nat
    /\ MaxFaults \in Nat /\ MaxEdits \in Nat
    /\ None \notin Configs
    /\ None \notin [id : Ids, start : Times]

VARIABLES
    disk,      \* each file's content, None when it is not there
    run,       \* run.json: [files, inputs, host], None when it is not there
    pc,
    id,        \* the number of this session, or of the last one
    config,    \* the engagement file as this session read it
    start,     \* the session's start
    prior,     \* Prior: run.json, scope.json and the request as loaded, or None
    mem,       \* run.manifest
    stage,     \* the stage that runs or ran last
    buf,       \* the write in progress: [file, doc, then]
    scoped,    \* run.scoped
    edited,    \* run.edited
    success,   \* what Gate.Successes holds
    reused,    \* Gate.Reused is not empty
    faults, edits,
    \* history, for the properties only
    dirty,     \* files edited since, into what no session wrote there
    adopted,   \* Scope documents of no session that a session wrote again
    tainted,   \* files this session used that were dirty
    kept,      \* what this session kept: [scope, host]
    refused    \* the resume was refused: "edited since"

dirVars  == <<disk, run>>
sessVars == <<id, config, start, prior>>
workVars == <<mem, stage, buf, scoped, edited, success, reused>>
histVars == <<dirty, adopted, tainted, kept, refused>>
vars     == <<dirVars, pc, sessVars, workVars, faults, edits, histVars>>

Nothing == [scope |-> None, host |-> None]
NoFiles == [f \in Files |-> None]
Empty   == [files |-> NoFiles, inputs |-> None, host |-> FALSE]

Init ==
    /\ disk = NoFiles
    /\ run = None
    /\ pc = "idle"
    /\ id = 0
    /\ config = None
    /\ start = 0
    /\ prior = None
    /\ mem = Empty
    /\ stage = "intake"
    /\ buf = None
    /\ scoped = None
    /\ edited = {}
    /\ success = None
    /\ reused = FALSE
    /\ faults = 0
    /\ edits = 0
    /\ dirty = {} /\ adopted = {}
    /\ tainted = {}
    /\ kept = Nothing
    /\ refused = FALSE

\* The process ends, and what it held in memory is gone.
Exit ==
    /\ pc' = "idle"
    /\ config' = None /\ start' = 0
    /\ prior' = None
    /\ mem' = Empty
    /\ stage' = "intake"
    /\ buf' = None /\ scoped' = None /\ edited' = {} /\ success' = None /\ reused' = FALSE
    /\ tainted' = {} /\ kept' = Nothing

-----------------------------------------------------------------------------
(* Writing.                                                                *)

\* Who wrote a document: the session, named as run.json names it.
Me == [id |-> id, start |-> start]

\* A step fails or not; only MaxFaults of them fail.
Outcomes == IF faults < MaxFaults THEN BOOLEAN ELSE {TRUE}
Count(ok) == faults' = IF ok THEN faults ELSE faults + 1

\* r.write(file, doc), and where the stage goes on.
Write(file, doc, then) ==
    /\ buf' = [file |-> file, doc |-> doc, then |-> then]
    /\ pc' = "write"

\* Its first half: RunDir.Write, and the hash in the session's manifest.
WriteFile ==
    /\ pc = "write"
    /\ \E ok \in Outcomes :
        /\ Count(ok)
        /\ pc' = IF ok THEN "save" ELSE "close"
        /\ disk' = IF ok THEN [disk EXCEPT ![buf.file] = buf.doc] ELSE disk
        /\ mem' = IF ok THEN [mem EXCEPT !.files[buf.file] = buf.doc] ELSE mem
        /\ dirty' = IF ok THEN dirty \ {buf.file} ELSE dirty
        /\ adopted' = IF ok /\ buf.file = "scope" /\ buf.doc # None /\ buf.doc.by = None
                      THEN adopted \cup {buf.doc} ELSE adopted
    /\ UNCHANGED <<run, sessVars, stage, buf, scoped, edited, success, reused,
                   edits, tainted, kept, refused>>

\* Its second half: saveManifest.
SaveFile ==
    /\ pc = "save"
    /\ \E ok \in Outcomes :
        /\ Count(ok)
        /\ pc' = IF ok THEN buf.then ELSE "close"
        /\ run' = IF ok THEN mem ELSE run
    /\ buf' = None
    /\ UNCHANGED <<disk, sessVars, mem, stage, scoped, edited, success, reused, edits, histVars>>

-----------------------------------------------------------------------------
(* Opening the directory.                                                  *)

\* Mutant: a file the manifest does not list is not edited.
EditedListed(manifest, file) ==
    disk[file] # None /\ manifest.files[file] # None /\ manifest.files[file] # disk[file]

\* edited: the file's hash is not the one the earlier sessions recorded; a
\* file that cannot be read is not edited.
Edited(manifest, file) == disk[file] # None /\ manifest.files[file] # disk[file]

\* LoadPrior: scope.json as it is, and the request only when run.json lists it.
Loaded ==
    [run |-> run, scope |-> disk["scope"],
     request |-> IF run.files["request"] = None THEN None ELSE disk["request"]]

\* LoadEngagement: the file, as it is now, or for a --host run the
\* directory's own copy, unless that was edited.
Loadable ==
    IF run = None THEN Configs
    ELSE IF ~run.host THEN Configs \ HostConfigs
    ELSE IF Edited(run, "engagement") THEN {} ELSE {disk["engagement"]} \cap Configs

\* A session starts: a new run's first, or the next of a resumed one.
Start ==
    \E c \in Loadable, t \in Times :
        /\ pc = "idle"
        /\ id < MaxSessions
        /\ run = None => id = 0
        /\ id' = id + 1
        /\ config' = c
        /\ start' = t
        /\ prior' = IF run = None THEN None ELSE Loaded
        /\ mem' = IF run = None THEN [Empty EXCEPT !.host = c \in HostConfigs] ELSE run
        /\ pc' = "open"
        /\ UNCHANGED <<dirVars, stage, buf, scoped, edited, success, reused,
                       faults, edits, histVars>>

\* LoadEngagement refuses a --host run whose file was edited.
Refuse ==
    /\ pc = "idle" /\ run # None /\ id < MaxSessions
    /\ run.host /\ Edited(run, "engagement")
    /\ ~refused
    /\ refused' = TRUE
    /\ UNCHANGED <<dirVars, pc, sessVars, workVars, faults, edits, dirty, adopted, tainted, kept>>

\* openManifest: on an error Run returns, and there is no session to close.
OpenManifest ==
    /\ pc = "open"
    /\ \E ok \in Outcomes :
        /\ Count(ok)
        /\ IF ok
           THEN pc' = "intake" /\ run' = mem /\ UNCHANGED <<config, start, prior, workVars, tainted, kept>>
           ELSE Exit /\ UNCHANGED run
    /\ UNCHANGED <<disk, id, edits, dirty, adopted, refused>>

-----------------------------------------------------------------------------
(* The stages.                                                             *)

Intake ==
    /\ pc = "intake"
    /\ Write("engagement", config, "keep")
    /\ UNCHANGED <<dirVars, sessVars, mem, stage, scoped, edited, success, reused,
                   faults, edits, histVars>>

\* used: an edited file the resume uses is named in the report.
Used(file) == IF prior # None /\ Edited(prior.run, file) THEN {file} ELSE {}

\* keptFresh: 0 <= session start - collection time < MaxKept.
Fresh(at) == start - at \in 0 .. MaxKept - 1

ScopeInputs == ScopeFp[config]

MayKeepScope ==
    /\ prior # None /\ prior.scope # None
    /\ ScopeInputs # None /\ ScopeInputs = prior.run.inputs
    /\ prior.scope.complete
    /\ Fresh(prior.scope.at)

KeepScope ==
    /\ pc = "scope"
    /\ MayKeepScope
    /\ edited' = edited \cup Used("scope")
    /\ tainted' = tainted \cup (dirty \cap {"scope"})
    /\ kept' = [kept EXCEPT !.scope = prior.scope]
    /\ scoped' = prior.scope
    /\ pc' = "keep"
    /\ UNCHANGED <<dirVars, sessVars, mem, stage, buf, success, reused,
                   faults, edits, dirty, adopted, refused>>

\* Scope runs: its inputs are in the session's manifest before anything is
\* read. No gate or no redactor is an error, and the document is not written.
RunScope ==
    /\ pc = "scope"
    /\ ~MayKeepScope
    /\ mem' = [mem EXCEPT !.inputs = ScopeInputs]
    /\ \E ok \in Outcomes, complete \in BOOLEAN :
        /\ Count(ok)
        /\ IF ok
           THEN LET doc == [by |-> Me, fp |-> ScopeInputs, complete |-> complete, at |-> start]
                IN scoped' = doc /\ Write("scope", doc, "keep")
           ELSE complete /\ pc' = "close" /\ UNCHANGED <<scoped, buf>>
    /\ UNCHANGED <<dirVars, sessVars, stage, edited, success, reused, edits, histVars>>

HostInputs == HostFp[config]

\* Mutant: the envelope is not compared with the record's.
MayKeepMixedHost ==
    LET rec == disk["record"]  env == disk["env"] IN
    /\ prior # None /\ HostInputs # None
    /\ env # None /\ rec # None
    /\ prior.run.files["record"] = rec
    /\ rec.fp = HostInputs /\ rec.status = "collected"
    /\ prior.run.files["env"] = env
    /\ Fresh(env.at)

\* keptHost: both files as scheck wrote them and run.json records them, the
\* envelope the one the record names, complete, same inputs, fresh.
MayKeepHost ==
    LET rec == disk["record"]  env == disk["env"] IN
    /\ prior # None
    /\ HostInputs # None
    /\ env # None /\ rec # None
    /\ prior.run.files["record"] = rec
    /\ rec.fp = HostInputs
    /\ rec.status = "collected"
    /\ rec.envelope = prior.run.files["env"]
    /\ rec.envelope = env
    /\ Fresh(env.at)

KeepHost ==
    /\ pc = "recon"
    /\ MayKeepHost
    /\ kept' = [kept EXCEPT !.host = [env |-> disk["env"], rec |-> disk["record"]]]
    /\ pc' = "requests"
    /\ UNCHANGED <<dirVars, sessVars, workVars, faults, edits, dirty, adopted, tainted, refused>>

\* The host cannot be reached or refuses, or limits.timeout came first:
\* recorded as such, nothing written. Another error ends the run.
HostFails ==
    /\ pc = "recon"
    /\ ~MayKeepHost
    /\ \E ok \in Outcomes : Count(ok) /\ pc' = IF ok THEN "requests" ELSE "close"
    /\ UNCHANGED <<dirVars, sessVars, workVars, edits, histVars>>

\* The host is collected, completely or not: recordHost writes its envelope.
\* (run.started of the envelope is taken as the session's start.)
Collect ==
    /\ pc = "recon"
    /\ ~MayKeepHost
    /\ \E status \in {"collected", "incomplete"} :
        Write("env", [by |-> Me, at |-> start, status |-> status], "record")
    /\ UNCHANGED <<dirVars, sessVars, mem, stage, scoped, edited, success, reused,
                   faults, edits, histVars>>

\* recordHost's second write names the envelope by the hash of the first.
RecordHost ==
    /\ pc = "record"
    /\ Write("record", [by |-> Me, fp |-> HostInputs, status |-> mem.files["env"].status,
                        envelope |-> mem.files["env"]], "requests")
    /\ UNCHANGED <<dirVars, sessVars, mem, stage, scoped, edited, success, reused,
                   faults, edits, histVars>>

\* The reads through the gate. A fresh success of an earlier session answers
\* (freshRequests, gate.go answerFromPrior); else it is sent, and a success
\* of a known build is kept. Not every session asks for it.
MayReuse == prior # None /\ prior.request # None /\ ScopeInputs # None /\ Fresh(prior.request.at)

Requests ==
    /\ pc = "requests"
    /\ \/ /\ MayReuse
          /\ reused' = TRUE
          /\ tainted' = tainted \cup (dirty \cap {"request"})
          /\ UNCHANGED success
       \/ /\ ~MayReuse /\ ScopeInputs # None
          /\ success' = [by |-> Me, at |-> start]
          /\ UNCHANGED <<reused, tainted>>
       \/ UNCHANGED <<reused, success, tainted>>
    /\ pc' = "rewrite"
    /\ UNCHANGED <<dirVars, sessVars, mem, stage, buf, scoped, edited,
                   faults, edits, dirty, adopted, kept, refused>>

\* Mutant: the document is dated anew.
RewriteScopeNow ==
    /\ pc = "rewrite"
    /\ Write("scope", [scoped EXCEPT !.at = start], "out")
    /\ UNCHANGED <<dirVars, sessVars, mem, stage, scoped, edited, success, reused,
                   faults, edits, histVars>>

\* The end of reconStage: scope.json is written again, as this session has it.
RewriteScope ==
    /\ pc = "rewrite"
    /\ Write("scope", scoped, "out")
    /\ UNCHANGED <<dirVars, sessVars, mem, stage, scoped, edited, success, reused,
                   faults, edits, histVars>>

\* recon.json, and in the last stages their documents and the report.
WriteOut ==
    /\ pc = "out"
    /\ Write("out", "document", "keep")
    /\ UNCHANGED <<dirVars, sessVars, mem, stage, scoped, edited, success, reused,
                   faults, edits, histVars>>

\* keepRequests, after each stage.
KeepRequests ==
    /\ pc = "keep"
    /\ \E ok \in Outcomes :
        /\ Count(ok)
        /\ run' = IF ok THEN mem ELSE run
        /\ edited' = IF ok /\ reused THEN edited \cup Used("request") ELSE edited
        /\ IF ok /\ success # None
           THEN Write("request", success, "next")
           ELSE pc' = (IF ok THEN "next" ELSE "close") /\ UNCHANGED buf
    /\ UNCHANGED <<disk, sessVars, mem, stage, scoped, success, reused, edits, histVars>>

\* On to the next stage. "report" stands for Plan to Report.
NextStage ==
    /\ pc = "next"
    /\ stage # "report"
    /\ stage' = (CASE stage = "intake" -> "scope" [] stage = "scope" -> "recon"
                   [] stage = "recon" -> "report")
    /\ pc' = IF stage' = "report" THEN "out" ELSE stage'
    /\ UNCHANGED <<dirVars, sessVars, mem, buf, scoped, edited, success, reused,
                   faults, edits, histVars>>

\* The last stage, or --stop-after this one.
Done ==
    /\ pc = "next"
    /\ pc' = "close"
    /\ UNCHANGED <<dirVars, sessVars, workVars, faults, edits, histVars>>

\* closeSession: whatever the session's manifest holds is saved; a failed
\* write is only logged.
CloseSession ==
    /\ pc = "close"
    /\ \E ok \in Outcomes :
        /\ Count(ok)
        /\ run' = IF ok THEN mem ELSE run
    /\ Exit
    /\ UNCHANGED <<disk, id, edits, dirty, adopted, refused>>

-----------------------------------------------------------------------------
(* The environment, and the specification.                                 *)

Crash ==
    /\ pc # "idle"
    /\ faults < MaxFaults
    /\ faults' = faults + 1
    /\ Exit
    /\ UNCHANGED <<dirVars, id, edits, dirty, adopted, refused>>

\* A file is edited, or one is placed where there was none: whatever would
\* make a resume keep it, by no session.
EditedDoc(f, at, fp) ==
    CASE f = "engagement" -> "edited"
      [] f = "scope" -> [by |-> None, fp |-> None, complete |-> TRUE, at |-> at]
      [] f = "env" -> [by |-> None, at |-> at, status |-> "collected"]
      [] f = "record" -> [by |-> None, fp |-> fp, status |-> "collected", envelope |-> disk["env"]]
      [] f = "request" -> [by |-> None, at |-> at]
Edit ==
    \E f \in Files \ {"out"}, at \in Times, fp \in {HostFp[c] : c \in Configs} :
        /\ pc = "idle" /\ run # None
        /\ edits < MaxEdits
        /\ edits' = edits + 1
        /\ EditedDoc(f, at, fp) # disk[f]
        /\ disk' = [disk EXCEPT ![f] = EditedDoc(f, at, fp)]
        /\ dirty' = IF f = "scope" /\ EditedDoc(f, at, fp) \in adopted THEN dirty \ {f} ELSE dirty \cup {f}
        /\ UNCHANGED <<run, pc, sessVars, workVars, faults, adopted, tainted, kept, refused>>

Session ==
    \/ WriteFile \/ SaveFile \/ OpenManifest \/ Intake \/ KeepScope \/ RunScope
    \/ KeepHost \/ HostFails \/ Collect \/ RecordHost \/ Requests \/ RewriteScope
    \/ WriteOut \/ KeepRequests \/ NextStage \/ Done \/ CloseSession

Next == Start \/ Refuse \/ Session \/ Crash \/ Edit

Spec == Init /\ [][Next]_vars

-----------------------------------------------------------------------------
(* Properties.                                                             *)

PCs == {"idle", "open", "intake", "scope", "recon", "record", "requests", "rewrite",
        "out", "write", "save", "keep", "next", "close"}

Authors     == [id : Ids, start : Times] \cup {None}
ScopeDocs   == [by : Authors, fp : {ScopeFp[c] : c \in Configs} \cup {None},
                complete : BOOLEAN, at : Times]
EnvDocs     == [by : Authors, at : Times, status : {"collected", "incomplete"}]
RecordDocs  == [by : Authors, fp : {HostFp[c] : c \in Configs},
                status : {"collected", "incomplete"}, envelope : EnvDocs \cup {None}]
RequestDocs == [by : Authors, at : Times]

ASSUME NoneAssumption == None \notin ScopeDocs \cup RequestDocs

Stored(files) ==
    /\ DOMAIN files = Files
    /\ files["engagement"] \in Configs \cup {"edited", None}
    /\ files["scope"] \in ScopeDocs \cup {None}
    /\ files["env"] \in EnvDocs \cup {None}
    /\ files["record"] \in RecordDocs \cup {None}
    /\ files["request"] \in RequestDocs \cup {None}
    /\ files["out"] \in {"document", None}

\* The type of the directory and of the session.
TypeOK ==
    /\ Stored(disk)
    /\ run # None => Stored(run.files)
    /\ Stored(mem.files)
    /\ pc \in PCs
    /\ id \in 0 .. MaxSessions
    /\ start \in Times
    /\ stage \in Stages
    /\ scoped \in ScopeDocs \cup {None}
    /\ success \in RequestDocs \cup {None}
    /\ edited \subseteq Files /\ tainted \subseteq Files /\ dirty \subseteq Files
    /\ reused \in BOOLEAN /\ refused \in BOOLEAN
    /\ faults \in 0 .. MaxFaults /\ edits \in 0 .. MaxEdits

\* A kept host is one session's complete collection under this session's
\* inputs: no edited file, and no envelope of one session with the record of
\* another, wherever sessions were cut (resume.go keptHost: "a session cut
\* between the two writes keeps nothing").
HostKeptWhole ==
    kept.host # None =>
        LET env == kept.host.env  rec == kept.host.rec IN
        /\ env.by # None /\ env.by.id < id
        /\ rec.by = env.by
        /\ env.status = "collected"
        /\ rec.fp = HostInputs /\ HostInputs # None

KeptFrom(doc) == doc.by # None => start - doc.by.start \in 0 .. MaxKept - 1

\* Nothing kept was collected longer ago than the maximum, however many
\* sessions in between kept it and wrote it again (resume.go maxKept,
\* stages.go reconStage's second write of scope.json).
NothingOldKept ==
    /\ kept.scope # None => KeptFrom(kept.scope)
    /\ kept.host # None => KeptFrom(kept.host.env)

\* The report of a session names every file edited by hand that the session
\* used (resume.go used, edited: "changed, or never written by it").
EditsNamed == stage = "report" => tainted \subseteq edited

\* A kept Scope document is what Scope made of this session's inputs
\* (resume.go Manifest.ScopeInputs: "its document is kept on a resume only
\* while they match"). It does not hold: a session that changes the inputs
\* and fails before scope.json is written still saves them (closeSession).
ScopeKept == (kept.scope # None /\ kept.scope.by # None) => kept.scope.fp = ScopeInputs

\* It does hold of a run none of whose sessions failed or was cut.
ScopeKeptUncut == faults = 0 => ScopeKept

\* What a resume says of what it goes by: documents of their types, a Scope of
\* these inputs where no session was cut, and every edit it used named.
ScopeHonest == TypeOK /\ ScopeKeptUncut /\ EditsNamed
=============================================================================
