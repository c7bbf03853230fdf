---------------------------- MODULE GitHubAccess ----------------------------
(***************************************************************************)
(* The identity and repository rules of the GitHub collector               *)
(* (collector/github: rules.go, permission.go): what each rule says of the *)
(* populations read, each of which may have stopped before its end.        *)
(*                                                                         *)
(* A population is [items, whole, late]: what was listed, whether the      *)
(* listing reached its end with every page usable, and whether the reads   *)
(* were all after the declared leaving dates.  A judgment is               *)
(* [id, asset, subject, verdict].                                          *)
(***************************************************************************)
EXTENDS Naturals, FiniteSets

CONSTANTS
    People,       \* declared login -> [kind, left, owner]: kind of person, declared as left, expected owner
    Production,   \* the repositories declared deploys_to: production; the others are declared for another use
    Organizations,\* what an organization may hold
    Cuts          \* how its listings may end early: [at, kept, early]

(* Every login is someone's, "-" no one's; a repository is an asset of its *)
(* own; an organization is finite.                                         *)
ASSUME AccessAssumption ==
    \A o \in Organizations :
        /\ o.mfa \in BOOLEAN
        /\ IsFiniteSet(o.owners) /\ IsFiniteSet(o.members)
        /\ "-" \notin DOMAIN People \cup o.owners \cup o.members /\ "org" \notin DOMAIN o.repos

VARIABLES
    org,      \* what the organization holds
    seen      \* Evidence: what was read of it
accessVars == <<org, seen>>

Org == "org"
PersonFor(a) == a \in DOMAIN People
KindOf(a) == IF PersonFor(a) THEN People[a].kind ELSE "undeclared"
Judgment(id, asset, subject, v) == [id |-> id, asset |-> asset, subject |-> subject, verdict |-> v]
Settle(fires, known) == IF ~known THEN "abstained" ELSE IF fires THEN "fired" ELSE "disproved"

(* EffectiveAdmin and EffectiveWrite: [yes, known] from a role and the     *)
(* permission fields returned, "?" where one is missing; a contradiction   *)
(* between them is not known.                                              *)
ReadRoles == {"read", "triage"}
WriteRoles == {"write", "maintain"}
Unknown == [yes |-> FALSE, known |-> FALSE]
EffectiveAdmin(k) ==
    LET lower == {k.pull, k.push, k.maintain} IN
    CASE k.admin = "t" -> [yes |-> TRUE, known |-> "f" \notin lower /\ k.role \notin ReadRoles \cup WriteRoles]
      [] k.admin = "f" /\ k.role \in ReadRoles -> [yes |-> FALSE, known |-> k.pull = "t" /\ k.push = "f" /\ k.maintain = "f"]
      [] k.admin = "f" /\ k.role = "write" -> [yes |-> FALSE, known |-> k.pull = "t" /\ k.push = "t" /\ k.maintain = "f"]
      [] k.admin = "f" /\ k.role = "maintain" -> [yes |-> FALSE, known |-> k.pull = "t" /\ k.push = "t" /\ k.maintain = "t"]
      [] OTHER -> Unknown
EffectiveWrite(k) ==
    CASE EffectiveAdmin(k) = [yes |-> TRUE, known |-> TRUE] -> [yes |-> TRUE, known |-> TRUE]
      [] "t" \in {k.push, k.maintain} ->
           [yes |-> TRUE, known |-> k.pull # "f" /\ ~(k.maintain = "t" /\ k.push = "f") /\ k.role \notin ReadRoles]
      [] k.admin = "f" /\ k.push = "f" /\ k.maintain = "f" -> [yes |-> FALSE, known |-> k.role \notin WriteRoles \cup {"admin"}]
      [] OTHER -> Unknown

(* interpretPermission: what a permission answer establishes.  answer is   *)
(* "unsent", "failed", "missing" (404), "admin", "write", "read", "none"   *)
(* or "odd"; a writing answer on an archived repository settles nothing.   *)
InterpretPermission(answer, repo) ==
    CASE answer = "admin" -> "write"
      [] answer = "write" -> IF repo.archived THEN "unknown" ELSE "write"
      [] answer = "read" /\ repo.private -> "read"
      [] answer \in {"read", "none"} -> "none"
      [] OTHER -> "unknown"

-----------------------------------------------------------------------------
(* withDisabledAccounts: an account of the disabled filter is a member     *)
(* whatever the unfiltered listing reached, which is then not complete.    *)
WithDisabled(base, disabled) ==
    IF disabled.items \subseteq base.items THEN base
    ELSE [base EXCEPT !.items = @ \cup disabled.items, !.whole = FALSE, !.late = @ /\ disabled.late]
Merged(e) ==
    IF ~e.authority THEN e
    ELSE [e EXCEPT !.owners = WithDisabled(@, e.ownersNoMFA), !.members = WithDisabled(@, e.membersNoMFA)]

(* leftAt: a leaving date is passed only when every read used was after it. *)
LeftPassed(a, pops) == People[a].left /\ \A p \in pops : p.late

Unattributed(asset, a, whole) ==
    Judgment("unattributed", asset, a, Settle(~PersonFor(a), DOMAIN People # {} /\ (~PersonFor(a) \/ whole)))

OwnerJudgments(e, a) ==
    LET noMFA == a \in e.ownersNoMFA.items
        unexpected == CASE ~PersonFor(a) -> "abstained"
                        [] PersonFor(a) /\ People[a].left /\ e.owners.late -> "abstained"
                        [] OTHER -> Settle(~People[a].owner, ~People[a].owner \/ e.owners.whole)
        ofKind(k) == IF PersonFor(a) THEN Settle(KindOf(a) = k, KindOf(a) = k \/ e.owners.whole) ELSE "abstained"
    IN  {Judgment("owner_mfa", Org, a, Settle(noMFA, e.authority /\ (noMFA \/ (e.owners.whole /\ e.ownersNoMFA.whole)))),
         Judgment("unexpected", Org, a, unexpected),
         Unattributed(Org, a, e.owners.whole),
         Judgment("external", Org, a, ofKind("contractor")),
         Judgment("shared", Org, a, ofKind("shared"))}

MemberJudgment(e, a) ==
    LET noMFA == a \in e.membersNoMFA.items IN
    Judgment("member_mfa", Org, a,
             Settle(noMFA, e.authority /\ e.owners.whole /\ (noMFA \/ (e.members.whole /\ e.membersNoMFA.whole))))

(* ownerCount: service accounts and two break-glass ones are not counted.  *)
OwnerCount(e) ==
    LET kinds(k) == {a \in e.owners.items : KindOf(a) = k}
        spared == IF Cardinality(kinds("break_glass")) > 2 THEN 2 ELSE Cardinality(kinds("break_glass"))
        n == Cardinality(e.owners.items \ kinds("service")) - spared
        humans == Cardinality({a \in e.members.items : KindOf(a) # "service"})
        full == e.owners.whole /\ e.members.whole
    IN  Judgment("too_many", Org, "-", Settle(n > 3 \/ (full /\ n >= 3 /\ n * 3 > humans), n > 3 \/ full))

(* formerJudgments: a presence is judged at the reads that listed the      *)
(* account, an absence over every population, and a permission answer only *)
(* fires.                                                                  *)
Populations(e) == {e.members, e.owners, e.outside, e.invited} \cup {e.repos[r].list : r \in DOMAIN e.repos}
FormerJudgments(e, a) ==
    LET held == {p \in {e.members, e.owners, e.outside} : a \in p.items}
        on == {r \in DOMAIN e.repos : a \in e.repos[r].list.items}
        full == ~e.unread /\ \A p \in Populations(e) : p.whole
        access(asset, present, at) ==
            Judgment("former", asset, a, IF LeftPassed(a, at) THEN Settle(present, present \/ full) ELSE "abstained")
        answered == {r \in DOMAIN e.repos : /\ held = {} /\ on = {}
                                            /\ InterpretPermission(e.perms[r][a], e.repos[r]) \in {"write", "read"}}
    IN  (IF held # {} THEN {access(Org, TRUE, held)} ELSE {})
          \cup {access(r, TRUE, {e.repos[r].list}) : r \in on}
          \cup {access(r, TRUE, {}) : r \in answered}
          \cup (IF held = {} /\ on = {} /\ answered = {} THEN {access(Org, FALSE, Populations(e))} ELSE {})
          \cup {Judgment("invited", Org, a,
                    IF LeftPassed(a, {e.invited}) THEN Settle(a \in e.invited.items, a \in e.invited.items \/ e.invited.whole)
                    ELSE "abstained")}

RepositoryJudgments(e, r) ==
    LET repo == e.repos[r]
        admin(a) == EffectiveAdmin(repo.roles[a])
        outside(a) == a \in e.outside.items
        fire(a) == outside(a) /\ admin(a).known /\ admin(a).yes /\ r \in Production
        negative(a) == outside(a) /\ repo.list.whole /\ e.outside.whole
                       /\ (r \notin Production \/ (admin(a).known /\ ~admin(a).yes))
    IN  {Judgment("public", r, "-", Settle(repo.public /\ ~repo.declaredPublic, repo.read))}
          \cup {Judgment("deploy_key", r, "-",
                    Settle("rw" \in repo.keys.items, "rw" \in repo.keys.items \/ repo.keys.whole))}
          \cup {Unattributed(r, a, repo.list.whole) :
                    a \in {b \in repo.list.items : r \in Production /\ admin(b).known /\ admin(b).yes}}
          \cup {Judgment("outside_admin", r, a, Settle(fire(a), fire(a) \/ negative(a))) : a \in repo.list.items}

(* inventoryPublic: the repository list only fires. *)
InventoryPublic(e) ==
    {Judgment("public", r, "-", "fired") : r \in {q \in e.listed.items : ~e.repos[q].read /\ ~e.repos[q].declaredPublic}}

(* The empty populations: an id with no judgment is settled or abstained. *)
Gaps(e, out) ==
    LET gap(id, known) == IF \E j \in out : j.id = id THEN {} ELSE {Judgment(id, Org, "-", Settle(FALSE, known))} IN
    gap("owner_mfa", e.authority /\ e.owners.whole /\ e.ownersNoMFA.whole)
      \cup gap("member_mfa", e.authority /\ e.members.whole /\ e.owners.whole /\ e.membersNoMFA.whole)
      \cup gap("unexpected", e.owners.whole) \cup gap("external", e.owners.whole) \cup gap("shared", e.owners.whole)
      \cup gap("unattributed", DOMAIN People # {} /\ e.owners.whole /\ ~e.unread
                               /\ \A r \in Production \cap DOMAIN e.repos : e.repos[r].list.whole)

JudgeAccess(raw) ==
    LET e == Merged(raw)
        out == {Judgment("mfa_required", Org, "-", Settle(~e.mfa, e.authority /\ e.orgRead)), OwnerCount(e)}
                 \cup (UNION {OwnerJudgments(e, a) : a \in e.owners.items})
                 \cup {MemberJudgment(e, a) : a \in e.members.items \ e.owners.items}
                 \cup (UNION {FormerJudgments(e, a) : a \in {b \in DOMAIN People : People[b].left}})
                 \cup (UNION {RepositoryJudgments(e, r) : r \in DOMAIN e.repos})
                 \cup InventoryPublic(e)
    IN  out \cup Gaps(e, out)

-----------------------------------------------------------------------------
(* population: pages are read until one says there is no more; a page that *)
(* cannot be used, an item it does not recognise or the page limit leaves  *)
(* what was listed so far, not complete.  A listing is complete only with  *)
(* the membership that lets the credential see it all, so never for a      *)
(* repository's collaborators or the repository list.                      *)
PopulationUncut(items, cut, visible, name) ==
    [items |-> IF visible /\ name \notin cut.at THEN items ELSE items \cap cut.kept, whole |-> visible, late |-> name \notin cut.early]
Population(items, cut, visible, name) ==
    LET whole == visible /\ name \notin cut.at IN
    [items |-> IF whole THEN items ELSE items \cap cut.kept, whole |-> whole, late |-> name \notin cut.early]

(* Collect, collectMFA and CollectRepositories' access kind: a repository  *)
(* named in the cut has no object read.  A permission is asked only when   *)
(* the leaving date had passed at every read.                              *)
CollectedAs(authority, o, cut) ==
    LET member == authority \in {"member", "owner"}
        owner == authority = "owner"
    IN  [authority |-> owner, orgRead |-> "organization" \notin cut.at, mfa |-> o.mfa,
         owners |-> Population(o.owners, cut, member, "owners"),
         members |-> Population(o.members, cut, member, "members"),
         ownersNoMFA |-> Population(IF owner THEN o.owners \cap o.noMFA ELSE {}, cut, owner, "ownersNoMFA"),
         membersNoMFA |-> Population(IF owner THEN o.members \cap o.noMFA ELSE {}, cut, owner, "membersNoMFA"),
         outside |-> Population(o.outside, cut, owner, "outside"),
         invited |-> Population(o.invited, cut, owner, "invited"),
         listed |-> Population({r \in DOMAIN o.repos : o.repos[r].public}, cut, FALSE, "listed"),
         unread |-> \E r \in DOMAIN o.repos : r \in cut.at,
         repos |-> [r \in DOMAIN o.repos |->
             [read |-> r \notin cut.at, public |-> o.repos[r].public, declaredPublic |-> o.repos[r].declaredPublic,
              archived |-> o.repos[r].archived, private |-> ~o.repos[r].public, roles |-> o.repos[r].roles,
              list |-> Population(IF r \in cut.at THEN {} ELSE DOMAIN o.repos[r].roles, cut, FALSE, "list"),
              keys |-> Population(IF r \in cut.at THEN {} ELSE o.repos[r].keys, cut, r \notin cut.at, "keys")]],
         perms |-> [r \in DOMAIN o.repos |-> [a \in DOMAIN People |-> IF cut.early = {} THEN o.answers ELSE "unsent"]]]
Collected(o, cut) == CollectedAs(o.authority, o, cut)

NotRead == [authority |-> "unread"]
AccessInit == org \in Organizations /\ seen = NotRead
AccessNext == /\ seen = NotRead
              /\ \E cut \in Cuts : seen' = Collected(org, cut)
              /\ UNCHANGED org

(* What the whole listings say, read when these were: a population that    *)
(* was read too early for the leaving dates is so too when it is whole.    *)
Held(o) == o.owners \cup o.members \cup o.outside \cup o.invited \cup DOMAIN o.repos \cup (UNION {DOMAIN o.repos[r].roles : r \in DOMAIN o.repos})
Early(e) == {n \in {"owners", "members", "outside", "invited"} : ~e[n].late} \cup {"list" : r \in {q \in DOMAIN e.repos : ~e.repos[q].list.late}}
Whole(o, e) == CollectedAs("owner", o, [at |-> {}, kept |-> Held(o), early |-> Early(e)])

(* A finding stands: on the whole the rule fires of the same subject, if   *)
(* for a former person perhaps elsewhere in the organization; or it does   *)
(* not tell, because a listing that was cut or the one that filtered       *)
(* it came too early for a leaving date that counts.                       *)
Timely(e) == \A n \in {"owners", "members", "outside", "ownersNoMFA", "membersNoMFA"} : e[n].late
Stands(j, whole, timely) ==
    \E k \in whole :
        /\ k.id = j.id /\ k.subject = j.subject
        /\ j.id = "former" \/ k.asset = j.asset
        /\ \/ k.verdict = "fired"
           \/ k.verdict = "abstained" /\ j.id \in {"former", "unexpected"} /\ ~timely

(* An incomplete population proves presence, never absence: what fires or  *)
(* is disproved on listings that ended early is so on the whole ones, and  *)
(* a rule disproved for want of a subject has none that fires              *)
(* (collector/github/rules.go, JudgeAccess).                               *)
AccessLossSafe ==
    seen # NotRead =>
        LET whole == JudgeAccess(Whole(org, seen))
        IN  \A j \in JudgeAccess(seen) :
              /\ j.verdict = "fired" => Stands(j, whole, Timely(seen))
              /\ j.verdict = "disproved" =>
                   ~\E k \in whole : /\ k.id = j.id /\ k.verdict = "fired"
                                     /\ (j.subject = "-" \/ j.subject = k.subject)
                                     /\ (j.asset = Org \/ j.asset = k.asset)
=============================================================================
