------------------------------- MODULE MCGate -------------------------------
(* Small instances of the gate: calls either to lists of one organization, *)
(* racing for the next page, or to a site with redirects and probes; and a *)
(* resume whose answers were recorded under one account.                   *)
EXTENDS Gate, TLC

CONSTANTS a, b, c, org, site, repo, home, away, hidden, deep, alice, mallory

GitHubOp(class) == [provider |-> "github", class |-> class, auth |-> TRUE, level |-> "observe"]
WebOp(level) == [provider |-> "web", class |-> "get", auth |-> FALSE, level |-> level]

MCOpCalls  == ("repos" :> GitHubOp("list")) @@ ("page" :> WebOp("observe")) @@ ("probe" :> WebOp("probe"))
MCOpResume == ("user" :> GitHubOp("principal")) @@ ("repo" :> GitHubOp("get"))

MCPlace == [s \in Subjects |->
    IF s = away THEN "out_of_scope" ELSE IF s = hidden THEN "excluded"
    ELSE IF s = deep THEN "entry_point" ELSE "in"]
MCUnder == [s \in Subjects |-> IF s = repo THEN {org} ELSE {site}]
MCPrior == {<<"repo", repo, alice>>}
Symmetry == Permutations(Sends)

(* The calls of a behaviour are all to the organization, whose deadline    *)
(* may pass, or all to the site, whose window may end or run be canceled,  *)
(* for at most WebIds requests.                                            *)
CONSTANT WebIds
VARIABLE caller
Fits ==
    /\ \A s \in Sends : req'[s] # None /\ req[s] = None =>
          IF caller = "list" THEN req'[s].op = "repos" /\ req'[s].asset = org /\ req'[s].subject = repo
          ELSE req'[s].op # "repos" /\ req'[s].asset = site /\ req'[s].subject # repo
    /\ IF caller = "list" THEN ~over' /\ ~canceled' ELSE ~deadline' /\ seq' <= WebIds
CallsInit == caller \in {"list", "web"} /\ Init
CallsSpec == CallsInit /\ [][Next /\ UNCHANGED caller /\ Fits]_<<vars, caller>>
ResumeInit == caller = "list" /\ Init
ResumeSpec == ResumeInit /\ [][Next /\ UNCHANGED caller]_<<vars, caller>> /\ Fairness
=============================================================================
