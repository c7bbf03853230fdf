------------------------------ MODULE MCReads -------------------------------
(* What may be read, and what is read next: a behaviour is a lookup of the *)
(* gate's DNS client, the discovery of a root's names, Check's selection   *)
(* of repositories, the permission follow-up, the scope decision on a web  *)
(* request, the excluded users of a tenant, or the interview that writes   *)
(* the engagement file.                                                    *)
EXTENDS Dns, Discovery, Selection, FollowUp, Scope, Exclusion, Interview

VARIABLE part    \* which of them this behaviour is

C(rank, declared, notAfter, excluded, evidence) ==
    [rank |-> rank, declared |-> declared, notAfter |-> notAfter, excluded |-> excluded, evidence |-> evidence]
Pool == {C(1, FALSE, 3, FALSE, FALSE), C(2, FALSE, 2, FALSE, FALSE), C(3, FALSE, 1, FALSE, TRUE),
         C(4, FALSE, 1, FALSE, FALSE), C(5, TRUE, 0, FALSE, FALSE), C(6, TRUE, 3, TRUE, FALSE),
         C(7, FALSE, 2, TRUE, FALSE)}
MCCandidateSets == {cs \in SUBSET Pool : Cardinality(cs) = 3 /\ C(4, FALSE, 1, FALSE, FALSE) \notin cs} \cup {Pool \ {C(1, FALSE, 3, FALSE, FALSE), C(6, TRUE, 3, TRUE, FALSE), C(7, FALSE, 2, TRUE, FALSE)}}

MCTargetLists == {<<"include", "mx">>, <<"include", "redirect">>, <<"redirect">>}

(* Repositories of every way a tier is earned; the budget runs out among   *)
(* four of them.                                                           *)
R(name, deploys, declared, public, archived, pushed) ==
    [name |-> name, deploys |-> deploys, declared |-> declared, public |-> public, archived |-> archived, pushed |-> pushed,
     store |-> name = 2, matters |-> name = 6]
Repositories == {R(1, "production", TRUE, FALSE, FALSE, 1), R(2, "none", FALSE, TRUE, FALSE, 2), R(3, "none", FALSE, TRUE, FALSE, 0),
                 R(4, "none", TRUE, FALSE, TRUE, 1), R(5, "none", FALSE, FALSE, TRUE, 3), R(6, "none", FALSE, FALSE, FALSE, 1),
                 R(7, "staging", TRUE, FALSE, FALSE, 0), R(8, "none", FALSE, FALSE, FALSE, 1)}
MCRepositorySets == {rs \in SUBSET Repositories : Cardinality(rs) = 3}

L(name, root, rank) == [name |-> name, root |-> root, rank |-> rank]
MCLeavers == {L("al", 1, 1), L("cy", 2, 2)}
MCRepos == <<[name |-> "web", root |-> 1], [name |-> "api", root |-> 1], [name |-> "ops", root |-> 2], [name |-> "dev", root |-> 2]>>

(* Locators over a root domain, a name under it and one elsewhere, a       *)
(* public, a private and a NAT64 form of the public address.               *)
MCAbove == [ex |-> {"ex"}, shop |-> {"shop", "ex"}, cdn |-> {"cdn"}]
MCCarries == [a4 |-> "a4", p4 |-> "p4", n6 |-> "a4", m4 |-> "m4"]
MCClass == [a4 |-> "public", p4 |-> "not_public", n6 |-> "not_public", m4 |-> "never"]
P(segs, slash) == [segs |-> segs, slash |-> slash]
Ref(kind, host, net, scheme, port, path) == [kind |-> kind, host |-> host, net |-> net, scheme |-> scheme, port |-> port, path |-> path]
Place(kind, host) == Ref(kind, host, IF host \in DOMAIN MCCarries THEN {host} ELSE {}, "", 0, Slash)
Net(net) == Ref("network", "", net, "", 0, Slash)
Url(scheme, host, port, path) == Ref("url", host, IF host \in DOMAIN MCCarries THEN {host} ELSE {}, scheme, port, path)
App == P(<<"app">>, FALSE)
AppSlash == P(<<"app">>, TRUE)
MCRoots == {{Place("domain", "ex")}, {Place("domain", "ex"), Net({"p4"}), Net({"n6"})}, {Place("domain", "ex"), Url("https", "shop", 0, AppSlash)},
            {Place("host", "shop"), Net({"a4"})}}
MCExcludes == {{}} \cup {{x} : x \in {Place("domain", "cdn"), Place("host", "shop"), Place("host", "a4"), Place("host", "n6"), Net({"a4", "p4"}),
                                   Url("https", "shop", 0, AppSlash), Url("https", "shop", 443, Slash), Url("http", "cdn", 0, Slash)}}
To(name, addrs) == [name |-> name, addrs |-> addrs]
Confirm(ref, target, current) == [ref |-> ref, target |-> target, current |-> current]
MCConfirmed == {<<>>, <<Confirm(Place("domain", "shop"), To("cdn", {}), TRUE)>>,
                <<Confirm(Url("https", "shop", 8080, App), To("", {"a4"}), TRUE), Confirm(Place("domain", "shop"), To("", {"a4"}), FALSE)>>,
                <<Confirm(Url("https", "shop", 0, App), To("", {"a4"}), TRUE), Confirm(Place("host", "shop"), To("cdn", {}), TRUE)>>}
MCFiles == {[roots |-> r, exclude |-> x, confirmed |-> c, declared |-> {Url("https", "shop", 0, P(<<"app", "in">>, FALSE))},
             intent |-> {Url("http", "shop", 0, App)}] : r \in MCRoots, x \in MCExcludes, c \in MCConfirmed}
MCAsks == {[asset |-> a, url |-> Url(o[1], o[2], o[3], p)] : a \in {Place("domain", "ex"), Place("host", "shop"), Net({"a4"})},
             o \in {<<"https", "shop", 0>>, <<"http", "shop", 0>>, <<"http", "shop", 443>>, <<"https", "shop", 8080>>, <<"https", "a4", 0>>},
             p \in {Slash, App, AppSlash, P(<<"app", "in">>, FALSE), P(<<"robots">>, FALSE)}}
MCLookups == {[chain |-> c, addrs |-> n] : c \in {<<>>, <<"cdn">>}, n \in {{"a4"}, {"n6"}, {"p4", "n6"}, {"a4", "p4"}, {"m4"}}}

(* Three accounts: one excluded, one nobody placed, one kept whose number  *)
(* the excluded one gives as a contact.                                    *)
MCUnitOf == [board |-> "excluded", odd |-> "unknown", staff |-> "kept"]
MCIds == [board |-> {"1", "b@t"}, odd |-> {"2"}, staff |-> {"3", "s@two"}]
MCContacts == [board |-> {"b@home"}, odd |-> {"o@two"}, staff |-> {"s@home"}]
MCKeyDomain == [k \in {"1", "2", "3", "b@t", "s@two", "b@home", "o@two", "s@home"} |->
                  CASE k \in {"1", "2", "3"} -> "number" [] k = "b@t" -> "t" [] k \in {"s@two", "o@two"} -> "two" [] OTHER -> "home"]

(* Four interviews: from no file; of a file that sets hosts aside; of one  *)
(* with people and tenants; of one with servers, piped rather than typed.  *)
MCPlaceKind == [ex |-> "domain", www |-> "url", ws |-> "workspace", gh |-> "github", shop |-> "repo", pay |-> "repo", h1 |-> "host", h2 |-> "host"]
MCOver == [ex |-> {"ex"}, www |-> {"www", "ex"}, ws |-> {"ws"}, gh |-> {"gh"}, shop |-> {"shop", "gh"}, pay |-> {"pay", "gh"}, h1 |-> {"h1"}, h2 |-> {"h2"}]
Nobody == [x \in {} |-> {}]
EmptyFile == [head |-> {}, roots |-> <<>>, exclude |-> {}, senders |-> {}, noMail |-> {}, people |-> Nobody, admins |-> Nobody,
              assets |-> Nobody, mfa |-> <<>>, exposed |-> {}, restricted |-> {}, matters |-> {}, notUsed |-> <<>>]
Headed == [EmptyFile EXCEPT !.head = HeadQuestions]
PlacesSaid(s) == [i \in DOMAIN s |-> [place |-> s[i]]]
Talk(file0, replies, terminal) ==
    [found |-> file0, terminal |-> terminal, replies |-> [q \in ToSet(Questions) |-> IF q \in DOMAIN replies THEN replies[q] ELSE {}]]
Lines(s) == [i \in DOMAIN s |-> [field |-> s[i][1], value |-> s[i][2]]]
Prose == <<"", "the rest is as before">>
NoField == <<Lines(<<Prose>>)>>
Al == Lines(<< <<"handle", "al">>, <<"kind", "shared">>, <<"kind", "employee">>, Prose, <<"workspace", "al">>, <<"github", "al">>, <<"surname", "li">> >>)
Team == Lines(<< <<"handle", "team">>, <<"kind", "shared">>, <<"usedBy", {"ed"}>>, <<"usedBy", {"al"}>>, <<"workspace", "team">> >>)
Odd == Lines(<< <<"handle", "odd">>, <<"kind", "employee">>, <<"github", "al">> >>)
Broken(handle) == Lines(<< <<"handle", handle>>, <<"kind", "shared">>, <<"kind", Malformed>> >>)
Gone(handle) == Lines(<< <<"handle", handle>> >>)
Owners(where, handles) == Lines(<< <<"where", where>>, <<"handles", handles>> >>)
Deploys(name, repo, to) == Lines(<< <<"name", name>>, <<"repo", repo>>, <<"to", to>> >>)
Tenant2(where, enforced) == Lines(<< <<"where", where>>, <<"enforced", Malformed>>, <<"enforced", enforced>> >>)
SignIn(where, how) == Lines(<< <<"where", where>>, <<"signIn", how>> >>)
Address(url) == Lines(<< <<"url", url>> >>)
Reach(name, host) == Lines(<< <<"name", name>>, <<"host", host>> >>)
Server(name, exposure, ports) == Lines(<< <<"name", name>>, Prose >> \o exposure \o [i \in DOMAIN ports |-> <<"ports", ports[i]>>])
Exposed(exposure) == << <<"exposure", exposure>> >>
MCInterviews == {
    Talk(EmptyFile, [trigger |-> {<<[v |-> "audit"]>>}, name |-> {<<[v |-> "q4"]>>, <<Malformed>>}, operator |-> {<<[v |-> "ops"]>>}, timezone |-> {<<[v |-> "utc"]>>},
                     roots |-> {PlacesSaid(<<"ex", "gh">>), PlacesSaid(<<"ex", "ex">>), <<[place |-> "ex"], Malformed>>},
                     exclude |-> {PlacesSaid(<<"www">>), PlacesSaid(<<"ex">>)},
                     mail |-> {<<[sends |-> TRUE, domain |-> "ex"]>>, <<[sends |-> TRUE, domain |-> "ex"], [sends |-> FALSE, domain |-> "ex"]>>},
                     exposed |-> {<<Address("www")>>, NoField}, restricted |-> {<<Address("www")>>}], TRUE),
    Talk([Headed EXCEPT !.roots = <<"ex">>, !.notUsed = <<"hosts", "external">>],
         [reach |-> {<<Reach("box", "h1")>>}, exclude |-> {PlacesSaid(<<"www">>)}, exposed |-> {<<Address("www")>>}], TRUE),
    Talk([Headed EXCEPT !.roots = <<"ws", "gh">>],
         [people |-> {<<Al>>, <<Team, Al>>, <<Al, Odd>>, <<Team, Broken("al")>>, NoField}, left |-> {<<Gone("al")>>, <<Gone("team"), Gone("ed")>>},
          admins |-> {<<Owners("ws", {"al"})>>, <<Owners("ws", {"al"}), Owners("gh", {"team"})>>},
          deploys |-> {<<Deploys("shop", "shop", "production")>>},
          mfa |-> {<<Tenant2("ws", "everyone"), Tenant2("gh", "some")>>, <<Tenant2("ws", "some"), Tenant2("ws", "everyone")>>},
          mfa_sign_in |-> {<<SignIn("ws", "google")>>, <<SignIn("ws", "google"), SignIn("gh", "google")>>},
          matters_most |-> {<<[new |-> TRUE, asset |-> "pay", repo |-> "pay"], [new |-> FALSE, asset |-> "shop"]>>, <<[new |-> FALSE, asset |-> "gh"], [new |-> TRUE, asset |-> "shop", repo |-> "pay"], [new |-> TRUE, asset |-> "pay", repo |-> "pay"]>>},
          not_used |-> {<<[area |-> "hosts"], [area |-> "cloud"]>>, <<[area |-> "hosts"], [area |-> "cicd"]>>}], TRUE)}
    \cup {Talk([Headed EXCEPT !.roots = <<"gh", "h1">>, !.notUsed = unused],
         [deploys |-> {<<Deploys("box", "shop", "staging")>>},
          reach |-> {<<Reach("box", "h1")>>, <<Reach("box", "h1"), Reach("box", "h2")>>, <<Reach("box", "h1"), Reach("two", "h2")>>, <<Reach("box", "h2"), Gone("box")>>},
          context |-> {<<Server("box", Exposed("lan") \o Exposed("vpn"), <<22, 80>>)>>, <<Server("box", Exposed("vpn"), <<22>>), Server("box", <<>>, <<443>>)>>,
                       <<Server("box", Exposed("internet"), <<22>>), Server("box", Exposed("lan"), <<22>>)>>, <<Server("box", Exposed("vpn"), <<22, 22>>)>>,
                       <<Server("two", Exposed("internet"), <<>>)>>},
          matters_most |-> {<<[new |-> FALSE, asset |-> "box"]>>, <<[new |-> FALSE, asset |-> "box"], [new |-> FALSE, asset |-> "box"]>>},
          not_used |-> {<<[area |-> "external"]>>, <<[area |-> "cicd"]>>}], terminal) : unused \in {<<>>, <<"external">>}, terminal \in BOOLEAN}

ScopeOff == file = "off" /\ ask = "off" /\ asked = "off" /\ found = Unresolved /\ suspended = {} /\ granted = "no"
Off == [off |-> TRUE]
MCInit == /\ part \in {"lookup", "follow", "discovery", "selection", "followup", "scope", "exclusion", "interview"}
          /\ DnsInit
          /\ IF part # "discovery" THEN disc = [pc |-> "off", control |-> "none"] /\ names = <<>> ELSE DiscInit
          /\ IF part # "selection" THEN sel = NoSelection ELSE SelInit
          /\ IF part # "followup" THEN fuGiven = Off /\ fu = [recorded |-> <<>>, over |-> TRUE] ELSE FuInit
          /\ IF part # "scope" THEN ScopeOff ELSE ScopeInit
          /\ IF part # "exclusion" THEN unitExcluded = FALSE /\ pages = {} /\ users = NewUserSet /\ stored = {} /\ saw = {} ELSE ExclusionInit
          /\ IF part # "interview" THEN talk = [found |-> Off] /\ draft = Off /\ disk = Off /\ at = 0 /\ accepted = <<>> /\ typed = <<>> ELSE InterviewInit
MCNext == /\ UNCHANGED part
          /\ \/ part = "lookup" /\ LookupNext /\ UNCHANGED <<discVars, selVars, fuVars, scopeVars, exclusionVars, interviewVars>>
             \/ part = "follow" /\ FollowNext /\ UNCHANGED <<discVars, selVars, fuVars, scopeVars, exclusionVars, interviewVars>>
             \/ part = "discovery" /\ DiscNext /\ UNCHANGED <<dnsVars, selVars, fuVars, scopeVars, exclusionVars, interviewVars>>
             \/ part = "selection" /\ SelNext /\ UNCHANGED <<dnsVars, discVars, fuVars, scopeVars, exclusionVars, interviewVars>>
             \/ part = "followup" /\ FuNext /\ UNCHANGED <<dnsVars, discVars, selVars, scopeVars, exclusionVars, interviewVars>>
             \/ part = "scope" /\ ScopeNext /\ UNCHANGED <<dnsVars, discVars, selVars, fuVars, exclusionVars, interviewVars>>
             \/ part = "exclusion" /\ ExclusionNext /\ UNCHANGED <<dnsVars, discVars, selVars, fuVars, scopeVars, interviewVars>>
             \/ part = "interview" /\ InterviewNext /\ UNCHANGED <<dnsVars, discVars, selVars, fuVars, scopeVars, exclusionVars>>
MCSpec == /\ MCInit /\ [][MCNext]_<<part, dnsVars, discVars, selVars, fuVars, scopeVars, exclusionVars, interviewVars>>
          /\ DnsFairness /\ WF_fuVars(part = "followup" /\ FuNext)

(* Every lookup and every round of follow-ups comes to its end, the rounds *)
(* with each pair settled (gate/dns.go chase, followup.go                  *)
(* followPermissions).                                                     *)
ReadsEnd == LookupEnds /\ FollowUpsEnd
=============================================================================
