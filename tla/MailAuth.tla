------------------------------ MODULE MailAuth ------------------------------
(***************************************************************************)
(* The mail rules of the web collector (collector/web: web.go, spf.go,     *)
(* dmarc.go, dkim.go, email.go): which records of a mail domain are read,  *)
(* and what each rule says of them.  A record is reduced to what the rules *)
(* tell apart; what a zone publishes, and which read fails, is input.      *)
(*                                                                         *)
(* An SPF node is what one TXT read gave: read ("ok", "lost" when it said  *)
(* nothing, "none" when it was not sent), void, recs (how many v=spf1      *)
(* records), marked, invalid, and the terms of its one record.  A term has *)
(* a name, a sign, whether it is broad, the service an include maps to,    *)
(* and the node its target's read gave.                                    *)
(***************************************************************************)
EXTENDS Naturals, Sequences, SequencesExt

CONSTANTS
    Zones,       \* what mail domains may publish
    Losses,      \* how many SPF reads succeed before one fails
    MaxLookups   \* SPF's limit of DNS-querying terms

VARIABLES
    zone,     \* what the mail domain publishes, and what the operator declared
    mail      \* MailEvidence: what was read of it, "unread" before
mailVars == <<zone, mail>>

NoNode == [read |-> "none"]
LostNode == [read |-> "lost"]
Follows(t) == t.name \in {"include", "redirect"}

(* parseSPF: mechanisms stop at all, and redirect counts only without it. *)
Parsed(terms) ==
    LET alls == {k \in DOMAIN terms : terms[k].name = "all"}
        mechs == SelectSeq(terms, LAMBDA t : t.name # "redirect")
        cut == SelectInSeq(mechs, LAMBDA t : t.name = "all")
    IN  IF alls = {} THEN mechs \o SelectSeq(terms, LAMBDA t : t.name = "redirect")
        ELSE SubSeq(mechs, 1, cut)
Lookups(terms) == Len(SelectSeq(terms, LAMBDA t : t.name \in {"a", "include", "redirect", "macro"}))

(* collector.spf: depth first in the order written, counting DNS-querying  *)
(* terms, stopping past the limit and at the first read that says nothing. *)
RECURSIVE Gather(_, _)
GatherTerm(acc, t) ==
    LET put(node, st) == [terms |-> Append(acc.terms, [t EXCEPT !.child = node]), st |-> st] IN
    IF ~Follows(t) THEN [acc EXCEPT !.terms = Append(@, t)]
    ELSE IF acc.st.stop \/ acc.st.count > MaxLookups THEN put(NoNode, [acc.st EXCEPT !.stop = TRUE])
    ELSE IF acc.st.left = 0 THEN put(LostNode, [acc.st EXCEPT !.stop = TRUE])
    ELSE LET n == IF t.child.recs = 1 THEN Lookups(t.child.terms) ELSE 0
             g == Gather(t.child, [acc.st EXCEPT !.left = @ - 1, !.count = @ + n])
         IN  put(g.node, g.st)
Gather(node, st) ==
    IF node.recs # 1 \/ node.invalid
    THEN [node |-> [node EXCEPT !.terms = <<>>], st |-> st]
    ELSE LET g == FoldLeft(GatherTerm, [terms |-> <<>>, st |-> st], node.terms)
         IN  [node |-> [node EXCEPT !.terms = g.terms], st |-> g.st]
SpfRead(node, left) ==
    IF left = 0 THEN LostNode
    ELSE Gather(node, [left |-> left - 1, count |-> Lookups(node.terms), stop |-> FALSE]).node

-----------------------------------------------------------------------------
(* inspectSPF.  A path: whether some sender may pass, whether every one    *)
(* does, and whether nothing unknown or wrong was met on the way.          *)
NoPath == [canPass |-> FALSE, universal |-> FALSE, valid |-> FALSE]
FreshSpf == [known |-> TRUE, denyAll |-> FALSE, authorizes |-> FALSE, complete |-> TRUE, broad |-> FALSE, pathUnknown |-> FALSE,
             error |-> FALSE, count |-> 0, voids |-> 0, services |-> {}, unmapped |-> FALSE]

(* A subtree that was not read, or said nothing, leaves the tree incomplete. *)
MissedQuietly(s) == s
Missed(s) == [s EXCEPT !.complete = FALSE]

RECURSIVE Walk(_, _, _, _)
Counted(s, t) == IF t.name \in {"a", "include", "redirect", "macro"} THEN [s EXCEPT !.count = @ + 1] ELSE s

(* A term with no child: w is the loop's state, s the inspection. *)
PlainTerm(w, t, positive) ==
    LET s == [w.s EXCEPT !.broad = @ \/ (positive /\ (t.name = "all" \/ t.broad)),
                         !.unmapped = @ \/ (w.compare /\ w.allows /\ t.positive /\ t.name = "ip")]
        r == [w.result EXCEPT !.canPass = @ \/ (w.remaining /\ t.positive),
                              !.universal = IF t.name = "all" THEN w.remaining /\ t.positive /\ w.onlyPositive ELSE @]
    IN  [w EXCEPT !.s = s, !.result = r, !.over = t.name = "all",
                  !.remaining = IF t.name # "all" /\ ~t.positive THEN FALSE ELSE @,
                  !.onlyPositive = IF t.name # "all" /\ ~t.positive THEN FALSE ELSE @]

(* An include or redirect: its child's path (c) decides what can be        *)
(* concluded of the terms after it.                                        *)
AfterChild(w, t, positive, c) ==
    LET compared == t.name = "include" /\ positive /\ w.compare
        s2 == [c.s EXCEPT !.services = IF compared /\ c.path.canPass THEN @ \cup {t.service} ELSE @,
                          !.unmapped = @ \/ (compared /\ t.service = "none")]
        stop == ~c.path.valid \/ (~t.positive /\ c.path.canPass)
    IN  IF c.path.universal
        THEN [w EXCEPT !.s = s2, !.over = TRUE,
                       !.result = [@ EXCEPT !.canPass = @ \/ (w.remaining /\ t.positive /\ c.path.canPass),
                                            !.universal = w.remaining /\ t.positive /\ w.onlyPositive]]
        ELSE [w EXCEPT !.s = s2, !.remaining = @ /\ ~stop,
                       !.onlyPositive = @ /\ ~(~t.positive /\ c.path.canPass),
                       !.result = [@ EXCEPT !.canPass = @ \/ (w.remaining /\ t.positive /\ c.path.canPass),
                                            !.valid = @ /\ c.path.valid]]
ChildTerm(w, t, positive) ==
    AfterChild(w, t, positive,
        IF t.child.read = "none" THEN [path |-> NoPath, s |-> Missed(w.s)]
        ELSE Walk(t.child, positive, w.compare /\ t.service = "none",
                  IF t.child.read = "ok" /\ t.child.void THEN [w.s EXCEPT !.voids = @ + 1] ELSE w.s))

(* One term that w comes to: v is w with the term counted and limited. *)
TakeTerm(w, t, v) ==
    LET positive == w.allows /\ w.remaining /\ t.positive /\ v.s.count <= MaxLookups
    IN  IF t.name = "macro"
        THEN [v EXCEPT !.s.complete = FALSE, !.remaining = FALSE, !.result.valid = FALSE]
        ELSE IF Follows(t) THEN ChildTerm(v, t, positive) ELSE PlainTerm(v, t, positive)
Limited(w, t, s) ==
    [w EXCEPT !.s = s, !.remaining = @ /\ s.count <= MaxLookups,
              !.result.valid = @ /\ (w.remaining \/ ~t.positive) /\ s.count <= MaxLookups]
WalkTerm(w, t) ==
    IF w.over THEN w
    ELSE TakeTerm(w, t, Limited(w, t, Counted([w.s EXCEPT !.pathUnknown = @ \/ (~w.remaining /\ t.positive /\ w.allows)], t)))
Walked(w) == [path |-> w.result, s |-> w.s]
Walk(node, allows, compare, s) ==
    CASE node.read = "lost"  -> [path |-> NoPath, s |-> Missed(s)]
      [] node.marked         -> [path |-> NoPath, s |-> Missed(s)]
      [] node.recs # 1 \/ node.invalid -> [path |-> NoPath, s |-> [s EXCEPT !.error = TRUE]]
      [] OTHER ->
           Walked(FoldLeft(WalkTerm,
                    [s |-> s, result |-> [canPass |-> FALSE, universal |-> FALSE, valid |-> TRUE], remaining |-> TRUE,
                     onlyPositive |-> TRUE, over |-> FALSE, allows |-> allows, compare |-> compare], node.terms))

Inspected(node, w) ==
    [w.s EXCEPT !.authorizes = w.path.canPass,
                !.denyAll = ~node.invalid /\ Len(node.terms) = 1 /\ node.terms[1].name = "all" /\ ~node.terms[1].positive,
                !.error = @ \/ w.s.count > MaxLookups \/ w.s.voids > 2]
InspectSPF(node) ==
    CASE node.read = "lost" \/ (node.read = "ok" /\ node.marked) -> [FreshSpf EXCEPT !.known = FALSE, !.complete = FALSE]
      [] node.recs = 0 -> FreshSpf
      [] node.recs > 1 -> [FreshSpf EXCEPT !.error = TRUE]
      [] OTHER -> Inspected(node, Walk(node, TRUE, TRUE, FreshSpf))

-----------------------------------------------------------------------------
(* What is read of a zone: SPF up to a lost read, and each other read or   *)
(* nothing.  A DMARC read is the sequence of its records, a record its p,  *)
(* sp, np ("" when absent), pct and whether it is marked by redaction.     *)
Lost == [lost |-> TRUE]
ReadUnless(lost, records) == IF lost THEN Lost ELSE [lost |-> FALSE, records |-> records]
MailReads(z, loss) ==
    [spf |-> SpfRead(z.spf, loss.spf), mx |-> ReadUnless(loss.mx, z.mx),
     dmarc |-> ReadUnless(loss.dmarc, z.dmarc), parent |-> ReadUnless(loss.parent, z.parent),
     keys |-> ReadUnless(loss.keys, z.keys), absent |-> z.absent]
NoLoss == [spf |-> 99, mx |-> FALSE, dmarc |-> FALSE, parent |-> FALSE, keys |-> FALSE]

(* Input.mailUse: a declaration first, then what the records (sp, SPF's)   *)
(* show.                                                                   *)
MailUse(z, ev, sp) ==
    CASE z.declared # "silent" -> z.declared
      [] (~ev.mx.lost /\ ev.mx.records) \/ sp.authorizes -> "sending"
      [] ~ev.mx.lost /\ sp.known /\ sp.complete /\ ~sp.pathUnknown /\ ~sp.error -> "none"
      [] OTHER -> "unknown"

PolicyValue(p) == p \in {"none", "quarantine", "reject"}
NoPolicy == [reason |-> FALSE, usable |-> FALSE, policy |-> "", sp |-> "", np |-> "", pct |-> 100]
ParseDMARC(read) ==
    CASE read.lost -> [NoPolicy EXCEPT !.reason = TRUE]
      [] ~read.lost /\ \E k \in DOMAIN read.records : read.records[k].marked -> [NoPolicy EXCEPT !.reason = TRUE]
      [] ~read.lost /\ Len(read.records) # 1 -> NoPolicy
      [] OTHER -> LET r == read.records[1] IN
                  [reason |-> FALSE, usable |-> PolicyValue(r.p), policy |-> r.p, sp |-> r.sp, np |-> r.np, pct |-> r.pct]

(* Input.dmarcPolicy: a subdomain with no record takes its organizational  *)
(* domain's, by sp, or by np where the name is shown not to exist.         *)
Inherited(ev, p) ==
    LET bySp == IF p.sp = "" THEN p.policy ELSE p.sp
        shown == ev.spf.read = "ok" \/ ~ev.mx.lost
        gone == ev.spf.read = "ok" /\ ~ev.mx.lost /\ ev.absent
        doubt == [p EXCEPT !.reason = TRUE, !.usable = FALSE]
    IN  CASE p.sp # "" /\ ~PolicyValue(p.sp) -> doubt
          [] p.np # "" /\ ~PolicyValue(p.np) -> doubt
          [] p.np # "" /\ gone -> [p EXCEPT !.policy = p.np]
          [] p.np # "" /\ ~(shown /\ ~ev.absent) /\ p.np # bySp -> doubt
          [] OTHER -> [p EXCEPT !.policy = bySp]
OwnOrParent(z, ev, d, p) ==
    CASE d.reason \/ z.org \/ Len(ev.dmarc.records) > 0 -> d
      [] p.usable -> Inherited(ev, p)
      [] OTHER -> p
DmarcPolicy(z, ev) == OwnOrParent(z, ev, ParseDMARC(ev.dmarc), ParseDMARC(ev.parent))
Enforces(d) == d.usable /\ d.policy # "none" /\ d.pct > 0

-----------------------------------------------------------------------------
(* The verdicts of j.email: rule -> verdict, "silent" where none is filed. *)
If(fired) == IF fired THEN "fired" ELSE "disproved"

Dmarc(z, d, sp, use) ==
    LET bad == (sp.known /\ ~sp.denyAll) \/ (~d.reason /\ (~Enforces(d) \/ d.policy # "reject" \/ d.pct # 100))
        tags == {d.sp, d.np} \ {""}
        spoofable == CASE use = "sending" -> "silent"
                       [] use = "none" /\ bad -> "fired"
                       [] use = "none" /\ sp.known /\ ~d.reason -> "disproved"
                       [] OTHER -> "abstained"
        unsent(v) == IF use = "none" THEN "silent" ELSE IF use = "unknown" \/ d.reason THEN "abstained" ELSE v
    IN  [spoofable |-> spoofable,
         not_enforced |-> unsent(If(~Enforces(d))),
         partial |-> unsent(IF Enforces(d) THEN If(d.pct < 100) ELSE "silent"),
         subdomains |-> unsent(CASE ~Enforces(d) -> "silent"
                                 [] ~z.org \/ \E v \in tags : ~PolicyValue(v) -> "abstained"
                                 [] OTHER -> If("none" \in tags))]

SpfRules(z, ev, s, use) ==
    LET some == ev.spf.read = "ok" /\ ev.spf.recs > 0
        whole == s.known /\ s.complete /\ ~s.pathUnknown /\ ~s.error
        of(v) == IF ~s.known THEN "abstained" ELSE IF ~some THEN "silent" ELSE v
    IN  [missing |-> CASE use = "none" -> "silent"
                       [] use = "unknown" \/ ~s.known -> "abstained"
                       [] OTHER -> If(~some),
         invalid |-> of(IF s.error THEN "fired" ELSE IF ~s.complete THEN "abstained" ELSE "disproved"),
         anyone |-> of(IF s.broad THEN "fired" ELSE IF whole THEN "disproved" ELSE "abstained"),
         undeclared |-> CASE z.senders = {} -> "abstained"
                          [] z.senders # {} /\ \E v \in s.services : v \notin z.senders \cup {"none"} -> "fired"
                          [] z.senders # {} /\ s.services \subseteq z.senders /\ whole /\ ~s.unmapped -> "disproved"
                          [] OTHER -> "abstained"]

(* j.dkim for the one selector expected: keys are "revoked", "bad" or a    *)
(* modulus class.                                                          *)
Dkim(ev) ==
    LET of(k) == CASE k = "revoked" -> <<"fired", "abstained", "abstained">>
                   [] k \in {"bad", "marked"} -> <<"abstained", "abstained", "abstained">>
                   [] OTHER -> <<"disproved", If(k = "weak"), If(k = "k1024")>>
        v == CASE ev.keys.lost -> of("bad")
               [] ~ev.keys.lost /\ Len(ev.keys.records) = 0 -> of("revoked")
               [] ~ev.keys.lost /\ Len(ev.keys.records) > 1 -> of("bad")
               [] OTHER -> of(ev.keys.records[1])
    IN  [missing |-> v[1], breakable |-> v[2], k1024 |-> v[3]]

Verdicts(z, ev, s, use) == [dmarc |-> Dmarc(z, DmarcPolicy(z, ev), s, use), spf |-> SpfRules(z, ev, s, use), dkim |-> Dkim(ev)]
SpfVerdicts(z, ev, s) == Verdicts(z, ev, s, MailUse(z, ev, s))
MailVerdicts(z, ev) == SpfVerdicts(z, ev, InspectSPF(ev.spf))

-----------------------------------------------------------------------------
Unread == [spf |-> LostNode]
MailInit == zone \in Zones /\ mail = Unread
MailRead == /\ mail = Unread
            /\ \E loss \in Losses : mail' = MailReads(zone, loss)
            /\ UNCHANGED zone
MailNext == MailRead

(* Nothing unread counts as nothing found: whatever reads fail, a rule     *)
(* that fires or is disproved says what it would have said of the whole    *)
(* (collector/web spf.go, dmarc.go, dkim.go, email.go).                    *)
SafeIn(v, w) == \A id \in DOMAIN v : v[id] \in {"fired", "disproved"} => w[id] = v[id]
AllSafeIn(v, w) == SafeIn(v.dmarc, w.dmarc) /\ SafeIn(v.spf, w.spf) /\ SafeIn(v.dkim, w.dkim)
MailLossSafe ==
    ("spf" \in DOMAIN mail /\ mail # Unread) =>
        AllSafeIn(MailVerdicts(zone, mail), MailVerdicts(zone, MailReads(zone, NoLoss)))
=============================================================================
