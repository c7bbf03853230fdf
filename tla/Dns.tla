-------------------------------- MODULE Dns ---------------------------------
(***************************************************************************)
(* The gate's DNS client (internal/engagement/gate/dns.go): admission of a *)
(* lookup, the queries one lookup sends, the CNAME chain it follows, and   *)
(* the reads of names an answer points at.  A resolver may answer each     *)
(* query differently: answers are input, reduced to the hops they add to   *)
(* the chain, the code, and whether the chain's end has records.           *)
(***************************************************************************)
EXTENDS Naturals, Sequences, FiniteSets, SequencesExt

CONSTANTS
    Names,          \* names under a root and names outside every root
    InRoot,         \* the names under the asset's root
    Excluded,       \* the names an exclude covers
    Controls,       \* random labels under invalid.
    MaxChain,       \* CNAME hops a name may take
    MaxHops,        \* bound: hops one answer may add
    MaxSPFLookups,  \* include and redirect reads of one SPF evaluation
    TargetLists,    \* what an answer may point at: sequences over Vias
    MaxReads        \* bound: TXT reads of one run

Vias == {"include", "redirect", "mx"}

ASSUME DnsAssumption ==
    /\ TargetLists \subseteq Seq(Vias)
    /\ InRoot \subseteq Names /\ Excluded \subseteq Names
    /\ Controls \subseteq Names \ (InRoot \cup Excluded)
    /\ MaxChain \in Nat /\ MaxHops \in Nat \ {0} /\ MaxSPFLookups \in Nat /\ MaxReads \in Nat

VARIABLES
    look,      \* the lookup under way: Lookup and chase's local state
    queries,   \* every question sent in this lookup, as <<name, type>>
    pointed,   \* Gate.pointed: for each TXT read its evaluation, targets and which were followed
    lookups    \* Gate.spfLookups: SPF reads admitted, by evaluation
dnsVars == <<look, queries, pointed, lookups>>

Failures == {"servfail", "refused", "timeout", "error", "deadline", "canceled", "audit_failed"}
Bad == "not a name"       \* a hop answerName refuses

Idle == [pc |-> "idle", name |-> Bad, chain |-> <<>>, cur |-> Bad, types |-> <<>>, records |-> {},
         nx |-> FALSE, asked |-> {}, cnameAsked |-> {}, outcome |-> "none"]
DnsInit == look = Idle /\ queries = {} /\ pointed = <<>> /\ lookups = [n \in InRoot |-> 0]

Final(l) == IF l.chain = <<>> THEN l.name ELSE Last(l.chain)
Seen(l) == {l.name} \cup ToSet(l.chain)
End(l, outcome) == [l EXCEPT !.pc = "done", !.outcome = outcome]
Round(l) == [l EXCEPT !.pc = "types", !.cur = Final(l), !.asked = @ \cup {Final(l)},
                      !.types = <<"A", "AAAA">>, !.records = {}, !.nx = FALSE]

(* Resolve: a name outside the root, or one an exclude covers, is refused  *)
(* before any query; a control under invalid. names no one's asset.        *)
Resolve ==
    /\ look.pc = "idle"
    /\ \E n \in Names :
          look' = IF n \in Controls \/ (n \in InRoot /\ n \notin Excluded)
                  THEN Round([Idle EXCEPT !.name = n])
                  ELSE [Idle EXCEPT !.pc = "done", !.name = n, !.outcome = "not_sent"]
    /\ UNCHANGED <<queries, pointed, lookups>>

(* extend: the chain grows hop by hop until it loops, passes MaxChain, is  *)
(* not a name, or enters an excluded one; a hop that loops is not kept.    *)
Loops(l, hops, i) ==
    hops[i] \in Seen(l) \cup {hops[j] : j \in 1..(i - 1)} \/ Len(l.chain) + i > MaxChain
EndsUnchecked(l, hops, i) == Loops(l, hops, i)
Ends(l, hops, i) == Loops(l, hops, i) \/ hops[i] = Bad \/ hops[i] \in Excluded
Extend(l, hops) ==
    LET ends == {i \in DOMAIN hops : Ends(l, hops, i)}
        i == Min(ends)
        To(n) == [l EXCEPT !.chain = @ \o SubSeq(hops, 1, n)]
    IN  CASE ends = {}                         -> [l EXCEPT !.chain = @ \o hops]
          [] ends # {} /\ Loops(l, hops, i)   -> End(To(i - 1), "loop")
          [] ends # {} /\ ~Loops(l, hops, i)  -> End(To(i), IF hops[i] = Bad THEN "error" ELSE "excluded")

(* What a round settles: records, NXDOMAIN, no data at a name asked        *)
(* already, or another round at the chain's new end.                       *)
Settle(l) ==
    IF l.records # {} THEN End(l, "addresses")
    ELSE IF l.nx THEN End(l, "nxdomain")
    ELSE IF Final(l) \in l.asked THEN End(l, "nodata")
    ELSE Round(l)

(* The chain's end is asked for its CNAME once, when the round found       *)
(* nothing there.                                                          *)
AfterRound(l) ==
    IF l.records = {} /\ Final(l) \notin l.cnameAsked /\ (Final(l) = l.cur \/ l.nx)
    THEN [l EXCEPT !.pc = "cname", !.cnameAsked = @ \cup {Final(l)}]
    ELSE Settle(l)

Paths == UNION {[1..k -> Names \cup {Bad}] : k \in 0..MaxHops}

(* One address query of a round: a failure ends the lookup. *)
AskAddress ==
    /\ look.pc = "types" /\ look.types # <<>>
    /\ queries' = queries \cup {<<look.cur, Head(look.types)>>}
    /\ \/ \E f \in Failures : look' = End(look, f)
       \/ \E hops \in Paths, nx, held \in BOOLEAN :
             LET l == Extend([look EXCEPT !.types = Tail(@)], hops)
                 k == IF held THEN [l EXCEPT !.records = @ \cup {Final(l)}] ELSE l
             IN  look' = IF l.pc = "done" THEN l
                         ELSE IF nx \/ k.types = <<>> THEN AfterRound([k EXCEPT !.nx = nx])
                         ELSE k
    /\ UNCHANGED <<pointed, lookups>>

(* The CNAME query of the chain's end: a longer chain starts a new round. *)
AskCNAME ==
    /\ look.pc = "cname"
    /\ queries' = queries \cup {<<Final(look), "CNAME">>}
    /\ \/ \E f \in Failures : look' = End(look, f)
       \/ \E hops \in Paths :
             LET l == Extend(look, hops) IN
             look' = IF l.pc = "done" THEN l
                     ELSE IF Final(l) # Final(look) THEN Round(l) ELSE Settle(l)
    /\ UNCHANGED <<pointed, lookups>>

-----------------------------------------------------------------------------
(* readRecords: a domain's own TXT read begins an evaluation, counted per  *)
(* domain whatever the number of reads; the answer's targets are kept.     *)
EvalOf(n) == n
ReadRecords ==
    /\ Len(pointed) < MaxReads
    /\ \E n \in InRoot \ Excluded, targets \in TargetLists :
          pointed' = Append(pointed, [eval |-> EvalOf(n), targets |-> targets, followed |-> {}, sent |-> {}])
    /\ UNCHANGED <<look, queries, lookups>>

(* FollowTarget: a target of an answer this gate gave, once, the SPF ones  *)
(* within the evaluation's budget; the name is admitted only after both    *)
(* are charged.  An include's answer points further, in the same           *)
(* evaluation.                                                             *)
WithinBudget(p, i) == p.targets[i] = "mx" \/ lookups[p.eval] < MaxSPFLookups
FollowTarget ==
    \E r \in DOMAIN pointed :
      \E i \in DOMAIN pointed[r].targets \ pointed[r].followed, covered \in BOOLEAN :
        LET p == pointed[r]
            q == [pointed EXCEPT ![r].followed = @ \cup {i}, ![r].sent = IF covered THEN @ ELSE @ \cup {i}]
        IN  /\ WithinBudget(p, i)
            /\ lookups' = IF p.targets[i] = "mx" THEN lookups ELSE [lookups EXCEPT ![p.eval] = @ + 1]
            /\ IF covered \/ p.targets[i] = "mx" \/ Len(pointed) = MaxReads THEN pointed' = q
               ELSE \E targets \in TargetLists :
                      pointed' = Append(q, [eval |-> p.eval, targets |-> targets, followed |-> {}, sent |-> {}])
            /\ UNCHANGED <<look, queries>>

LookupNext == Resolve \/ AskAddress \/ AskCNAME
FollowNext == ReadRecords \/ FollowTarget
DnsFairness == WF_dnsVars(AskAddress \/ AskCNAME)

-----------------------------------------------------------------------------
(* No question is ever sent for a name an exclude covers, wherever in a    *)
(* chain the resolver's answers put it (extend, Resolve): the query would  *)
(* reach the excluded party's servers.                                     *)
ExcludedNeverAsked == \A q \in queries : q[1] \notin Excluded

(* A name is said not to exist, or to have no address, only after the end  *)
(* of its chain was itself asked for its addresses and for a CNAME (chase):*)
(* a host that hides a dangling CNAME from an address query is not         *)
(* mistaken for a name that is gone.                                       *)
AbsenceAsked ==
    look.outcome \in {"nxdomain", "nodata"} =>
        /\ <<Final(look), "CNAME">> \in queries
        /\ look.outcome = "nodata" => <<Final(look), "AAAA">> \in queries
        /\ look.records = {}

(* SPF's limit holds for an evaluation as a whole, over every read of the  *)
(* domain and every answer further down its tree (FollowTarget).           *)
SpfReads(e) == UNION {{<<r, i>> : i \in {j \in pointed[r].sent : pointed[r].targets[j] # "mx"}} :
                         r \in {q \in DOMAIN pointed : pointed[q].eval = e}}
SpfBudgetHolds == \A e \in InRoot : Cardinality(SpfReads(e)) <= MaxSPFLookups

(* What the gate's lookups answer for, whatever the resolver says to each  *)
(* query: absence asked for, no excluded name asked, SPF within its limit. *)
LookupsHold == AbsenceAsked /\ ExcludedNeverAsked /\ SpfBudgetHolds

(* Every lookup ends, whatever the resolver answers (chase). *)
LookupEnds == (look.pc \in {"types", "cname"}) ~> (look.pc = "done")
=============================================================================
