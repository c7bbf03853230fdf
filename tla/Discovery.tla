----------------------------- MODULE Discovery ------------------------------
(***************************************************************************)
(* The Scope stage's discovery of one domain root (engagement/discover.go):*)
(* two control lookups, the names declared and in certificates, each       *)
(* looked up in order up to the caps, and which of them Recon may read.    *)
(* The gate's answer to a lookup is input.                                 *)
(***************************************************************************)
EXTENDS Naturals, Sequences, FiniteSets

CONSTANTS
    CandidateSets,    \* the sets of names a root may have; a name is a record (below)
    Now,              \* the time certificates are held against
    MaxResolved,      \* names looked up under a root
    MaxUnverified     \* names without first-party evidence that are read

(* A candidate: its rank in name order, whether it is declared, the latest *)
(* expiry of its certificates (0: none, or unreadable), whether an exclude *)
(* covers it, and whether the file gives first-party evidence of it.       *)
ASSUME DiscoveryAssumption ==
    /\ \A cs \in CandidateSets :
          /\ IsFiniteSet(cs)
          /\ cs \subseteq [rank : Nat, declared : BOOLEAN, notAfter : Nat, excluded : BOOLEAN, evidence : BOOLEAN]
    /\ Now \in Nat /\ MaxResolved \in Nat /\ MaxUnverified \in Nat

VARIABLES
    disc,    \* the place of the loop, its counters, and the controls' answers
    names    \* ScopeDomain.Names so far
discVars == <<disc, names>>

Answers == {"addresses", "nxdomain", "nodata", "timeout", "excluded"}

(* candidate.group and ordered, which sorts by it *)
Group(c) == IF c.declared THEN 0 ELSE IF c.notAfter >= Now THEN 1 ELSE 2
Before(a, b) ==
    \/ Group(a) < Group(b)
    \/ Group(a) = Group(b) /\ Group(a) = 1 /\ a.notAfter > b.notAfter
    \/ Group(a) = Group(b) /\ (Group(a) = 1 => a.notAfter = b.notAfter) /\ a.rank < b.rank
Ordered(cs) == {s \in [1..Cardinality(cs) -> cs] : \A j, k \in DOMAIN s : j < k => Before(s[j], s[k])}

DiscInit ==
    /\ \E cs \in CandidateSets :
          disc = [pc |-> "invalid", cands |-> cs, list |-> <<>>, k |-> 1, resolved |-> 0, unverified |-> 0,
                  control |-> "none", wildcard |-> "none"]
    /\ names = <<>>

(* run: a control under invalid. says whether the resolver answers names   *)
(* that do not exist.  A control not sent says nothing.                    *)
ControlInvalid ==
    /\ disc.pc = "invalid"
    /\ \E out \in Answers \cup {"not_sent"} : disc' = [disc EXCEPT !.pc = "wildcard", !.control = out]
    /\ UNCHANGED names
Rewrites == disc.control = "addresses"
Known == disc.control \in {"nxdomain", "nodata", "addresses"}

(* domain: a control under the root is its wildcard's answer; certificate  *)
(* transparency adds its names or fails, which leaves the declared ones.   *)
ControlWildcard ==
    /\ disc.pc = "wildcard"
    /\ \E out \in Answers \cup {"not_sent"}, ct \in BOOLEAN :
       \E list \in Ordered(IF ct THEN disc.cands ELSE {c \in disc.cands : c.declared}) :
          disc' = [disc EXCEPT !.pc = "names", !.wildcard = out, !.list = list]
    /\ UNCHANGED names

-----------------------------------------------------------------------------
Name(c, status) == [rank |-> c.rank, group |-> Group(c), declared |-> c.declared, excluded |-> c.excluded,
                    evidence |-> c.evidence, status |-> status, read |-> FALSE, sent |-> FALSE]

(* matchesWildcard: the control resolved or dangles, and answered the same.*)
MatchesWildcard(out, alike) == alike /\ disc.wildcard = out /\ out \in {"addresses", "nxdomain", "nodata"}

(* classify *)
Classify(c, out, chain, alike) ==
    IF out = "excluded" THEN "excluded"
    ELSE IF out = "timeout" THEN "insufficient_evidence"
    ELSE IF ~c.declared /\ MatchesWildcard(out, alike) THEN "matches_wildcard"
    ELSE IF out \in {"nxdomain", "nodata"} /\ chain THEN IF Rewrites THEN "insufficient_evidence" ELSE "dangling"
    ELSE IF out = "nxdomain" THEN "no_longer_exists"
    ELSE IF out = "nodata" THEN "no_address"
    ELSE "resolves"

(* lookUp: which of the names that resolve are read. *)
ReadsUnknown(c) == c.evidence \/ c.declared \/ (~Rewrites /\ disc.unverified < MaxUnverified)
Reads(c) == c.evidence \/ c.declared \/ (~Rewrites /\ Known /\ disc.unverified < MaxUnverified)
Counts(c) == Reads(c) /\ ~c.evidence /\ ~c.declared

(* One candidate: past the cap it is not looked up; one an exclude covers  *)
(* is refused before any query and counts toward neither cap; a lookup not *)
(* sent for another reason does not count either.                          *)
LookUp ==
    /\ disc.pc = "names" /\ disc.k <= Len(disc.list)
    /\ LET c == disc.list[disc.k] IN
       \/ /\ disc.resolved >= MaxResolved
          /\ names' = Append(names, Name(c, "not_checked"))
          /\ disc' = [disc EXCEPT !.k = @ + 1]
       \/ /\ disc.resolved < MaxResolved
          /\ \E sent \in BOOLEAN :
                /\ ~sent \/ c.excluded
                /\ names' = Append(names, Name(c, IF c.excluded THEN "excluded" ELSE "not_checked"))
                /\ disc' = [disc EXCEPT !.k = @ + 1]
       \/ /\ disc.resolved < MaxResolved /\ ~c.excluded
          /\ \E out \in Answers, chain, alike \in BOOLEAN :
                /\ out = "excluded" => chain
                /\ LET st == Classify(c, out, chain, alike)
                       rd == st = "resolves" /\ Reads(c)
                   IN  /\ names' = Append(names, [Name(c, st) EXCEPT !.read = rd, !.sent = TRUE])
                       /\ disc' = [disc EXCEPT !.k = @ + 1, !.resolved = @ + 1,
                                     !.unverified = IF rd /\ Counts(c) THEN @ + 1 ELSE @]
DiscNext == ControlInvalid \/ ControlWildcard \/ LookUp

-----------------------------------------------------------------------------
(* The cap never costs a more important name its lookup: a name left       *)
(* unchecked while others were looked up is in no earlier group than any   *)
(* of them, and only when the cap is really used up (ordered, lookUp).     *)
CapSparesEarlier ==
    /\ \A j, k \in DOMAIN names : names[j].sent /\ j > k => names[k].group <= names[j].group
    /\ Cardinality({k \in DOMAIN names : names[k].sent}) <= MaxResolved

(* A server is contacted on the resolver's word alone only when the control*)
(* showed that the resolver does not invent answers, and for at most       *)
(* MaxUnverified names; a name an exclude covers is neither looked up nor  *)
(* read, and a resolver that invents answers makes no name dangle (lookUp, *)
(* classify).  Nor does the cap cost an earlier name its lookup.           *)
ReadsEarned ==
    /\ \A k \in DOMAIN names : names[k].read /\ ~names[k].declared /\ ~names[k].evidence =>
          disc.control \in {"nxdomain", "nodata"}
    /\ Cardinality({k \in DOMAIN names : names[k].read /\ ~names[k].declared /\ ~names[k].evidence}) <= MaxUnverified
    /\ \A k \in DOMAIN names : names[k].excluded => ~names[k].sent /\ ~names[k].read
    /\ \A k \in DOMAIN names : names[k].status = "dangling" => disc.control # "addresses"
    /\ CapSparesEarlier
=============================================================================
