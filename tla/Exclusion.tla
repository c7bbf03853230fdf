----------------------------- MODULE Exclusion -----------------------------
(***************************************************************************)
(* Exclusion in responses (gate/pipeline.go, admitUsers in gate/admit.go): *)
(* a users list, read page by page, builds the set of the keys of every    *)
(* user it drops; reads that name or return users are filtered by the set  *)
(* and not sent before it is known.  A Workspace call holds workspaceMu    *)
(* from its admission to its answer, so a call is one step; calls of       *)
(* several listings alternate in any order, and a page the gate could not  *)
(* keep may be asked for again.                                            *)
(*                                                                         *)
(* A user has keys that identify it in the tenant (Ids: its number, its    *)
(* addresses) and contact addresses (Contacts).  Bodies, projection and    *)
(* redaction are left out; a row is a user, placed in a unit or not.       *)
(***************************************************************************)
EXTENDS Naturals, FiniteSets

CONSTANTS
    Accounts,       \* users of the tenant
    UnitOf,         \* user -> "kept", "excluded" or "unknown"
    Ids, Contacts,  \* user -> keys
    KeyDomain,      \* key -> the domain of an address, "number" for an id
    Tenant,         \* the domain in the asset's id
    UserMaxPages,   \* List.MaxPages
    UserMaxItems,   \* List.MaxItems
    MaxListings,    \* bound: users lists with a page to follow
    MaxRows         \* bound: keys stored

Keys == DOMAIN KeyDomain
ASSUME ExclusionAssumption ==
    \A u \in Accounts : /\ UnitOf[u] \in {"kept", "excluded", "unknown"}
                        /\ Ids[u] # {} /\ Ids[u] \cup Contacts[u] \subseteq Keys

VARIABLES
    unitExcluded,  \* the file excludes an organizational unit of the tenant
    pages,         \* listings with a page to follow: [n, items, users, rows]
    users,         \* the tenant's excluded-subject set, [known, excluded, seen, domains]
    stored,        \* the keys stored rows name users by
    saw            \* history: the rows of the listing that made the set

exclusionVars == <<unitExcluded, pages, users, stored, saw>>

NewUserSet == [known |-> FALSE, excluded |-> {}, seen |-> {}, domains |-> {Tenant}]

(* dropRule, of a row of the users list.                                   *)
Dropped(u) == UnitOf[u] = "unknown" \/ (unitExcluded /\ UnitOf[u] = "excluded")

DomainsOf(ks) == {KeyDomain[k] : k \in ks} \ {"number"}
Returned(who) == UNION {Ids[u] : u \in who}
KeysOf(who) == Returned(who) \cup UNION {Contacts[u] : u \in who}

(* filter's users list branch, of the rows of one page.                    *)
AddRows(set, rows) ==
    [set EXCEPT !.seen = @ \cup Returned(rows), !.domains = @ \cup DomainsOf(Returned(rows)),
                !.excluded = @ \cup KeysOf({u \in rows : Dropped(u)})]

(* rule: an id or a tenant address the list never returned may be an       *)
(* excluded user's; an address elsewhere is evidence.                      *)
Allows(k) ==
    users.known => /\ k \notin users.excluded
                   /\ k \in users.seen \/ KeyDomain[k] \notin users.domains \cup {"number"}
UsersKnown == unitExcluded => users.known

-----------------------------------------------------------------------------
FirstPage == [n |-> 0, items |-> 0, users |-> NewUserSet, rows |-> {}]

(* Each page adds to its own copy of the set of the page before.           *)
BuildingAfresh(prev, rows) == AddRows(NewUserSet, rows)
Building(prev, rows) == AddRows(prev.users, rows)

(* shape, filter and pageAfter: a page over its limit is not kept, and     *)
(* leaves the page before to be asked again.  The set replaces the         *)
(* tenant's when the list ends, and only for an excluded unit.             *)
UsersPage(prev, rows, next) ==
    LET total == prev.items + Cardinality(rows)
        after == [n |-> prev.n + 1, items |-> total, users |-> Building(prev, rows), rows |-> prev.rows \cup rows]
        follows == next = "cursor" /\ after.n < UserMaxPages /\ total < UserMaxItems
        ends == next = "none" /\ unitExcluded /\ after.users.seen # {}
    IN  /\ total <= UserMaxItems
        /\ pages' = (pages \ {prev}) \cup (IF follows THEN {after} ELSE {})
        /\ users' = IF ends THEN [after.users EXCEPT !.known = TRUE] ELSE users
        /\ saw' = IF ends THEN after.rows ELSE saw
        /\ UNCHANGED <<unitExcluded, stored>>

(* Role assignments, group members: rows that reference users.             *)
ReferencesRead(k) ==
    /\ UsersKnown /\ Allows(k)
    /\ stored' = stored \cup {k}
    /\ UNCHANGED <<unitExcluded, pages, users, saw>>

ExclusionInit ==
    /\ unitExcluded \in BOOLEAN
    /\ pages = {} /\ users = NewUserSet /\ stored = {} /\ saw = {}

ExclusionNext ==
    \/ \E prev \in pages \cup {FirstPage}, rows \in SUBSET Accounts, next \in {"none", "unreadable", "cursor"} :
          (prev = FirstPage => Cardinality(pages) < MaxListings) /\ UsersPage(prev, rows, next)
    \/ Cardinality(stored) < MaxRows /\ \E k \in Keys \ stored : ReferencesRead(k)

-----------------------------------------------------------------------------
(* What a read naming users stores is never about an excluded user: not    *)
(* one the finished list returned, on whichever of its pages and by        *)
(* whichever of its keys, and not one it left out, unless by an address of *)
(* a domain nobody it returned is in (pipeline.go userSet, filter,         *)
(* pageAfter; admit.go admitUsers).                                        *)
Hidden(u) == unitExcluded /\ UnitOf[u] # "kept"
ExcludedUnseen ==
    [][\A k \in stored' \ stored, u \in {a \in Accounts : Hidden(a)} :
          IF u \in saw THEN k \notin Ids[u] \cup Contacts[u]
          ELSE k \in Ids[u] \ Returned(saw) => KeyDomain[k] \notin {"number", Tenant} \cup DomainsOf(Returned(saw))]_exclusionVars
=============================================================================
