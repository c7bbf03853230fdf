------------------------------ MODULE FollowUp ------------------------------
(***************************************************************************)
(* The permission follow-up, F1 (engagement/followup.go,                   *)
(* collector/github/permission.go): after Check's planned reads, each      *)
(* round judges again over what was read and asks every login still open   *)
(* its next production repository.                                         *)
(***************************************************************************)
EXTENDS Naturals, Sequences, SequencesExt

CONSTANTS
    Leavers,      \* [name, root, rank]: logins declared as left, in the order they are asked
    Repos,        \* sequence of [name, root]: production repositories, in Plan's order
    Triggers,     \* what the leaver judgment may say of a login before: "fired", "none", "closed"
    ListStates,   \* what a collaborators list may say: "not_listed", "not_write", "denied"
    FollowUpCap           \* requests per run

VARIABLES
    fuGiven,   \* per login its trigger, per pair its list state
    fu         \* followPermissions: pairs recorded, the round left, counts and stops
fuVars == <<fuGiven, fu>>

Roots == {l.root : l \in Leavers}
Pairs == {<<l, r>> \in Leavers \X ToSet(Repos) : l.root = r.root}
FuInit ==
    /\ \E t \in [Leavers -> Triggers], s \in [Pairs -> ListStates] : fuGiven = [trigger |-> t, list |-> s]
    /\ fu = [recorded |-> <<>>, round |-> <<>>, attempted |-> {}, sent |-> 0, stop |-> "", stoppedRoots |-> {}, refusedRoots |-> {},
             status |-> [o \in Roots |-> "collected"], over |-> FALSE]

(* PermissionOpen, over the judgments the entries recorded so far give: a  *)
(* login found to hold write on a production repository is closed, one     *)
(* seen nowhere that an answer shows with access is fired, and a pair      *)
(* recorded is never open again.                                           *)
EntryOf(p) == {k \in DOMAIN fu.recorded : fu.recorded[k].pair = p}
Answered(l, answers) == \E k \in DOMAIN fu.recorded : fu.recorded[k].pair[1] = l /\ fu.recorded[k].answer \in answers
Fired(l) == fuGiven.trigger[l] = "fired" \/ (fuGiven.trigger[l] = "none" /\ Answered(l, {"write", "read"}))
OpenAnyway(l, r) ==
    /\ fuGiven.trigger[l] # "closed" /\ ~Answered(l, {"write"})
    /\ fuGiven.list[<<l, r>>] # "denied"
    /\ Fired(l) => fuGiven.list[<<l, r>>] = "not_listed"
Open(l, r) == EntryOf(<<l, r>>) = {} /\ OpenAnyway(l, r)
NextOpen(l) ==
    LET opens == SelectSeq(Repos, LAMBDA r : r.root = l.root /\ Open(l, r))
    IN  IF opens = <<>> THEN {} ELSE {<<l, opens[1]>>}

(* A round: each open login's first open repository, fired logins first. *)
Earlier(p, q) == IF Fired(p[1]) # Fired(q[1]) THEN Fired(p[1]) ELSE p[1].rank < q[1].rank
NextRound == SetToSortSeq({p \in UNION {NextOpen(l) : l \in Leavers} : p \notin fu.attempted}, Earlier)

NotAsked(reason) == [answer |-> "unsent", reason |-> reason]
Recorded(p, pr) == [pair |-> p, answer |-> pr.answer, reason |-> pr.reason]

StartRound ==
    /\ ~fu.over /\ fu.round = <<>>
    /\ IF NextRound # <<>> THEN fu' = [fu EXCEPT !.round = NextRound]
       ELSE fu' = [fu EXCEPT !.over = TRUE,
              !.status = [o \in Roots |-> CASE o \in fu.refusedRoots -> "refused"
                                            [] o \in fu.stoppedRoots /\ o \notin fu.refusedRoots /\ @[o] = "collected" -> "incomplete"
                                            [] OTHER -> @[o]]]
    /\ UNCHANGED fuGiven

(* One pair: not asked past a stop or the cap; otherwise the gate answers, *)
(* and a refused credential or a limit stops what follows.                 *)
Record(p, pr, changes) == [changes EXCEPT !.recorded = Append(@, Recorded(p, pr)), !.attempted = @ \cup {p}, !.round = Tail(@)]
NotAskedPairSilent(timedOut) ==
    LET p == fu.round[1] IN
    /\ fu.round # <<>> /\ (timedOut \/ fu.stop # "" \/ fu.sent >= FollowUpCap)
    /\ fu' = [fu EXCEPT !.round = Tail(@)]
    /\ UNCHANGED fuGiven
NotAskedPair(timedOut) ==
    LET p == fu.round[1]
        stop == IF fu.stop = "" /\ timedOut THEN "timeout" ELSE fu.stop
    IN  /\ fu.round # <<>>
        /\ stop # "" \/ fu.sent >= FollowUpCap
        /\ fu' = IF stop # "" THEN Record(p, NotAsked("limit"), [fu EXCEPT !.stop = stop, !.stoppedRoots = @ \cup {p[1].root}])
                 ELSE Record(p, NotAsked("cap"), fu)
        /\ UNCHANGED fuGiven
StopFor(end) == IF end \in {"refused", "limit", "cut"} THEN end ELSE ""
AskPair(end) ==
    LET p == fu.round[1] IN
    /\ fu.round # <<>> /\ fu.stop = "" /\ fu.sent < FollowUpCap
    /\ fu' = Record(p, [answer |-> IF end = "limit" THEN "unsent" ELSE IF end \in {"refused", "cut"} THEN "failed" ELSE end, reason |-> end],
              [fu EXCEPT !.sent = IF end = "limit" THEN @ ELSE @ + 1,
                         !.stop = StopFor(end),
                         !.refusedRoots = IF end = "refused" THEN @ \cup {p[1].root} ELSE @,
                         !.stoppedRoots = IF end \in {"limit", "cut"} THEN @ \cup {p[1].root} ELSE @])
    /\ UNCHANGED fuGiven

FuEnds == {"write", "read", "none", "missing", "failed", "refused", "limit", "cut"}
FuNext == \/ StartRound
          \/ \E timedOut \in BOOLEAN : NotAskedPair(timedOut)
          \/ \E end \in FuEnds : AskPair(end)

-----------------------------------------------------------------------------
(* Every pair is settled: none is recorded twice, and when the loop ends   *)
(* no pair a judgment would still open is left without an entry saying why *)
(* it was not asked (followup.go, followPermissions).                      *)
PairsSettled ==
    /\ \A p \in Pairs : EntryOf(p) = {} \/ \E k \in DOMAIN fu.recorded : EntryOf(p) = {k}
    /\ (fu.over /\ fu.recorded # <<>>) => \A p \in Pairs : ~Open(p[1], p[2])

(* A credential refused, a limit or the deadline ends the sending for      *)
(* every root, and no root with a pair left unasked for it still says it   *)
(* was collected; the cap counts what was sent (followup.go,               *)
(* followPermissions, followUpStopped, followUpRefused).                   *)
StopsAreFinal ==
    /\ fu.recorded # <<>> => fu.sent <= FollowUpCap
    /\ \A i, j \in DOMAIN fu.recorded :
         (i < j /\ fu.recorded[i].reason \in {"refused", "limit", "cut"}) => fu.recorded[j].answer = "unsent"
    /\ fu.over => \A k \in DOMAIN fu.recorded :
         LET o == fu.recorded[k].pair[1].root IN
         /\ fu.recorded[k].reason = "limit" => fu.status[o] # "collected"
         /\ fu.recorded[k].reason = "refused" => fu.status[o] = "refused"

(* The rounds end, each asking at least one pair never attempted before or *)
(* being the last (followup.go:141), and end with every pair settled and   *)
(* every stop kept to.                                                     *)
FollowUpsEnd ==
    (fu.recorded = <<>> /\ fu.over = FALSE) ~> (fu.over /\ PairsSettled /\ StopsAreFinal)
=============================================================================
