------------------------------ MODULE Throttle ------------------------------
(***************************************************************************)
(* The throttle of the scope gate (internal/engagement/gate): the limiters *)
(* of throttle.go, the order in which an attempt takes them (admit.go,     *)
(* throttle and waitThrottle) and the per-address limiters that the dialer *)
(* of send.go takes for each address it dials.                             *)
(*                                                                         *)
(* Two goroutines stand for one attempt: the request's own (pc), and the   *)
(* HTTP transport's dial (dpc), which runs on a context of its own and may *)
(* still be looping over addresses after the request has returned.         *)
(*                                                                         *)
(* Time is relative: wait[l] is how far limiter.next lies after the        *)
(* present (0 when it has passed) and rest[r] how much a sleeper has left. *)
(* Tick is one unit of time for everyone, so no clock has to be bounded.   *)
(***************************************************************************)
EXTENDS Integers, FiniteSets

CONSTANTS
    Requests,    \* attempts that reach step 13 of the admission
    Web,         \* the attempts for a web asset; the others go to a provider
    Assets, Asset,         \* the assets, and the asset of each attempt
    Providers, Provider,   \* the providers, and the provider of each attempt
    Throttled,   \* the assets that set a throttle of their own
    Addrs, Answer,         \* the addresses (ordered), and what each name resolved to
    Cap, Interval,         \* concurrency and pacing interval of each limiter
    MaxDials     \* bound: dials of each request (net/http may dial again)

AssetKeys    == {"asset"} \X Assets
ProviderKeys == {"provider"} \X Providers
AddrKeys     == {"addr"} \X Addrs
Limiters     == AssetKeys \cup ProviderKeys \cup AddrKeys

ASSUME ConstantsAssumption ==
    /\ IsFiniteSet(Requests)
    /\ Web \subseteq Requests
    /\ Asset \in [Requests -> Assets]
    /\ Provider \in [Requests -> Providers]
    /\ Throttled \subseteq Assets
    /\ Addrs \subseteq Nat
    /\ IsFiniteSet(Addrs)
    /\ Answer \in [Requests -> (SUBSET Addrs) \ {{}}]
    /\ Cap \in [Limiters -> Nat \ {0}]     \* newLimiter: at least 1
    /\ Interval \in [Limiters -> Nat]
    /\ MaxDials \in [Requests -> Nat]

VARIABLES
    sem,      \* slots taken of each limiter (limiter.sem)
    wait,     \* limiter.next, relative to now
    pc,       \* the request's goroutine
    stage,    \* which of its throttles the request is at: "asset" or "provider"
    rest,     \* what is left of the request's sleep
    ctx,      \* the request's context is done
    dpc,      \* the dial's goroutine
    drest,    \* what is left of the dial's sleep
    dctx,     \* the dial's context is done
    left,     \* addresses the dial has still to try
    dials,    \* dials started
    releases, \* dialer.releases: one <<dial, address>> per slot to give back
    closed    \* dialer.closed

limiterVars == <<sem, wait>>
requestVars == <<pc, stage, rest, ctx>>
dialVars    == <<dpc, drest, dctx, left, dials, releases, closed>>
vars        == <<limiterVars, requestVars, dialVars>>

-----------------------------------------------------------------------------
(* The limiters an attempt takes.                                          *)

\* throttle(): a web asset always has a throttle (its own or the default);
\* another asset only when its entry sets one. A provider has its ceiling.
TakesAsset(r)    == r \in Web \/ Asset[r] \in Throttled
TakesProvider(r) == r \notin Web
FirstStage(r)    == IF TakesAsset(r) THEN "asset" ELSE "provider"

Key(r, s) == IF s = "asset" THEN <<"asset", Asset[r]>> ELSE <<"provider", Provider[r]>>
AddrKey(a) == <<"addr", a>>

\* Mutant: each request dials in the order its resolver answered.
NextAddrUnsorted(r) ==
    IF MaxDials[r] = 1
    THEN CHOOSE a \in left[r] : \A b \in left[r] : a >= b
    ELSE CHOOSE a \in left[r] : \A b \in left[r] : a <= b

\* sortAddrs: the addresses are dialled in ascending order.
NextAddr(r) == CHOOSE a \in left[r] : \A b \in left[r] : a <= b

\* The throttle slots the request's goroutine holds, by stage: the ones it
\* was granted and, between the slot and the tick, the one it is taking.
HeldStages(r) ==
    {s \in {"asset", "provider"} :
        /\ IF s = "asset" THEN TakesAsset(r) ELSE TakesProvider(r)
        /\ \/ pc[r] \in {"send", "closed"}
           \/ pc[r] \in {"tick", "sleep"} /\ stage[r] = s
           \/ pc[r] \in {"acquire", "tick", "sleep"} /\ stage[r] = "provider" /\ s = "asset"}

\* The address slot a dial has taken and not yet handed to the dialer.
DialHolds(r) == dpc[r] \in {"tick", "sleep", "check"}

\* The slots of limiter l the dialer of r will give back.
ReleasesOn(r, l) == {d \in releases[r] : AddrKey(d[2]) = l}

\* release: every slot in the set ls of keys is given back.
Released(ls) == [l \in Limiters |-> IF l \in ls THEN sem[l] - 1 ELSE sem[l]]

InitOf(T) ==   \* the requests of T are to be sent, the others have ended
    /\ sem = [l \in Limiters |-> 0]
    /\ wait = [l \in Limiters |-> 0]
    /\ pc = [r \in Requests |-> IF r \in T THEN "acquire" ELSE "ended"]
    /\ stage = [r \in Requests |-> FirstStage(r)]
    /\ rest = [r \in Requests |-> 0]
    /\ ctx = [r \in Requests |-> FALSE]
    /\ dpc = [r \in Requests |-> "off"]
    /\ drest = [r \in Requests |-> 0]
    /\ dctx = [r \in Requests |-> FALSE]
    /\ left = [r \in Requests |-> {}]
    /\ dials = [r \in Requests |-> 0]
    /\ releases = [r \in Requests |-> {}]
    /\ closed = [r \in Requests |-> FALSE]
Init == InitOf(Requests)

-----------------------------------------------------------------------------
(* limiter.acquire, for the request's goroutine.                           *)

\* The slot is free: the semaphore takes it.
TakeSlot(r) ==
    LET l == Key(r, stage[r]) IN
    /\ pc[r] = "acquire"
    /\ sem[l] < Cap[l]
    /\ sem' = [sem EXCEPT ![l] = @ + 1]
    /\ pc' = [pc EXCEPT ![r] = "tick"]
    /\ UNCHANGED <<wait, stage, rest, ctx, dialVars>>

\* limiter.next after a tick: the tick is the later of next and now, and the
\* one after it an interval later.
AfterTick(l) == [wait EXCEPT ![l] = @ + Interval[l]]

\* The wait is over: on to the provider's throttle, or to the send.
Granted(r) ==
    IF stage[r] = "asset" /\ TakesProvider(r)
    THEN /\ pc' = [pc EXCEPT ![r] = "acquire"]
         /\ stage' = [stage EXCEPT ![r] = "provider"]
    ELSE /\ pc' = [pc EXCEPT ![r] = "send"]
         /\ UNCHANGED stage

\* Under limiter.mu: the tick is reserved. A wait of zero does not sleep.
TakeTick(r) ==
    LET l == Key(r, stage[r]) IN
    /\ pc[r] = "tick"
    /\ wait' = AfterTick(l)
    /\ IF wait[l] = 0
       THEN Granted(r) /\ UNCHANGED rest
       ELSE /\ rest' = [rest EXCEPT ![r] = wait[l]]
            /\ pc' = [pc EXCEPT ![r] = "sleep"]
            /\ UNCHANGED stage
    /\ UNCHANGED <<sem, ctx, dialVars>>

Wake(r) ==
    /\ pc[r] = "sleep"
    /\ rest[r] = 0
    /\ Granted(r)
    /\ UNCHANGED <<limiterVars, rest, ctx, dialVars>>

\* ctx.Done while waiting for a slot or asleep: what was taken is released,
\* in acquire its own slot, in throttle the asset's.
GiveUp(r) ==
    /\ pc[r] \in {"acquire", "sleep"}
    /\ ctx[r]
    /\ sem' = Released({Key(r, s) : s \in HeldStages(r)})
    /\ pc' = [pc EXCEPT ![r] = "ended"]
    /\ rest' = [rest EXCEPT ![r] = 0]
    /\ UNCHANGED <<wait, stage, ctx, dialVars>>

-----------------------------------------------------------------------------
(* The request in flight.                                                  *)

\* A fresh connection; after an HTTP/2 GOAWAY net/http may dial again. The
\* slots of the earlier dial are kept until the dialer closes.
StartDial(r) ==
    /\ pc[r] = "send"
    /\ dpc[r] \in {"off", "connected"}
    /\ dials[r] < MaxDials[r]
    /\ dials' = [dials EXCEPT ![r] = @ + 1]
    /\ left' = [left EXCEPT ![r] = Answer[r]]
    /\ dpc' = [dpc EXCEPT ![r] = IF r \in Web THEN "acquire" ELSE "net"]
    /\ UNCHANGED <<limiterVars, requestVars, drest, dctx, releases, closed>>

\* send returns, and its deferred close runs: an answer or an error came
\* back, or the context ended the request with the dial still running.
Close(r) ==
    /\ pc[r] = "send"
    /\ dpc[r] \in {"connected", "failed"} \/ ctx[r]
    /\ pc' = [pc EXCEPT ![r] = "closed"]
    /\ closed' = [closed EXCEPT ![r] = TRUE]
    /\ sem' = [l \in Limiters |-> sem[l] - Cardinality(ReleasesOn(r, l))]
    /\ releases' = [releases EXCEPT ![r] = {}]
    /\ UNCHANGED <<wait, stage, rest, ctx, dpc, drest, dctx, left, dials>>

\* The attempt's cleanup: the throttle's slots are given back.
Cleanup(r) ==
    /\ pc[r] = "closed"
    /\ sem' = Released({Key(r, s) : s \in HeldStages(r)})
    /\ pc' = [pc EXCEPT ![r] = "ended"]
    /\ UNCHANGED <<wait, stage, rest, ctx, dialVars>>

\* limits.timeout, the request's 30 s, the window's end or a cancelled run.
Expire(r) ==
    /\ pc[r] # "ended"
    /\ ~ctx[r]
    /\ ctx' = [ctx EXCEPT ![r] = TRUE]
    /\ UNCHANGED <<limiterVars, pc, stage, rest, dialVars>>

-----------------------------------------------------------------------------
(* dialer.dial, on the transport's goroutine.                              *)

Dialling(r) == AddrKey(NextAddr(r))

\* limiter.acquire for one address: its slot is free.
DialSlot(r) ==
    /\ dpc[r] = "acquire"
    /\ sem[Dialling(r)] < Cap[Dialling(r)]
    /\ sem' = [sem EXCEPT ![Dialling(r)] = @ + 1]
    /\ dpc' = [dpc EXCEPT ![r] = "tick"]
    /\ UNCHANGED <<wait, requestVars, drest, dctx, left, dials, releases, closed>>

DialTick(r) ==
    LET l == Dialling(r) IN
    /\ dpc[r] = "tick"
    /\ wait' = AfterTick(l)
    /\ drest' = [drest EXCEPT ![r] = wait[l]]
    /\ dpc' = [dpc EXCEPT ![r] = IF wait[l] = 0 THEN "check" ELSE "sleep"]
    /\ UNCHANGED <<sem, requestVars, dctx, left, dials, releases, closed>>

DialWake(r) ==
    /\ dpc[r] = "sleep"
    /\ drest[r] = 0
    /\ dpc' = [dpc EXCEPT ![r] = "check"]
    /\ UNCHANGED <<limiterVars, requestVars, drest, dctx, left, dials, releases, closed>>

\* acquire fails on the dial's context.
DialGiveUp(r) ==
    /\ dpc[r] \in {"acquire", "sleep"}
    /\ dctx[r]
    /\ sem' = Released(IF dpc[r] = "sleep" THEN {Dialling(r)} ELSE {})
    /\ drest' = [drest EXCEPT ![r] = 0]
    /\ dpc' = [dpc EXCEPT ![r] = "failed"]
    /\ UNCHANGED <<wait, requestVars, dctx, left, dials, releases, closed>>

\* Mutant: a dial that outlived its request still hands its slot over.
DialCheckOpen(r) ==
    /\ dpc[r] = "check"
    /\ IF dctx[r]
       THEN /\ sem' = Released({Dialling(r)})
            /\ dpc' = [dpc EXCEPT ![r] = "failed"]
            /\ UNCHANGED releases
       ELSE /\ releases' = [releases EXCEPT ![r] = @ \cup {<<dials[r], NextAddr(r)>>}]
            /\ dpc' = [dpc EXCEPT ![r] = "net"]
            /\ UNCHANGED sem
    /\ UNCHANGED <<wait, requestVars, drest, dctx, left, dials, closed>>

\* Under dialer.mu: the slot is handed to the dialer, or, once the request
\* has ended, given back at once.
DialCheck(r) ==
    /\ dpc[r] = "check"
    /\ IF closed[r] \/ dctx[r]
       THEN /\ sem' = Released({Dialling(r)})
            /\ dpc' = [dpc EXCEPT ![r] = "failed"]
            /\ UNCHANGED releases
       ELSE /\ releases' = [releases EXCEPT ![r] = @ \cup {<<dials[r], NextAddr(r)>>}]
            /\ dpc' = [dpc EXCEPT ![r] = "net"]
            /\ UNCHANGED sem
    /\ UNCHANGED <<wait, requestVars, drest, dctx, left, dials, closed>>

\* The TCP dial and, for https, the handshake: a connection, or the next
\* address. Only the dial's error moves on to another address; a failed
\* handshake ends the dial.
DialNet(r) ==
    /\ dpc[r] = "net"
    /\ \/ /\ dpc' = [dpc EXCEPT ![r] = "connected"]
          /\ UNCHANGED left
       \/ /\ dpc' = [dpc EXCEPT ![r] = "failed"]
          /\ UNCHANGED left
       \/ LET rem == left[r] \ {NextAddr(r)} IN
          /\ rem # {}
          /\ left' = [left EXCEPT ![r] = rem]
          /\ dpc' = [dpc EXCEPT ![r] = IF r \in Web THEN "acquire" ELSE "net"]
    /\ UNCHANGED <<limiterVars, requestVars, drest, dctx, dials, releases, closed>>

\* The transport ends its dial once the request is done with it. (A dial
\* that takes no throttle is ended by DialNet failing.)
DialExpire(r) ==
    /\ ~dctx[r]
    /\ r \in Web /\ dpc[r] \in {"acquire", "tick", "sleep", "check", "net"}
    /\ ctx[r] \/ pc[r] \in {"closed", "ended"}
    /\ dctx' = [dctx EXCEPT ![r] = TRUE]
    /\ UNCHANGED <<limiterVars, requestVars, dpc, drest, left, dials, releases, closed>>

-----------------------------------------------------------------------------
Less(n) == IF n = 0 THEN 0 ELSE n - 1

\* Time passes while something waits on it.
Tick ==
    /\ \/ \E l \in Limiters : wait[l] > 0
       \/ \E r \in Requests : rest[r] > 0 \/ drest[r] > 0
    /\ wait' = [l \in Limiters |-> Less(wait[l])]
    /\ rest' = [r \in Requests |-> Less(rest[r])]
    /\ drest' = [r \in Requests |-> Less(drest[r])]
    /\ UNCHANGED <<sem, pc, stage, ctx, dpc, dctx, left, dials, releases, closed>>

RequestStep(r) == TakeSlot(r) \/ TakeTick(r) \/ Wake(r) \/ GiveUp(r) \/ Close(r) \/ Cleanup(r)
DialStep(r)    == DialSlot(r) \/ DialTick(r) \/ DialWake(r) \/ DialGiveUp(r) \/ DialCheck(r) \/ DialNet(r)

Finished == \A r \in Requests : pc[r] = "ended" /\ dpc[r] \in {"off", "connected", "failed"}

Next ==
    \/ \E r \in Requests : RequestStep(r) \/ StartDial(r) \/ Expire(r)
    \/ \E r \in Requests : DialStep(r) \/ DialExpire(r)
    \/ Tick

Spec == Init /\ [][Next]_vars

(* Fairness. Every goroutine keeps running and a timer that is due fires.  *)
(* No timeout is assumed to end a wait (Expire is not fair): a run need    *)
(* not set limits.timeout. Whether net/http dials again is its own choice. *)
Fairness ==
    /\ \A r \in Requests :
        /\ WF_vars(RequestStep(r) \/ (StartDial(r) /\ dpc[r] = "off"))
        /\ WF_vars(DialStep(r))
    /\ WF_vars(Tick)

FairSpec == Spec /\ Fairness

-----------------------------------------------------------------------------
(* Properties.                                                             *)

RequestPCs == {"acquire", "tick", "sleep", "send", "closed", "ended"}
DialPCs    == {"off", "acquire", "tick", "sleep", "check", "net", "connected", "failed"}

\* The type of the throttle's state (throttle.go limiter, send.go dialer).
TypeOK ==
    /\ \A l \in Limiters : sem[l] \in 0 .. Cap[l]
    /\ wait \in [Limiters -> Nat]
    /\ pc \in [Requests -> RequestPCs]
    /\ stage \in [Requests -> {"asset", "provider"}]
    /\ rest \in [Requests -> Nat]
    /\ ctx \in [Requests -> BOOLEAN]
    /\ dpc \in [Requests -> DialPCs]
    /\ drest \in [Requests -> Nat]
    /\ dctx \in [Requests -> BOOLEAN]
    /\ left \in [Requests -> SUBSET Addrs]
    /\ dials \in [Requests -> Nat]
    /\ \A r \in Requests : releases[r] \subseteq (1 .. dials[r]) \X Addrs
    /\ closed \in [Requests -> BOOLEAN]

\* The slots of limiter l some goroutine still has to give back: throttle
\* slots of requests, slots on their way to a dialer, and slots in one.
OwedByRequests(l) ==
    {r \in Requests : pc[r] # "ended" /\ \E s \in HeldStages(r) : Key(r, s) = l}
OwedByDials(l) == {r \in Requests : DialHolds(r) /\ Dialling(r) = l}
OwedByDialers(l) ==
    UNION {{r} \X ReleasesOn(r, l) : r \in {q \in Requests : ~closed[q]}}

\* A slot is taken exactly as long as someone will give it back: no path
\* through acquire, throttle, dial and close leaks one or releases one twice,
\* the dial that outlives its request included (dialer's comment in send.go:
\* "a throttle slot it takes after close is released at once rather than
\* leaked").
SlotsAccounted ==
    \A l \in Limiters :
        sem[l] = Cardinality(OwedByRequests(l)) + Cardinality(OwedByDials(l))
                    + Cardinality(OwedByDialers(l))

Apart(x, y, d) == x - y >= d \/ y - x >= d

\* Two requests asleep on one limiter wake at least its interval apart, and
\* the tick after both is later still, whoever cancelled or released in
\* between (limiter.acquire: the tick is reserved under the lock).
TicksApart ==
    LET asleep  == {r \in Requests : pc[r] = "sleep" /\ rest[r] > 0}
        dialing == {r \in Requests : dpc[r] = "sleep" /\ drest[r] > 0}
    IN
    /\ \A r \in asleep : LET l == Key(r, stage[r]) IN
        /\ rest[r] + Interval[l] <= wait[l]
        /\ \A q \in asleep \ {r} : Key(q, stage[q]) = l => Apart(rest[r], rest[q], Interval[l])
    /\ \A r \in dialing : LET l == Dialling(r) IN
        /\ drest[r] + Interval[l] <= wait[l]
        /\ \A q \in dialing \ {r} : Dialling(q) = l => Apart(drest[r], drest[q], Interval[l])

\* What the throttle promises at every moment: its slots are accounted for
\* and its ticks an interval apart (throttle.go limiter, send.go dialer).
SlotsHold == TypeOK /\ SlotsAccounted /\ TicksApart

\* Every request ends and every slot comes back, also when a dial outlives its
\* request: the limiters are taken in one order (asset, provider, addresses
\* ascending), so no wait needs a timeout to end as long as at most one of the
\* requests that share an address dials again.
AllSlotsReturn == <>[](Finished /\ \A l \in Limiters : sem[l] = 0)
=============================================================================
