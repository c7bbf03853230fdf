-------------------------- MODULE ThrottleProofs --------------------------
(***************************************************************************)
(* Proofs about Throttle.tla: for any number of attempts, assets,          *)
(* providers and addresses, and any concurrency and pace of each limiter,  *)
(* no slot is leaked or released twice and the ticks lie an interval       *)
(* apart.                                                                  *)
(***************************************************************************)
EXTENDS Throttle, FiniteSetTheorems, WellFoundedInduction, TLAPS

-----------------------------------------------------------------------------
(* The inductive invariant.                                                *)

\* The type, but for the bounds of the semaphores: SlotsAccounted gives the
\* lower one and the guards of the takers the upper one.
Typed ==
    /\ sem \in [Limiters -> Int]
    /\ \A l \in Limiters : sem[l] <= Cap[l]
    /\ wait \in [Limiters -> Nat]
    /\ pc \in [Requests -> RequestPCs]
    /\ stage \in [Requests -> {"asset", "provider"}]
    /\ rest \in [Requests -> Nat]
    /\ ctx \in [Requests -> BOOLEAN]
    /\ dpc \in [Requests -> DialPCs]
    /\ drest \in [Requests -> Nat]
    /\ dctx \in [Requests -> BOOLEAN]
    /\ left \in [Requests -> SUBSET Addrs]
    /\ dials \in [Requests -> Nat]
    /\ releases \in [Requests -> SUBSET (Nat \X Addrs)]
    /\ \A r \in Requests : releases[r] \subseteq (1 .. dials[r]) \X Addrs
    /\ closed \in [Requests -> BOOLEAN]

\* A request waits only at a throttle that it takes.
StageTaken ==
    \A r \in Requests : pc[r] \in {"acquire", "tick", "sleep"} =>
        IF stage[r] = "asset" THEN TakesAsset(r) ELSE TakesProvider(r)

\* A dial in progress has been counted and has an address to try.
Trying(r)  == dpc[r] \in {"acquire", "tick", "sleep", "check", "net"}
AddressLeft == \A r \in Requests : Trying(r) => (left[r] # {} /\ dials[r] > 0)

\* The addresses of this dial that the dialer already has a slot of are the
\* ones tried before; at the connection itself, also the one being tried.
HandedOver ==
    \A r \in Requests : \A a \in left[r] :
        (Trying(r) /\ <<dials[r], a>> \in releases[r]) => (dpc[r] = "net" /\ a = NextAddr(r))

\* The dialer closes when its request ends, and not before.
ClosedAtEnd == \A r \in Requests : closed[r] => pc[r] \in {"closed", "ended"}

IInv ==
    /\ Typed
    /\ StageTaken /\ AddressLeft /\ HandedOver /\ ClosedAtEnd
    /\ SlotsAccounted /\ TicksApart

-----------------------------------------------------------------------------
(* The limiters and the addresses.                                         *)

\* The two throttles of a request and the address of a dial are different
\* limiters.
LEMMA KeyFacts ==
    ASSUME NEW r \in Requests, NEW s \in {"asset", "provider"}
    PROVE  /\ Key(r, s) \in Limiters
           /\ Key(r, "asset") # Key(r, "provider")
           /\ \A a : Key(r, s) # AddrKey(a)
BY ConstantsAssumption DEF ConstantsAssumption, Key, AddrKey, Limiters, AssetKeys, ProviderKeys

\* Concurrencies and intervals are numbers.
LEMMA LimiterFacts == \A l \in Limiters : Cap[l] \in Nat /\ Interval[l] \in Nat
BY ConstantsAssumption DEF ConstantsAssumption

\* A set of addresses that is not empty has a smallest one.
LEMMA SmallestAddress ==
    ASSUME NEW A \in SUBSET Nat, A # {}
    PROVE  \E a \in A : \A b \in A : a <= b
<1>1. PICK a \in A : \A b \in A : ~(<<b, a>> \in OpToRel(<, Nat))
  BY NatLessThanWellFounded, WFMin
<1>2. \A b \in A : ~(b < a)
  BY <1>1 DEF OpToRel
<1> QED
  BY <1>2

\* sortAddrs: the address a dial tries is one it has left.
LEMMA NextAddrFacts ==
    ASSUME NEW r \in Requests, Typed, left[r] # {}
    PROVE  /\ NextAddr(r) \in left[r]
           /\ NextAddr(r) \in Addrs
           /\ Dialling(r) \in Limiters
<1>1. left[r] \in SUBSET Nat /\ left[r] \subseteq Addrs
  BY ConstantsAssumption DEF ConstantsAssumption, Typed
<1>2. NextAddr(r) \in left[r]
  BY <1>1, SmallestAddress DEF NextAddr
<1> QED
  BY <1>1, <1>2 DEF Dialling, AddrKey, Limiters, AddrKeys

\* What a request holds and where it waits depends on its own state only.
LEMMA SameRequest ==
    ASSUME NEW q \in Requests, pc'[q] = pc[q], stage'[q] = stage[q]
    PROVE  /\ HeldStages(q)' = HeldStages(q)
           /\ \A s : Key(q, s)' = Key(q, s)
           /\ Key(q, stage[q])' = Key(q, stage[q])
BY DEF HeldStages, Key, TakesAsset, TakesProvider

\* What a dial tries depends on the addresses it has left.
LEMMA SameDial ==
    ASSUME NEW q \in Requests, left'[q] = left[q]
    PROVE  NextAddr(q)' = NextAddr(q) /\ Dialling(q)' = Dialling(q)
BY DEF NextAddr, Dialling, AddrKey

-----------------------------------------------------------------------------
(* The sets that account for the slots are finite.                         *)

\* A finite number of attempts, dials and addresses owes a finite number of
\* slots.
LEMMA OwedFinite ==
    ASSUME Typed, NEW l
    PROVE  /\ IsFiniteSet(OwedByRequests(l))
           /\ IsFiniteSet(OwedByDials(l))
           /\ IsFiniteSet(OwedByDialers(l))
           /\ \A r \in Requests : IsFiniteSet(ReleasesOn(r, l))
<1>1. IsFiniteSet(Requests) /\ IsFiniteSet(Addrs)
  BY ConstantsAssumption DEF ConstantsAssumption
<1>2. OwedByRequests(l) \in SUBSET Requests /\ OwedByDials(l) \in SUBSET Requests
  BY DEF OwedByRequests, OwedByDials
<1>3. ASSUME NEW r \in Requests
      PROVE  IsFiniteSet(ReleasesOn(r, l))
  <2>1. dials[r] \in Nat /\ ReleasesOn(r, l) \in SUBSET ((1 .. dials[r]) \X Addrs)
    BY DEF Typed, ReleasesOn
  <2>2. IsFiniteSet(1 .. dials[r])
    BY <2>1, FS_Interval
  <2>3. IsFiniteSet((1 .. dials[r]) \X Addrs)
    BY <1>1, <2>2, FS_Product
  <2> QED
    BY <2>1, <2>3, FS_Subset
<1>4. IsFiniteSet(OwedByDialers(l))
  <2> DEFINE f == [r \in Requests |-> {r} \X ReleasesOn(r, l)]
             T == {f[r] : r \in Requests}
  <2>1. f \in Surjection(Requests, T)
    BY DEF Surjection
  <2>2. IsFiniteSet(T)
    BY <1>1, <2>1, FS_Surjection
  <2>3. \A t \in T : IsFiniteSet(t)
    <3>1. SUFFICES ASSUME NEW r \in Requests PROVE IsFiniteSet({r} \X ReleasesOn(r, l))
      OBVIOUS
    <3> QED
      BY <1>3, FS_Singleton, FS_Product
  <2>4. OwedByDialers(l) \in SUBSET UNION T
    BY DEF OwedByDialers
  <2> HIDE DEF T
  <2>5. IsFiniteSet(UNION T)
    BY <2>2, <2>3, FS_UNION
  <2> QED
    BY <2>4, <2>5, FS_Subset
<1> QED
  BY <1>1, <1>2, <1>3, <1>4, FS_Subset

\* Counting the slots is what TypeOK's bounds rest on.
LEMMA TypeFollows == Typed /\ SlotsAccounted => TypeOK
<1> SUFFICES ASSUME Typed, SlotsAccounted PROVE TypeOK
  OBVIOUS
<1>1. ASSUME NEW l \in Limiters
      PROVE  sem[l] \in 0 .. Cap[l]
  <2>1. /\ Cardinality(OwedByRequests(l)) \in Nat
        /\ Cardinality(OwedByDials(l)) \in Nat
        /\ Cardinality(OwedByDialers(l)) \in Nat
    BY OwedFinite, FS_CardinalityType
  <2>2. sem[l] \in Int /\ sem[l] >= 0
    BY <2>1 DEF SlotsAccounted, Typed
  <2>3. Cap[l] \in Nat /\ sem[l] <= Cap[l]
    BY ConstantsAssumption DEF ConstantsAssumption, Typed
  <2> QED
    BY <2>2, <2>3
<1> QED
  BY <1>1 DEF Typed, TypeOK

\* A step that puts nobody to sleep, and moves no reserved tick back, keeps
\* the ticks apart.
LEMMA TicksKept ==
    ASSUME Typed, TicksApart, wait' \in [Limiters -> Nat],
           \A l \in Limiters : wait'[l] >= wait[l],
           AddressLeft,
           StageTaken,
           \A q \in Requests :
              (pc'[q] = "sleep" /\ rest'[q] > 0) =>
                 (pc[q] = "sleep" /\ rest'[q] = rest[q] /\ stage'[q] = stage[q]),
           \A q \in Requests :
              (dpc'[q] = "sleep" /\ drest'[q] > 0) =>
                 (dpc[q] = "sleep" /\ drest'[q] = drest[q] /\ left'[q] = left[q])
    PROVE  TicksApart'
<1>1. ASSUME NEW q \in Requests, pc'[q] = "sleep", rest'[q] > 0
      PROVE  /\ pc[q] = "sleep" /\ rest'[q] = rest[q] /\ rest[q] > 0
             /\ Key(q, stage[q])' = Key(q, stage[q])
             /\ Key(q, stage[q]) \in Limiters
  BY <1>1, SameRequest, KeyFacts DEF Typed
<1>2. ASSUME NEW q \in Requests, dpc'[q] = "sleep", drest'[q] > 0
      PROVE  /\ dpc[q] = "sleep" /\ drest'[q] = drest[q] /\ drest[q] > 0
             /\ Dialling(q)' = Dialling(q)
             /\ Dialling(q) \in Limiters
  BY <1>2, SameDial, NextAddrFacts DEF AddressLeft, Trying
<1> DEFINE asleep  == {r \in Requests : pc[r] = "sleep" /\ rest[r] > 0}
           dialing == {r \in Requests : dpc[r] = "sleep" /\ drest[r] > 0}
<1>3. ASSUME NEW r \in asleep'
      PROVE  /\ rest'[r] + Interval[Key(r, stage[r])'] <= wait'[Key(r, stage[r])']
             /\ \A q \in asleep' \ {r} : Key(q, stage[q])' = Key(r, stage[r])'
                    => Apart(rest'[r], rest'[q], Interval[Key(r, stage[r])'])
  BY <1>1, <1>3, ConstantsAssumption DEF TicksApart, Typed, Apart, ConstantsAssumption
<1>4. ASSUME NEW r \in dialing'
      PROVE  /\ drest'[r] + Interval[Dialling(r)'] <= wait'[Dialling(r)']
             /\ \A q \in dialing' \ {r} : Dialling(q)' = Dialling(r)'
                    => Apart(drest'[r], drest'[q], Interval[Dialling(r)'])
  BY <1>2, <1>4, ConstantsAssumption DEF TicksApart, Typed, Apart, ConstantsAssumption
<1> QED
  BY <1>3, <1>4 DEF TicksApart, Apart

\* A step of the request's goroutine leaves the dial's slots where they are.
LEMMA DialSideKept ==
    ASSUME UNCHANGED <<dpc, left, dials, releases>>
    PROVE  /\ AddressLeft => AddressLeft'
           /\ HandedOver => HandedOver'
           /\ \A l : OwedByDials(l)' = OwedByDials(l)
           /\ \A l : closed' = closed => OwedByDialers(l)' = OwedByDialers(l)
<1>1. \A q \in Requests : NextAddr(q)' = NextAddr(q) /\ Dialling(q)' = Dialling(q)
  BY SameDial
<1>2. \A q \in Requests : Trying(q)' = Trying(q) /\ DialHolds(q)' = DialHolds(q)
  BY DEF Trying, DialHolds
<1>3. \A q, l : ReleasesOn(q, l)' = ReleasesOn(q, l)
  BY DEF ReleasesOn, AddrKey
<1>4. AddressLeft => AddressLeft'
  BY <1>2 DEF AddressLeft
<1>5. HandedOver => HandedOver'
  BY <1>1, <1>2 DEF HandedOver
<1>6. \A l : OwedByDials(l)' = OwedByDials(l)
  BY <1>1, <1>2 DEF OwedByDials
<1>7. \A l : closed' = closed => OwedByDialers(l)' = OwedByDialers(l)
  BY <1>3 DEF OwedByDialers
<1> QED
  BY <1>4, <1>5, <1>6, <1>7

\* A step of the dial leaves the request's slots where they are.
LEMMA RequestSideKept ==
    ASSUME UNCHANGED <<pc, stage>>
    PROVE  /\ StageTaken => StageTaken'
           /\ (ClosedAtEnd /\ closed' = closed) => ClosedAtEnd'
           /\ \A l : OwedByRequests(l)' = OwedByRequests(l)
<1>1. \A q \in Requests : HeldStages(q)' = HeldStages(q) /\ \A s : Key(q, s)' = Key(q, s)
  BY SameRequest
<1>2. StageTaken => StageTaken'
  BY DEF StageTaken, TakesAsset, TakesProvider
<1>3. \A l : OwedByRequests(l)' = OwedByRequests(l)
  BY <1>1 DEF OwedByRequests
<1> QED
  BY <1>2, <1>3 DEF ClosedAtEnd

\* A request that is where it was owes what it owed.
LEMMA OthersOwe ==
    ASSUME NEW r \in Requests, NEW l,
           \A q \in Requests \ {r} : pc'[q] = pc[q] /\ stage'[q] = stage[q]
    PROVE  \A q \in Requests \ {r} : q \in OwedByRequests(l)' <=> q \in OwedByRequests(l)
<1> SUFFICES ASSUME NEW q \in Requests \ {r}
             PROVE  q \in OwedByRequests(l)' <=> q \in OwedByRequests(l)
  OBVIOUS
<1>1. HeldStages(q)' = HeldStages(q) /\ \A s : Key(q, s)' = Key(q, s)
  BY SameRequest
<1> QED
  BY <1>1 DEF OwedByRequests

\* A request joins or leaves the ones that owe a slot: the count follows.
LEMMA CountFollows ==
    ASSUME NEW S, NEW T, NEW x, IsFiniteSet(S), S \ {x} = T \ {x}
    PROVE  /\ IsFiniteSet(T)
           /\ (x \in S <=> x \in T) => Cardinality(T) = Cardinality(S)
           /\ (x \notin S /\ x \in T) => Cardinality(T) = Cardinality(S) + 1
           /\ (x \in S /\ x \notin T) => Cardinality(T) = Cardinality(S) - 1
           /\ Cardinality(S) \in Nat
<1>1. (x \in S <=> x \in T) => T = S
  OBVIOUS
<1>2. (x \notin S /\ x \in T) => T = S \cup {x}
  OBVIOUS
<1>3. (x \in S /\ x \notin T) => T = S \ {x}
  OBVIOUS
<1> QED
  BY <1>1, <1>2, <1>3, FS_AddElement, FS_RemoveElement, FS_CardinalityType

-----------------------------------------------------------------------------
(* Every step keeps the invariant: limiter.acquire and the request.        *)

\* acquire takes the slot it then owes.
LEMMA TakeSlotStep ==
    ASSUME IInv, NEW r \in Requests, TakeSlot(r)
    PROVE  IInv'
<1> DEFINE k == Key(r, stage[r])
<1>1. k \in Limiters /\ stage[r] \in {"asset", "provider"}
  BY KeyFacts DEF IInv, Typed
<1>2. Typed'
  <2>1. sem' = [sem EXCEPT ![k] = @ + 1] /\ sem[k] < Cap[k] /\ sem \in [Limiters -> Int]
    BY DEF IInv, Typed, TakeSlot
  <2>2. sem' \in [Limiters -> Int] /\ \A l \in Limiters \ {k} : sem'[l] = sem[l]
    BY <1>1, <2>1
  <2>3. sem'[k] <= Cap[k]
    BY <1>1, <2>1, LimiterFacts
  <2> QED
    BY <2>2, <2>3 DEF IInv, Typed, TakeSlot, RequestPCs, dialVars
<1>3. StageTaken' /\ ClosedAtEnd'
  BY DEF IInv, Typed, TakeSlot, StageTaken, ClosedAtEnd, TakesAsset, TakesProvider, dialVars
<1>4. AddressLeft' /\ HandedOver'
  BY DialSideKept DEF IInv, TakeSlot, dialVars
<1>5. SlotsAccounted'
  <2> SUFFICES ASSUME NEW l \in Limiters
               PROVE  sem'[l] = Cardinality(OwedByRequests(l)') + Cardinality(OwedByDials(l)')
                                 + Cardinality(OwedByDialers(l)')
    BY DEF SlotsAccounted, Limiters, AssetKeys, ProviderKeys, AddrKeys
  <2>1. OwedByDials(l)' = OwedByDials(l) /\ OwedByDialers(l)' = OwedByDialers(l)
    BY DialSideKept DEF TakeSlot, dialVars
  <2>2. OwedByRequests(l) \ {r} = OwedByRequests(l)' \ {r}
    BY OthersOwe DEF OwedByRequests, TakeSlot, IInv, Typed
  <2>3. r \in OwedByRequests(l)' <=> (l = k \/ r \in OwedByRequests(l))
    BY <1>1 DEF OwedByRequests, HeldStages, Key, TakeSlot, IInv, Typed, StageTaken, TakesAsset, TakesProvider
  <2>4. l = k => r \notin OwedByRequests(l)
    BY <1>1, KeyFacts DEF OwedByRequests, HeldStages, TakeSlot
  <2>5. sem'[l] = IF l = k THEN sem[l] + 1 ELSE sem[l]
    BY DEF TakeSlot, IInv, Typed
  <2> QED
    BY <2>1, <2>2, <2>3, <2>4, <2>5, CountFollows, OwedFinite, FS_CardinalityType DEF IInv, SlotsAccounted
<1>6. TicksApart'
  BY TicksKept DEF IInv, Typed, TakeSlot, dialVars
<1> QED
  BY <1>2, <1>3, <1>4, <1>5, <1>6 DEF IInv

\* A request that moves on without taking or giving back a slot.
LEMMA NoSlotMoves ==
    ASSUME IInv, NEW r \in Requests, sem' = sem, UNCHANGED <<dpc, left, dials, releases, closed>>,
           \A q \in Requests \ {r} : pc'[q] = pc[q] /\ stage'[q] = stage[q],
           pc[r] # "ended" /\ pc'[r] # "ended",
           HeldStages(r)' = HeldStages(r)
    PROVE  SlotsAccounted' /\ AddressLeft' /\ HandedOver'
<1>1. ASSUME NEW l \in Limiters
      PROVE  OwedByRequests(l)' = OwedByRequests(l)
  <2>1. \A q \in Requests \ {r} : q \in OwedByRequests(l)' <=> q \in OwedByRequests(l)
    BY OthersOwe
  <2>2. r \in OwedByRequests(l)' <=> r \in OwedByRequests(l)
    BY DEF OwedByRequests, Key
  <2> QED
    BY <2>1, <2>2 DEF OwedByRequests
<1>2. \A l \in Limiters : OwedByDials(l)' = OwedByDials(l) /\ OwedByDialers(l)' = OwedByDialers(l)
  BY DialSideKept
<1>3. SlotsAccounted'
  BY <1>1, <1>2 DEF SlotsAccounted, IInv, Limiters, AssetKeys, ProviderKeys, AddrKeys
<1> QED
  BY <1>3, DialSideKept DEF IInv

\* Past its tick a request holds what it held, and waits at the next throttle
\* it takes or goes on to send.
LEMMA GrantedFacts ==
    ASSUME IInv, NEW r \in Requests, pc[r] \in {"tick", "sleep"}, Granted(r)
    PROVE  /\ HeldStages(r)' = HeldStages(r)
           /\ \A q \in Requests \ {r} : pc'[q] = pc[q] /\ stage'[q] = stage[q]
           /\ pc' \in [Requests -> RequestPCs] /\ stage' \in [Requests -> {"asset", "provider"}]
           /\ pc'[r] \in {"acquire", "send"}
           /\ StageTaken'
           /\ closed' = closed => ClosedAtEnd'
<1>1. stage[r] = "asset" \/ stage[r] = "provider"
  BY DEF IInv, Typed
<1>2. IF stage[r] = "asset" THEN TakesAsset(r) ELSE TakesProvider(r)
  BY DEF IInv, StageTaken
<1>3. /\ pc' \in [Requests -> RequestPCs] /\ stage' \in [Requests -> {"asset", "provider"}]
      /\ pc'[r] \in {"acquire", "send"}
      /\ pc'[r] = "acquire" => (stage'[r] = "provider" /\ stage[r] = "asset" /\ TakesProvider(r))
      /\ pc'[r] = "send" => (stage'[r] = stage[r] /\ ~(stage[r] = "asset" /\ TakesProvider(r)))
      /\ \A q \in Requests \ {r} : pc'[q] = pc[q] /\ stage'[q] = stage[q]
  BY DEF Granted, IInv, Typed, RequestPCs
<1>4. HeldStages(r)' = HeldStages(r)
  <2>1. CASE pc'[r] = "acquire"
    BY <1>2, <1>3, <2>1 DEF HeldStages, TakesAsset, TakesProvider
  <2>2. CASE pc'[r] = "send"
    BY <1>1, <1>2, <1>3, <2>2 DEF HeldStages, TakesAsset, TakesProvider
  <2> QED
    BY <1>3, <2>1, <2>2
<1>5. StageTaken' /\ (closed' = closed => ClosedAtEnd')
  BY <1>3 DEF IInv, StageTaken, ClosedAtEnd, TakesAsset, TakesProvider
<1> QED
  BY <1>3, <1>4, <1>5

\* The timer fires: on to the next throttle, or to the send.
LEMMA WakeStep ==
    ASSUME IInv, NEW r \in Requests, Wake(r)
    PROVE  IInv'
<1>1. /\ pc[r] = "sleep" /\ Granted(r) /\ UNCHANGED <<sem, wait, rest, ctx>>
      /\ UNCHANGED <<dpc, drest, dctx, left, dials, releases, closed>>
  BY DEF Wake, limiterVars, dialVars
<1>2. Typed' /\ StageTaken' /\ ClosedAtEnd'
  BY <1>1, GrantedFacts DEF IInv, Typed
<1>3. SlotsAccounted' /\ AddressLeft' /\ HandedOver'
  BY <1>1, GrantedFacts, NoSlotMoves
<1>4. TicksApart'
  <2>1. \A q \in Requests : pc'[q] = "sleep" => (pc[q] = "sleep" /\ stage'[q] = stage[q])
    BY <1>1, GrantedFacts
  <2> QED
    BY <1>1, <2>1, TicksKept DEF IInv, Typed
<1> QED
  BY <1>2, <1>3, <1>4 DEF IInv

\* limiter.acquire reserves a tick: behind everyone who sleeps on the limiter.
LEMMA TakeTickStep ==
    ASSUME IInv, NEW r \in Requests, TakeTick(r)
    PROVE  IInv'
<1> DEFINE k == Key(r, stage[r])
<1>1. k \in Limiters /\ stage[r] \in {"asset", "provider"}
  BY KeyFacts DEF IInv, Typed
<1>2. /\ pc[r] = "tick" /\ UNCHANGED <<sem, ctx>>
      /\ UNCHANGED <<dpc, drest, dctx, left, dials, releases, closed>>
      /\ wait' = [wait EXCEPT ![k] = @ + Interval[k]]
  BY DEF TakeTick, AfterTick, dialVars
<1>3. /\ wait' \in [Limiters -> Nat]
      /\ \A l \in Limiters : wait'[l] = IF l = k THEN wait[l] + Interval[l] ELSE wait[l]
      /\ \A l \in Limiters : wait'[l] >= wait[l] /\ Interval[l] \in Nat /\ wait[l] \in Nat
  <2>1. wait \in [Limiters -> Nat] /\ \A l \in Limiters : Interval[l] \in Nat
    BY LimiterFacts DEF IInv, Typed
  <2>2. wait' \in [Limiters -> Nat]
    BY <1>1, <1>2, <2>1
  <2>3. \A l \in Limiters : wait'[l] = IF l = k THEN wait[l] + Interval[l] ELSE wait[l]
    BY <1>1, <1>2, <2>1
  <2> QED
    BY <2>1, <2>2, <2>3
<1>4. CASE wait[k] = 0
  <2>1. Granted(r) /\ rest' = rest
    BY <1>4 DEF TakeTick
  <2>2. Typed' /\ StageTaken' /\ ClosedAtEnd'
    BY <1>2, <1>3, <2>1, GrantedFacts DEF IInv, Typed
  <2>3. SlotsAccounted' /\ AddressLeft' /\ HandedOver'
    BY <1>2, <2>1, GrantedFacts, NoSlotMoves
  <2>4. TicksApart'
    <3>1. \A q \in Requests : pc'[q] = "sleep" => (pc[q] = "sleep" /\ stage'[q] = stage[q])
      BY <1>2, <2>1, GrantedFacts
    <3> QED
      BY <1>2, <1>3, <2>1, <3>1, TicksKept DEF IInv
  <2> QED
    BY <2>2, <2>3, <2>4 DEF IInv
<1>5. CASE wait[k] # 0
  <2>1. /\ rest' = [rest EXCEPT ![r] = wait[k]]
        /\ pc' = [pc EXCEPT ![r] = "sleep"]
        /\ stage' = stage
    BY <1>5 DEF TakeTick
  <2>2. Typed' /\ StageTaken' /\ ClosedAtEnd'
    BY <1>1, <1>2, <1>3, <2>1 DEF IInv, Typed, StageTaken, ClosedAtEnd, TakesAsset, TakesProvider, RequestPCs
  <2>3. HeldStages(r)' = HeldStages(r)
    BY <1>2, <2>1 DEF HeldStages, TakesAsset, TakesProvider, IInv, Typed
  <2>4. SlotsAccounted' /\ AddressLeft' /\ HandedOver'
    BY <1>2, <2>1, <2>3, NoSlotMoves DEF IInv, Typed
  <2>5. TicksApart'
    <3> DEFINE asleep  == {q \in Requests : pc[q] = "sleep" /\ rest[q] > 0}
               dialing == {q \in Requests : dpc[q] = "sleep" /\ drest[q] > 0}
    <3>1. \A q \in Requests : Key(q, stage[q])' = Key(q, stage[q]) /\ Key(q, stage[q]) \in Limiters
      BY <2>1, KeyFacts DEF Key, IInv, Typed
    <3>2. \A q \in Requests : Dialling(q)' = Dialling(q)
      BY <1>2, SameDial
    <3>3. asleep' = asleep \cup {r} /\ r \notin asleep /\ dialing' = dialing
      BY <1>1, <1>2, <1>3, <1>5, <2>1 DEF IInv, Typed
    <3>4. \A q \in asleep : rest'[q] = rest[q] /\ rest[q] \in Nat
      BY <1>2, <2>1 DEF IInv, Typed
    <3>5. rest'[r] = wait[k]
      BY <2>1 DEF IInv, Typed
    <3>6. \A q \in asleep :
            /\ rest[q] + Interval[Key(q, stage[q])] <= wait[Key(q, stage[q])]
            /\ \A p \in asleep \ {q} : Key(p, stage[p]) = Key(q, stage[q])
                    => Apart(rest[q], rest[p], Interval[Key(q, stage[q])])
      BY DEF IInv, TicksApart
    <3>7. \A q \in dialing :
            /\ drest[q] + Interval[Dialling(q)] <= wait[Dialling(q)]
            /\ \A p \in dialing \ {q} : Dialling(p) = Dialling(q)
                    => Apart(drest[q], drest[p], Interval[Dialling(q)])
            /\ Dialling(q) \in Limiters
      BY NextAddrFacts DEF IInv, TicksApart, AddressLeft, Trying
    <3>8. ASSUME NEW q \in asleep'
          PROVE  /\ rest'[q] + Interval[Key(q, stage[q])] <= wait'[Key(q, stage[q])]
                 /\ \A p \in asleep' \ {q} : Key(p, stage[p]) = Key(q, stage[q])
                        => Apart(rest'[q], rest'[p], Interval[Key(q, stage[q])])
      <4>1. CASE q = r
        <5>1. rest'[r] + Interval[k] <= wait'[k] /\ rest'[r] \in Nat
          BY <1>1, <1>3, <3>5
        <5>2. ASSUME NEW p \in asleep, Key(p, stage[p]) = k
              PROVE  Apart(rest'[r], rest'[p], Interval[k])
          BY <1>1, <1>3, <3>4, <3>5, <3>6, <5>2 DEF Apart
        <5> QED
          BY <3>3, <4>1, <5>1, <5>2
      <4>2. CASE q \in asleep
        <5> DEFINE j == Key(q, stage[q])
        <5>1. j \in Limiters /\ rest[q] + Interval[j] <= wait[j] /\ rest'[q] = rest[q] /\ rest[q] \in Nat
          BY <3>1, <3>4, <3>6, <4>2
        <5>2. rest'[q] + Interval[j] <= wait'[j]
          BY <1>3, <5>1
        <5>3. ASSUME NEW p \in asleep \ {q}, Key(p, stage[p]) = j
              PROVE  Apart(rest'[q], rest'[p], Interval[j])
          BY <3>4, <3>6, <4>2, <5>3
        <5>4. j = k => Apart(rest'[q], rest'[r], Interval[j])
          BY <1>1, <1>3, <3>5, <5>1 DEF Apart
        <5> QED
          BY <3>3, <4>2, <5>2, <5>3, <5>4
      <4> QED
        BY <3>3, <3>8, <4>1, <4>2
    <3>9. ASSUME NEW q \in dialing
          PROVE  drest[q] + Interval[Dialling(q)] <= wait'[Dialling(q)]
      BY <1>3, <3>7, <3>9 DEF IInv, Typed
    <3> QED
      BY <1>2, <3>1, <3>2, <3>3, <3>7, <3>8, <3>9 DEF TicksApart
  <2> QED
    BY <2>2, <2>4, <2>5 DEF IInv
<1> QED
  BY <1>4, <1>5

\* A request that ends gives back exactly what it held.
LEMMA ReleaseAll ==
    ASSUME IInv, NEW r \in Requests, pc[r] # "ended",
           pc' = [pc EXCEPT ![r] = "ended"],
           UNCHANGED <<stage, dpc, left, dials, releases, closed>>,
           sem' = Released({Key(r, s) : s \in HeldStages(r)})
    PROVE  /\ SlotsAccounted' /\ StageTaken' /\ AddressLeft' /\ HandedOver' /\ ClosedAtEnd'
           /\ sem' \in [Limiters -> Int]
           /\ \A l \in Limiters : sem'[l] <= Cap[l]
           /\ pc' \in [Requests -> RequestPCs]
           /\ \A q \in Requests : pc'[q] = "sleep" => pc[q] = "sleep"
<1>1. \A l \in Limiters : sem'[l] = IF \E s \in HeldStages(r) : Key(r, s) = l THEN sem[l] - 1 ELSE sem[l]
  BY DEF Released
<1>2. SlotsAccounted'
  <2> SUFFICES ASSUME NEW l \in Limiters
               PROVE  sem'[l] = Cardinality(OwedByRequests(l)') + Cardinality(OwedByDials(l)')
                                 + Cardinality(OwedByDialers(l)')
    BY DEF SlotsAccounted, Limiters, AssetKeys, ProviderKeys, AddrKeys
  <2>1. OwedByDials(l)' = OwedByDials(l) /\ OwedByDialers(l)' = OwedByDialers(l)
    BY DialSideKept
  <2>2. OwedByRequests(l) \ {r} = OwedByRequests(l)' \ {r}
    BY OthersOwe DEF OwedByRequests, IInv, Typed
  <2>3. r \notin OwedByRequests(l)'
    BY DEF OwedByRequests, IInv, Typed
  <2>4. r \in OwedByRequests(l) <=> \E s \in HeldStages(r) : Key(r, s) = l
    BY DEF OwedByRequests
  <2>5. /\ Cardinality(OwedByRequests(l)) \in Nat /\ Cardinality(OwedByDials(l)) \in Nat
        /\ Cardinality(OwedByDialers(l)) \in Nat /\ IsFiniteSet(OwedByRequests(l))
    BY OwedFinite, FS_CardinalityType DEF IInv
  <2>6. Cardinality(OwedByRequests(l)') =
           IF r \in OwedByRequests(l) THEN Cardinality(OwedByRequests(l)) - 1
                                      ELSE Cardinality(OwedByRequests(l))
    BY <2>2, <2>3, <2>5, CountFollows
  <2>7. sem[l] = Cardinality(OwedByRequests(l)) + Cardinality(OwedByDials(l)) + Cardinality(OwedByDialers(l))
    BY DEF IInv, SlotsAccounted
  <2> QED
    BY <1>1, <2>1, <2>4, <2>5, <2>6, <2>7
<1>3. sem' \in [Limiters -> Int] /\ \A l \in Limiters : sem'[l] <= Cap[l]
  <2>1. \A l \in Limiters : sem[l] \in Int /\ sem[l] <= Cap[l] /\ Cap[l] \in Nat
    BY LimiterFacts DEF IInv, Typed
  <2> QED
    BY <1>1, <2>1 DEF Released
<1>4. StageTaken' /\ ClosedAtEnd' /\ pc' \in [Requests -> RequestPCs]
  BY DEF IInv, Typed, StageTaken, ClosedAtEnd, TakesAsset, TakesProvider, RequestPCs
<1>5. AddressLeft' /\ HandedOver'
  BY DialSideKept DEF IInv
<1>6. \A q \in Requests : pc'[q] = "sleep" => pc[q] = "sleep"
  BY DEF IInv, Typed
<1> QED
  BY <1>2, <1>3, <1>4, <1>5, <1>6

\* A wait that its context ends gives back what was taken.
LEMMA GiveUpStep ==
    ASSUME IInv, NEW r \in Requests, GiveUp(r)
    PROVE  IInv'
<1>1. /\ pc[r] # "ended" /\ pc' = [pc EXCEPT ![r] = "ended"]
      /\ rest' = [rest EXCEPT ![r] = 0]
      /\ UNCHANGED <<wait, stage, ctx>>
      /\ UNCHANGED <<dpc, drest, dctx, left, dials, releases, closed>>
      /\ sem' = Released({Key(r, s) : s \in HeldStages(r)})
  BY DEF GiveUp, dialVars
<1>2. /\ SlotsAccounted' /\ StageTaken' /\ AddressLeft' /\ HandedOver' /\ ClosedAtEnd'
      /\ sem' \in [Limiters -> Int] /\ \A l \in Limiters : sem'[l] <= Cap[l]
      /\ pc' \in [Requests -> RequestPCs]
  BY <1>1, ReleaseAll
<1>3. Typed'
  BY <1>1, <1>2 DEF IInv, Typed
<1>4. TicksApart'
  BY <1>1, TicksKept DEF IInv, Typed
<1> QED
  BY <1>2, <1>3, <1>4 DEF IInv

\* The attempt's cleanup gives back the throttles.
LEMMA CleanupStep ==
    ASSUME IInv, NEW r \in Requests, Cleanup(r)
    PROVE  IInv'
<1>1. /\ pc[r] # "ended" /\ pc' = [pc EXCEPT ![r] = "ended"]
      /\ UNCHANGED <<wait, stage, rest, ctx>>
      /\ UNCHANGED <<dpc, drest, dctx, left, dials, releases, closed>>
      /\ sem' = Released({Key(r, s) : s \in HeldStages(r)})
  BY DEF Cleanup, dialVars
<1>2. /\ SlotsAccounted' /\ StageTaken' /\ AddressLeft' /\ HandedOver' /\ ClosedAtEnd'
      /\ sem' \in [Limiters -> Int] /\ \A l \in Limiters : sem'[l] <= Cap[l]
      /\ pc' \in [Requests -> RequestPCs]
      /\ \A q \in Requests : pc'[q] = "sleep" => pc[q] = "sleep"
  BY <1>1, ReleaseAll
<1>3. Typed'
  BY <1>1, <1>2 DEF IInv, Typed
<1>4. TicksApart'
  BY <1>1, <1>2, TicksKept DEF IInv, Typed
<1> QED
  BY <1>2, <1>3, <1>4 DEF IInv

\* The slots a dialer gives back when it closes are its own.
LEMMA CloseCount ==
    ASSUME IInv, NEW r \in Requests, NEW l, ~closed[r], closed' = [closed EXCEPT ![r] = TRUE],
           releases' = [releases EXCEPT ![r] = {}]
    PROVE  Cardinality(OwedByDialers(l)')
              = Cardinality(OwedByDialers(l)) - Cardinality(ReleasesOn(r, l))
<1> DEFINE T == {r} \X ReleasesOn(r, l)
<1>1. T \subseteq OwedByDialers(l)
  BY DEF OwedByDialers
<1>2. \A q \in Requests \ {r} : ReleasesOn(q, l)' = ReleasesOn(q, l) /\ closed'[q] = closed[q]
  BY DEF ReleasesOn, AddrKey, IInv, Typed
<1>3. closed'[r] = TRUE
  BY DEF IInv, Typed
<1>4. OwedByDialers(l)' = OwedByDialers(l) \ T
  <2>1. ASSUME NEW x \in OwedByDialers(l)'
        PROVE  x \in OwedByDialers(l) /\ x \notin T
    BY <1>2, <1>3, <2>1 DEF OwedByDialers
  <2>2. ASSUME NEW x \in OwedByDialers(l), x \notin T
        PROVE  x \in OwedByDialers(l)'
    <3>1. PICK q \in Requests : ~closed[q] /\ x \in {q} \X ReleasesOn(q, l)
      BY <2>2 DEF OwedByDialers
    <3>2. q # r
      BY <2>2, <3>1
    <3> QED
      BY <1>2, <3>1, <3>2 DEF OwedByDialers
  <2> QED
    BY <2>1, <2>2
<1>5. Cardinality(T) = Cardinality(ReleasesOn(r, l))
  <2>1. IsFiniteSet(ReleasesOn(r, l)) /\ IsFiniteSet({r}) /\ Cardinality({r}) = 1
    BY OwedFinite, FS_Singleton DEF IInv
  <2>2. Cardinality(T) = 1 * Cardinality(ReleasesOn(r, l)) /\ Cardinality(ReleasesOn(r, l)) \in Nat
    BY <2>1, FS_Product, FS_CardinalityType
  <2> QED
    BY <2>2
<1>6. OwedByDialers(l) \cap T = T
  BY <1>1
<1>7. Cardinality(OwedByDialers(l) \ T) = Cardinality(OwedByDialers(l)) - Cardinality(OwedByDialers(l) \cap T)
  <2>1. IsFiniteSet(OwedByDialers(l))
    BY OwedFinite DEF IInv
  <2> HIDE DEF T
  <2> QED
    BY <2>1, FS_Difference
<1> HIDE DEF T
<1> QED
  BY <1>4, <1>5, <1>6, <1>7

\* send returns: the dialer closes and gives back the address slots.
LEMMA CloseStep ==
    ASSUME IInv, NEW r \in Requests, Close(r)
    PROVE  IInv'
<1>1. /\ pc[r] = "send" /\ pc' = [pc EXCEPT ![r] = "closed"]
      /\ closed' = [closed EXCEPT ![r] = TRUE] /\ releases' = [releases EXCEPT ![r] = {}]
      /\ sem' = [l \in Limiters |-> sem[l] - Cardinality(ReleasesOn(r, l))]
      /\ UNCHANGED <<wait, stage, rest, ctx, dpc, drest, dctx, left, dials>>
  BY DEF Close
<1>2. ~closed[r]
  BY <1>1 DEF IInv, ClosedAtEnd
<1>3. \A l \in Limiters : Cardinality(ReleasesOn(r, l)) \in Nat
  BY OwedFinite, FS_CardinalityType DEF IInv
<1>4. Typed'
  <2>1. sem' \in [Limiters -> Int] /\ \A l \in Limiters : sem'[l] <= Cap[l]
    BY <1>1, <1>3, LimiterFacts DEF IInv, Typed
  <2>2. /\ releases' \in [Requests -> SUBSET (Nat \X Addrs)]
        /\ \A q \in Requests : releases'[q] \subseteq (1 .. dials'[q]) \X Addrs
    BY <1>1 DEF IInv, Typed
  <2> QED
    BY <1>1, <2>1, <2>2 DEF IInv, Typed, RequestPCs
<1>5. StageTaken' /\ ClosedAtEnd'
  BY <1>1 DEF IInv, Typed, StageTaken, ClosedAtEnd, TakesAsset, TakesProvider
<1>6. AddressLeft' /\ HandedOver'
  <2>1. \A q \in Requests : NextAddr(q)' = NextAddr(q) /\ Trying(q)' = Trying(q)
    BY <1>1, SameDial DEF Trying
  <2>2. \A q \in Requests : releases'[q] \subseteq releases[q]
    BY <1>1 DEF IInv, Typed
  <2> QED
    BY <1>1, <2>1, <2>2 DEF IInv, AddressLeft, HandedOver
<1>7. SlotsAccounted'
  <2> SUFFICES ASSUME NEW l \in Limiters
               PROVE  sem'[l] = Cardinality(OwedByRequests(l)') + Cardinality(OwedByDials(l)')
                                 + Cardinality(OwedByDialers(l)')
    BY DEF SlotsAccounted, Limiters, AssetKeys, ProviderKeys, AddrKeys
  <2>1. OwedByDials(l)' = OwedByDials(l)
    BY <1>1, SameDial DEF OwedByDials, DialHolds
  <2>2. OwedByRequests(l)' = OwedByRequests(l)
    <3>1. HeldStages(r)' = HeldStages(r)
      BY <1>1 DEF HeldStages, TakesAsset, TakesProvider, IInv, Typed
    <3>2. \A q \in Requests \ {r} : q \in OwedByRequests(l)' <=> q \in OwedByRequests(l)
      BY <1>1, OthersOwe DEF IInv, Typed
    <3>3. r \in OwedByRequests(l)' <=> r \in OwedByRequests(l)
      BY <1>1, <3>1 DEF OwedByRequests, Key, IInv, Typed
    <3> QED
      BY <3>2, <3>3 DEF OwedByRequests
  <2>3. Cardinality(OwedByDialers(l)') = Cardinality(OwedByDialers(l)) - Cardinality(ReleasesOn(r, l))
    BY <1>1, <1>2, CloseCount
  <2>4. /\ Cardinality(OwedByRequests(l)) \in Nat /\ Cardinality(OwedByDials(l)) \in Nat
        /\ Cardinality(OwedByDialers(l)) \in Nat
    BY OwedFinite, FS_CardinalityType DEF IInv
  <2> QED
    BY <1>1, <1>3, <2>1, <2>2, <2>3, <2>4 DEF IInv, SlotsAccounted
<1>8. TicksApart'
  BY <1>1, TicksKept DEF IInv, Typed
<1> QED
  BY <1>4, <1>5, <1>6, <1>7, <1>8 DEF IInv

\* A context that ends changes nothing else.
LEMMA ExpireStep ==
    ASSUME IInv, NEW r \in Requests, Expire(r) \/ DialExpire(r)
    PROVE  IInv'
<1>1. /\ UNCHANGED <<sem, wait, pc, stage, rest>>
      /\ UNCHANGED <<dpc, drest, left, dials, releases, closed>>
      /\ ctx' \in [Requests -> BOOLEAN] /\ dctx' \in [Requests -> BOOLEAN]
  BY DEF Expire, DialExpire, limiterVars, requestVars, dialVars, IInv, Typed
<1>2. Typed'
  BY <1>1 DEF IInv, Typed
<1>3. StageTaken' /\ ClosedAtEnd' /\ AddressLeft' /\ HandedOver'
  BY <1>1, DialSideKept, RequestSideKept DEF IInv
<1>4. SlotsAccounted'
  BY <1>1, DialSideKept, RequestSideKept DEF SlotsAccounted, IInv, Limiters, AssetKeys, ProviderKeys, AddrKeys
<1>5. TicksApart'
  BY <1>1, TicksKept DEF IInv, Typed
<1> QED
  BY <1>2, <1>3, <1>4, <1>5 DEF IInv

-----------------------------------------------------------------------------
(* Every step keeps the invariant: the dialer.                             *)

\* Other dials try what they tried.
LEMMA OthersDial ==
    ASSUME NEW r \in Requests, NEW l,
           \A q \in Requests \ {r} : dpc'[q] = dpc[q] /\ left'[q] = left[q]
    PROVE  OwedByDials(l) \ {r} = OwedByDials(l)' \ {r}
<1>1. \A q \in Requests \ {r} : Dialling(q)' = Dialling(q) /\ DialHolds(q)' = DialHolds(q)
  BY SameDial DEF DialHolds
<1> QED
  BY <1>1 DEF OwedByDials

\* A dial moves on without taking or giving back a slot.
LEMMA NoDialMoves ==
    ASSUME IInv, NEW r \in Requests, UNCHANGED <<sem, pc, stage, releases, closed>>,
           \A q \in Requests \ {r} : dpc'[q] = dpc[q] /\ left'[q] = left[q],
           DialHolds(r)' = DialHolds(r), DialHolds(r) => left'[r] = left[r]
    PROVE  SlotsAccounted' /\ StageTaken' /\ ClosedAtEnd'
<1>1. StageTaken' /\ ClosedAtEnd'
  BY RequestSideKept DEF IInv
<1>2. ASSUME NEW l \in Limiters
      PROVE  /\ OwedByRequests(l)' = OwedByRequests(l)
             /\ OwedByDials(l)' = OwedByDials(l)
             /\ OwedByDialers(l)' = OwedByDialers(l)
  <2>1. OwedByRequests(l)' = OwedByRequests(l)
    BY RequestSideKept
  <2>2. OwedByDialers(l)' = OwedByDialers(l)
    BY DEF OwedByDialers, ReleasesOn, AddrKey
  <2>3. r \in OwedByDials(l)' <=> r \in OwedByDials(l)
    BY SameDial DEF OwedByDials
  <2>4. OwedByDials(l) \ {r} = OwedByDials(l)' \ {r}
    BY OthersDial
  <2> QED
    BY <2>1, <2>2, <2>3, <2>4
<1>3. SlotsAccounted'
  BY <1>2 DEF SlotsAccounted, IInv, Limiters, AssetKeys, ProviderKeys, AddrKeys
<1> QED
  BY <1>1, <1>3

\* A fresh dial has every address of the name to try and no slot of its own.
LEMMA StartDialStep ==
    ASSUME IInv, NEW r \in Requests, StartDial(r)
    PROVE  IInv'
<1>1. /\ pc[r] = "send" /\ dpc[r] \in {"off", "connected"}
      /\ dials' = [dials EXCEPT ![r] = @ + 1] /\ left' = [left EXCEPT ![r] = Answer[r]]
      /\ dpc' = [dpc EXCEPT ![r] = IF r \in Web THEN "acquire" ELSE "net"]
      /\ UNCHANGED <<sem, wait, pc, stage, rest, ctx, drest, dctx, releases, closed>>
  BY DEF StartDial, limiterVars, requestVars
<1>2. Answer[r] \in SUBSET Addrs /\ Answer[r] # {}
  BY ConstantsAssumption DEF ConstantsAssumption
<1>3. /\ dials' \in [Requests -> Nat] /\ dials'[r] = dials[r] + 1
      /\ \A q \in Requests \ {r} : dials'[q] = dials[q]
      /\ dials[r] \in Nat
  BY <1>1 DEF IInv, Typed
<1>4. Typed'
  <2>1. \A q \in Requests : releases[q] \subseteq (1 .. dials'[q]) \X Addrs
    <3>1. \A q \in Requests : releases[q] \subseteq (1 .. dials[q]) \X Addrs
      BY DEF IInv, Typed
    <3>2. (1 .. dials[r]) \subseteq (1 .. dials'[r])
      BY <1>3
    <3> QED
      BY <1>3, <3>1, <3>2
  <2> QED
    BY <1>1, <1>2, <1>3, <2>1 DEF IInv, Typed, DialPCs
<1>5. StageTaken' /\ ClosedAtEnd' /\ SlotsAccounted'
  BY <1>1, NoDialMoves DEF IInv, Typed, DialHolds
<1>6. AddressLeft'
  BY <1>1, <1>2 DEF IInv, Typed, AddressLeft, Trying
<1>7. HandedOver'
  <2>1. \A q \in Requests \ {r} : NextAddr(q)' = NextAddr(q) /\ Trying(q)' = Trying(q)
    BY <1>1, SameDial DEF Trying, IInv, Typed
  <2>2. \A a : <<dials'[r], a>> \notin releases[r]
    BY <1>3 DEF IInv, Typed
  <2> QED
    BY <1>1, <1>3, <2>1, <2>2 DEF IInv, Typed, HandedOver
<1>8. TicksApart'
  BY <1>1, TicksKept DEF IInv, Typed
<1> QED
  BY <1>4, <1>5, <1>6, <1>7, <1>8 DEF IInv

\* acquire takes the slot of the address that the dial is about to try.
LEMMA DialSlotStep ==
    ASSUME IInv, NEW r \in Requests, DialSlot(r)
    PROVE  IInv'
<1> DEFINE k == Dialling(r)
<1>1. /\ dpc[r] = "acquire" /\ sem[k] < Cap[k]
      /\ sem' = [sem EXCEPT ![k] = @ + 1] /\ dpc' = [dpc EXCEPT ![r] = "tick"]
      /\ UNCHANGED <<wait, pc, stage, rest, ctx, drest, dctx, left, dials, releases, closed>>
  BY DEF DialSlot, requestVars
<1>2. k \in Limiters
  BY <1>1, NextAddrFacts DEF IInv, AddressLeft, Trying
<1>3. Typed'
  <2>1. sem' \in [Limiters -> Int] /\ \A l \in Limiters \ {k} : sem'[l] = sem[l]
    BY <1>1, <1>2 DEF IInv, Typed
  <2>2. sem'[k] <= Cap[k]
    BY <1>1, <1>2, LimiterFacts DEF IInv, Typed
  <2> QED
    BY <1>1, <2>1, <2>2 DEF IInv, Typed, DialPCs
<1>4. StageTaken' /\ ClosedAtEnd'
  BY <1>1, RequestSideKept DEF IInv
<1>5. AddressLeft' /\ HandedOver'
  <2>1. \A q \in Requests : NextAddr(q)' = NextAddr(q) /\ Trying(q)' = Trying(q)
    BY <1>1, SameDial DEF Trying, IInv, Typed
  <2> QED
    BY <1>1, <2>1 DEF IInv, Typed, AddressLeft, HandedOver
<1>6. SlotsAccounted'
  <2> SUFFICES ASSUME NEW l \in Limiters
               PROVE  sem'[l] = Cardinality(OwedByRequests(l)') + Cardinality(OwedByDials(l)')
                                 + Cardinality(OwedByDialers(l)')
    BY DEF SlotsAccounted, Limiters, AssetKeys, ProviderKeys, AddrKeys
  <2>1. OwedByRequests(l)' = OwedByRequests(l) /\ OwedByDialers(l)' = OwedByDialers(l)
    BY <1>1, RequestSideKept DEF OwedByDialers, ReleasesOn, AddrKey
  <2>2. OwedByDials(l) \ {r} = OwedByDials(l)' \ {r}
    BY <1>1, OthersDial DEF IInv, Typed
  <2>3. r \notin OwedByDials(l) /\ (r \in OwedByDials(l)' <=> l = k)
    BY <1>1, SameDial DEF OwedByDials, DialHolds, IInv, Typed
  <2>4. /\ Cardinality(OwedByRequests(l)) \in Nat /\ Cardinality(OwedByDials(l)) \in Nat
        /\ Cardinality(OwedByDialers(l)) \in Nat /\ IsFiniteSet(OwedByDials(l))
    BY OwedFinite, FS_CardinalityType DEF IInv
  <2>5. Cardinality(OwedByDials(l)') =
           IF l = k THEN Cardinality(OwedByDials(l)) + 1 ELSE Cardinality(OwedByDials(l))
    BY <2>2, <2>3, <2>4, CountFollows
  <2>6. sem[l] = Cardinality(OwedByRequests(l)) + Cardinality(OwedByDials(l)) + Cardinality(OwedByDialers(l))
    BY DEF IInv, SlotsAccounted
  <2>7. sem'[l] = IF l = k THEN sem[l] + 1 ELSE sem[l]
    BY <1>1 DEF IInv, Typed
  <2> QED
    BY <2>1, <2>4, <2>5, <2>6, <2>7
<1>7. TicksApart'
  BY <1>1, TicksKept DEF IInv, Typed
<1> QED
  BY <1>3, <1>4, <1>5, <1>6, <1>7 DEF IInv

\* A dial whose slot goes back: its own, and one only.
LEMMA DialSlotBack ==
    ASSUME IInv, NEW r \in Requests, DialHolds(r),
           dpc' = [dpc EXCEPT ![r] = "failed"],
           sem' = Released({Dialling(r)}),
           UNCHANGED <<pc, stage, left, dials, releases, closed>>
    PROVE  /\ SlotsAccounted' /\ StageTaken' /\ AddressLeft' /\ HandedOver' /\ ClosedAtEnd'
           /\ sem' \in [Limiters -> Int]
           /\ \A l \in Limiters : sem'[l] <= Cap[l]
           /\ dpc' \in [Requests -> DialPCs]
<1>1. StageTaken' /\ ClosedAtEnd'
  BY RequestSideKept DEF IInv
<1>2. AddressLeft' /\ HandedOver' /\ dpc' \in [Requests -> DialPCs]
  <2>1. \A q \in Requests : NextAddr(q)' = NextAddr(q) /\ (Trying(q)' => dpc'[q] = dpc[q] /\ Trying(q))
    BY SameDial DEF Trying, IInv, Typed
  <2> QED
    BY <2>1 DEF IInv, Typed, AddressLeft, HandedOver, DialPCs
<1>3. \A l \in Limiters : sem'[l] = IF l = Dialling(r) THEN sem[l] - 1 ELSE sem[l]
  BY DEF Released
<1>4. sem' \in [Limiters -> Int] /\ \A l \in Limiters : sem'[l] <= Cap[l]
  <2>1. \A l \in Limiters : sem[l] \in Int /\ sem[l] <= Cap[l] /\ Cap[l] \in Nat
    BY LimiterFacts DEF IInv, Typed
  <2> QED
    BY <1>3, <2>1 DEF Released
<1>5. SlotsAccounted'
  <2> SUFFICES ASSUME NEW l \in Limiters
               PROVE  sem'[l] = Cardinality(OwedByRequests(l)') + Cardinality(OwedByDials(l)')
                                 + Cardinality(OwedByDialers(l)')
    BY DEF SlotsAccounted, Limiters, AssetKeys, ProviderKeys, AddrKeys
  <2>1. OwedByRequests(l)' = OwedByRequests(l) /\ OwedByDialers(l)' = OwedByDialers(l)
    BY RequestSideKept DEF OwedByDialers, ReleasesOn, AddrKey
  <2>2. OwedByDials(l) \ {r} = OwedByDials(l)' \ {r}
    BY OthersDial DEF IInv, Typed
  <2>3. (r \in OwedByDials(l) <=> l = Dialling(r)) /\ r \notin OwedByDials(l)'
    BY DEF OwedByDials, DialHolds, IInv, Typed
  <2>4. /\ Cardinality(OwedByRequests(l)) \in Nat /\ Cardinality(OwedByDials(l)) \in Nat
        /\ Cardinality(OwedByDialers(l)) \in Nat /\ IsFiniteSet(OwedByDials(l))
    BY OwedFinite, FS_CardinalityType DEF IInv
  <2>5. Cardinality(OwedByDials(l)') =
           IF l = Dialling(r) THEN Cardinality(OwedByDials(l)) - 1 ELSE Cardinality(OwedByDials(l))
    BY <2>2, <2>3, <2>4, CountFollows
  <2>6. sem[l] = Cardinality(OwedByRequests(l)) + Cardinality(OwedByDials(l)) + Cardinality(OwedByDialers(l))
    BY DEF IInv, SlotsAccounted
  <2>7. sem'[l] = IF l = Dialling(r) THEN sem[l] - 1 ELSE sem[l]
    BY <1>3
  <2> QED
    BY <2>1, <2>4, <2>5, <2>6, <2>7
<1> QED
  BY <1>1, <1>2, <1>4, <1>5

\* A reserved tick: behind every dial asleep on the address.
LEMMA DialTickStep ==
    ASSUME IInv, NEW r \in Requests, DialTick(r)
    PROVE  IInv'
<1> DEFINE k == Dialling(r)
<1>1. /\ dpc[r] = "tick" /\ drest' = [drest EXCEPT ![r] = wait[k]]
      /\ dpc' = [dpc EXCEPT ![r] = IF wait[k] = 0 THEN "check" ELSE "sleep"]
      /\ wait' = [wait EXCEPT ![k] = @ + Interval[k]]
      /\ UNCHANGED <<sem, pc, stage, rest, ctx, dctx, left, dials, releases, closed>>
  BY DEF DialTick, AfterTick, requestVars
<1>2. k \in Limiters
  BY <1>1, NextAddrFacts DEF IInv, AddressLeft, Trying
<1>3. /\ wait' \in [Limiters -> Nat]
      /\ \A l \in Limiters : wait'[l] = IF l = k THEN wait[l] + Interval[l] ELSE wait[l]
      /\ \A l \in Limiters : wait'[l] >= wait[l] /\ Interval[l] \in Nat /\ wait[l] \in Nat
  <2>1. wait \in [Limiters -> Nat] /\ \A l \in Limiters : Interval[l] \in Nat
    BY LimiterFacts DEF IInv, Typed
  <2>2. wait' \in [Limiters -> Nat]
    BY <1>1, <1>2, <2>1
  <2>3. \A l \in Limiters : wait'[l] = IF l = k THEN wait[l] + Interval[l] ELSE wait[l]
    BY <1>1, <1>2, <2>1
  <2> QED
    BY <2>1, <2>2, <2>3
<1>4. Typed'
  BY <1>1, <1>2, <1>3 DEF IInv, Typed, DialPCs
<1>5. StageTaken' /\ ClosedAtEnd' /\ SlotsAccounted'
  BY <1>1, NoDialMoves DEF IInv, Typed, DialHolds
<1>6. AddressLeft' /\ HandedOver'
  <2>1. \A q \in Requests : NextAddr(q)' = NextAddr(q) /\ Trying(q)' = Trying(q)
    BY <1>1, SameDial DEF Trying, IInv, Typed
  <2> QED
    BY <1>1, <2>1 DEF IInv, Typed, AddressLeft, HandedOver
<1>7. CASE wait[k] = 0
  <2>1. TicksApart'
    BY <1>1, <1>3, <1>7, TicksKept DEF IInv, Typed
  <2> QED
    BY <1>4, <1>5, <1>6, <2>1 DEF IInv
<1>8. CASE wait[k] # 0
  <2> DEFINE asleep  == {q \in Requests : pc[q] = "sleep" /\ rest[q] > 0}
             dialing == {q \in Requests : dpc[q] = "sleep" /\ drest[q] > 0}
  <2>1. \A q \in Requests : Key(q, stage[q])' = Key(q, stage[q]) /\ Key(q, stage[q]) \in Limiters
    BY <1>1, KeyFacts DEF Key, IInv, Typed
  <2>2. \A q \in Requests : Dialling(q)' = Dialling(q)
    BY <1>1, SameDial
  <2>3. dialing' = dialing \cup {r} /\ r \notin dialing /\ asleep' = asleep
    BY <1>1, <1>2, <1>3, <1>8 DEF IInv, Typed
  <2>4. drest'[r] = wait[k] /\ \A q \in dialing : drest'[q] = drest[q] /\ drest[q] \in Nat
    BY <1>1 DEF IInv, Typed
  <2>5. \A q \in asleep :
          /\ rest[q] + Interval[Key(q, stage[q])] <= wait[Key(q, stage[q])]
          /\ \A p \in asleep \ {q} : Key(p, stage[p]) = Key(q, stage[q])
                  => Apart(rest[q], rest[p], Interval[Key(q, stage[q])])
    BY DEF IInv, TicksApart
  <2>6. \A q \in dialing :
          /\ drest[q] + Interval[Dialling(q)] <= wait[Dialling(q)]
          /\ \A p \in dialing \ {q} : Dialling(p) = Dialling(q)
                  => Apart(drest[q], drest[p], Interval[Dialling(q)])
          /\ Dialling(q) \in Limiters
    BY NextAddrFacts DEF IInv, TicksApart, AddressLeft, Trying
  <2>7. ASSUME NEW q \in asleep
        PROVE  rest[q] + Interval[Key(q, stage[q])] <= wait'[Key(q, stage[q])]
    BY <1>3, <2>1, <2>5, <2>7 DEF IInv, Typed
  <2>8. ASSUME NEW q \in dialing'
        PROVE  /\ drest'[q] + Interval[Dialling(q)] <= wait'[Dialling(q)]
               /\ \A p \in dialing' \ {q} : Dialling(p) = Dialling(q)
                      => Apart(drest'[q], drest'[p], Interval[Dialling(q)])
    <3>1. CASE q = r
      <4>1. drest'[r] + Interval[k] <= wait'[k] /\ drest'[r] \in Nat
        BY <1>2, <1>3, <2>4
      <4>2. ASSUME NEW p \in dialing, Dialling(p) = k
            PROVE  Apart(drest'[r], drest'[p], Interval[k])
        BY <1>2, <1>3, <2>4, <2>6, <4>2 DEF Apart
      <4> QED
        BY <2>3, <3>1, <4>1, <4>2
    <3>2. CASE q \in dialing
      <4> DEFINE j == Dialling(q)
      <4>1. j \in Limiters /\ drest[q] + Interval[j] <= wait[j] /\ drest'[q] = drest[q] /\ drest[q] \in Nat
        BY <2>4, <2>6, <3>2
      <4>2. drest'[q] + Interval[j] <= wait'[j]
        BY <1>3, <4>1
      <4>3. ASSUME NEW p \in dialing \ {q}, Dialling(p) = j
            PROVE  Apart(drest'[q], drest'[p], Interval[j])
        BY <2>4, <2>6, <3>2, <4>3
      <4>4. j = k => Apart(drest'[q], drest'[r], Interval[j])
        BY <1>2, <1>3, <2>4, <4>1 DEF Apart
      <4> QED
        BY <2>3, <3>2, <4>2, <4>3, <4>4
    <3> QED
      BY <2>3, <2>8, <3>1, <3>2
  <2>9. TicksApart'
    BY <1>1, <2>1, <2>2, <2>3, <2>5, <2>7, <2>8 DEF TicksApart
  <2> QED
    BY <1>4, <1>5, <1>6, <2>9 DEF IInv
<1> QED
  BY <1>7, <1>8

\* The dial's timer fires.
LEMMA DialWakeStep ==
    ASSUME IInv, NEW r \in Requests, DialWake(r)
    PROVE  IInv'
<1>1. /\ dpc[r] = "sleep" /\ dpc' = [dpc EXCEPT ![r] = "check"]
      /\ UNCHANGED <<sem, wait, pc, stage, rest, ctx, drest, dctx, left, dials, releases, closed>>
  BY DEF DialWake, limiterVars, requestVars
<1>2. Typed'
  BY <1>1 DEF IInv, Typed, DialPCs
<1>3. StageTaken' /\ ClosedAtEnd' /\ SlotsAccounted'
  BY <1>1, NoDialMoves DEF IInv, Typed, DialHolds
<1>4. AddressLeft' /\ HandedOver'
  <2>1. \A q \in Requests : NextAddr(q)' = NextAddr(q) /\ Trying(q)' = Trying(q)
    BY <1>1, SameDial DEF Trying, IInv, Typed
  <2> QED
    BY <1>1, <2>1 DEF IInv, Typed, AddressLeft, HandedOver
<1>5. TicksApart'
  BY <1>1, TicksKept DEF IInv, Typed
<1> QED
  BY <1>2, <1>3, <1>4, <1>5 DEF IInv

\* acquire fails on the dial's context: a slot already taken goes back.
LEMMA DialGiveUpStep ==
    ASSUME IInv, NEW r \in Requests, DialGiveUp(r)
    PROVE  IInv'
<1>1. /\ dpc[r] \in {"acquire", "sleep"}
      /\ sem' = Released(IF dpc[r] = "sleep" THEN {Dialling(r)} ELSE {})
      /\ drest' = [drest EXCEPT ![r] = 0] /\ dpc' = [dpc EXCEPT ![r] = "failed"]
      /\ UNCHANGED <<wait, pc, stage, rest, ctx, dctx, left, dials, releases, closed>>
  BY DEF DialGiveUp, requestVars
<1>2. TicksApart'
  BY <1>1, TicksKept DEF IInv, Typed
<1>3. CASE dpc[r] = "sleep"
  <2>1. /\ SlotsAccounted' /\ StageTaken' /\ AddressLeft' /\ HandedOver' /\ ClosedAtEnd'
        /\ sem' \in [Limiters -> Int] /\ \A l \in Limiters : sem'[l] <= Cap[l]
        /\ dpc' \in [Requests -> DialPCs]
    BY <1>1, <1>3, DialSlotBack DEF DialHolds
  <2> QED
    BY <1>1, <1>2, <2>1 DEF IInv, Typed
<1>4. CASE dpc[r] = "acquire"
  <2>1. sem' = sem
    BY <1>1, <1>4 DEF Released, IInv, Typed
  <2>2. StageTaken' /\ ClosedAtEnd' /\ SlotsAccounted'
    BY <1>1, <1>4, <2>1, NoDialMoves DEF IInv, Typed, DialHolds
  <2>3. \A q \in Requests : NextAddr(q)' = NextAddr(q) /\ (Trying(q)' => dpc'[q] = dpc[q] /\ Trying(q))
    BY <1>1, SameDial DEF Trying, IInv, Typed
  <2>4. AddressLeft' /\ HandedOver'
    BY <1>1, <2>3 DEF IInv, Typed, AddressLeft, HandedOver
  <2>5. Typed'
    BY <1>1, <2>1 DEF IInv, Typed, DialPCs
  <2> QED
    BY <1>2, <2>2, <2>4, <2>5 DEF IInv
<1> QED
  BY <1>1, <1>3, <1>4

\* dialer.take: the slot goes to the dialer, or back once that has closed.
LEMMA DialCheckStep ==
    ASSUME IInv, NEW r \in Requests, DialCheck(r)
    PROVE  IInv'
<1> DEFINE d == <<dials[r], NextAddr(r)>>
<1>1. dpc[r] = "check" /\ UNCHANGED <<wait, pc, stage, rest, ctx, drest, dctx, left, dials, closed>>
  BY DEF DialCheck, requestVars
<1>2. TicksApart'
  <2>1. \A q \in Requests : dpc'[q] = "sleep" => dpc[q] = "sleep"
    BY DEF DialCheck, IInv, Typed
  <2> QED
    BY <1>1, <2>1, TicksKept DEF IInv, Typed
<1>3. CASE closed[r] \/ dctx[r]
  <2>1. /\ sem' = Released({Dialling(r)}) /\ dpc' = [dpc EXCEPT ![r] = "failed"]
        /\ releases' = releases
    BY <1>3 DEF DialCheck
  <2>2. /\ SlotsAccounted' /\ StageTaken' /\ AddressLeft' /\ HandedOver' /\ ClosedAtEnd'
        /\ sem' \in [Limiters -> Int] /\ \A l \in Limiters : sem'[l] <= Cap[l]
        /\ dpc' \in [Requests -> DialPCs]
    BY <1>1, <2>1, DialSlotBack DEF DialHolds
  <2> QED
    BY <1>1, <1>2, <2>1, <2>2 DEF IInv, Typed
<1>4. CASE ~(closed[r] \/ dctx[r])
  <2>1. /\ releases' = [releases EXCEPT ![r] = @ \cup {d}] /\ dpc' = [dpc EXCEPT ![r] = "net"]
        /\ sem' = sem
    BY <1>4 DEF DialCheck
  <2>2. NextAddr(r) \in left[r] /\ NextAddr(r) \in Addrs
    BY <1>1, NextAddrFacts DEF IInv, AddressLeft, Trying
  <2>3. d \notin releases[r]
    BY <1>1, <2>2 DEF IInv, HandedOver, Trying
  <2>4. dials[r] \in 1 .. dials[r]
    BY <1>1 DEF IInv, Typed, AddressLeft, Trying
  <2>5. Typed'
    <3>1. releases' \in [Requests -> SUBSET (Nat \X Addrs)]
      BY <2>1, <2>2 DEF IInv, Typed
    <3>2. \A q \in Requests : releases'[q] \subseteq (1 .. dials[q]) \X Addrs
      BY <2>1, <2>2, <2>4 DEF IInv, Typed
    <3> QED
      BY <1>1, <2>1, <3>1, <3>2 DEF IInv, Typed, DialPCs
  <2>6. StageTaken' /\ ClosedAtEnd'
    BY <1>1, RequestSideKept DEF IInv
  <2>7. AddressLeft' /\ HandedOver'
    <3>1. \A q \in Requests : NextAddr(q)' = NextAddr(q) /\ Trying(q)' = Trying(q)
      BY <1>1, <2>1, SameDial DEF Trying, IInv, Typed
    <3>2. \A q \in Requests : \A a : <<dials[q], a>> \in releases'[q] =>
             (<<dials[q], a>> \in releases[q] \/ (q = r /\ a = NextAddr(r)))
      BY <2>1 DEF IInv, Typed
    <3>3. dpc'[r] = "net" /\ \A q \in Requests \ {r} : dpc'[q] = dpc[q]
      BY <2>1 DEF IInv, Typed
    <3> QED
      BY <1>1, <3>1, <3>2, <3>3 DEF IInv, AddressLeft, HandedOver
  <2>8. SlotsAccounted'
    <3> SUFFICES ASSUME NEW l \in Limiters
                 PROVE  sem'[l] = Cardinality(OwedByRequests(l)') + Cardinality(OwedByDials(l)')
                                   + Cardinality(OwedByDialers(l)')
      BY DEF SlotsAccounted, Limiters, AssetKeys, ProviderKeys, AddrKeys
    <3>1. OwedByRequests(l)' = OwedByRequests(l)
      BY <1>1, RequestSideKept
    <3>2. OwedByDials(l) \ {r} = OwedByDials(l)' \ {r}
      BY <1>1, <2>1, OthersDial DEF IInv, Typed
    <3>3. (r \in OwedByDials(l) <=> l = Dialling(r)) /\ r \notin OwedByDials(l)'
      BY <1>1, <2>1 DEF OwedByDials, DialHolds, IInv, Typed
    <3>4. OwedByDialers(l) \ {<<r, d>>} = OwedByDialers(l)' \ {<<r, d>>}
      <4>1. \A q \in Requests \ {r} : ReleasesOn(q, l)' = ReleasesOn(q, l)
        BY <2>1 DEF ReleasesOn, AddrKey, IInv, Typed
      <4>2. ReleasesOn(r, l)' \ {d} = ReleasesOn(r, l) \ {d}
        BY <2>1 DEF ReleasesOn, AddrKey, IInv, Typed
      <4> QED
        BY <1>1, <4>1, <4>2 DEF OwedByDialers
    <3>5. <<r, d>> \notin OwedByDialers(l) /\ (<<r, d>> \in OwedByDialers(l)' <=> l = Dialling(r))
      <4>1. d \notin ReleasesOn(r, l)
        BY <2>3 DEF ReleasesOn
      <4>2. d \in ReleasesOn(r, l)' <=> l = Dialling(r)
        BY <2>1 DEF ReleasesOn, Dialling, AddrKey, IInv, Typed
      <4> QED
        BY <1>1, <1>4, <4>1, <4>2 DEF OwedByDialers
    <3>6. /\ Cardinality(OwedByRequests(l)) \in Nat /\ Cardinality(OwedByDials(l)) \in Nat
          /\ Cardinality(OwedByDialers(l)) \in Nat
          /\ IsFiniteSet(OwedByDials(l)) /\ IsFiniteSet(OwedByDialers(l))
      BY OwedFinite, FS_CardinalityType DEF IInv
    <3>7. Cardinality(OwedByDials(l)') =
             IF l = Dialling(r) THEN Cardinality(OwedByDials(l)) - 1 ELSE Cardinality(OwedByDials(l))
      BY <3>2, <3>3, <3>6, CountFollows
    <3>8. Cardinality(OwedByDialers(l)') =
             IF l = Dialling(r) THEN Cardinality(OwedByDialers(l)) + 1 ELSE Cardinality(OwedByDialers(l))
      <4> HIDE DEF d
      <4> QED
        BY <3>4, <3>5, <3>6, CountFollows
    <3>9. sem'[l] = Cardinality(OwedByRequests(l)) + Cardinality(OwedByDials(l)) + Cardinality(OwedByDialers(l))
      BY <2>1 DEF IInv, SlotsAccounted
    <3> QED
      BY <3>1, <3>6, <3>7, <3>8, <3>9
  <2> QED
    BY <1>2, <2>5, <2>6, <2>7, <2>8 DEF IInv
<1> QED
  BY <1>3, <1>4

\* The connection, its failure, or the next address of the name.
LEMMA DialNetStep ==
    ASSUME IInv, NEW r \in Requests, DialNet(r)
    PROVE  IInv'
<1>1. /\ dpc[r] = "net" /\ UNCHANGED <<sem, wait, pc, stage, rest, ctx>>
      /\ UNCHANGED <<drest, dctx, dials, releases, closed>>
  BY DEF DialNet, limiterVars, requestVars
<1>2. /\ dpc' \in [Requests -> DialPCs] /\ left' \in [Requests -> SUBSET Addrs]
      /\ \A q \in Requests \ {r} : dpc'[q] = dpc[q] /\ left'[q] = left[q]
      /\ dpc'[r] \in {"connected", "failed", "acquire", "net"}
  BY <1>1 DEF DialNet, IInv, Typed, DialPCs
<1>3. Typed'
  BY <1>1, <1>2 DEF IInv, Typed
<1>4. StageTaken' /\ ClosedAtEnd' /\ SlotsAccounted'
  BY <1>1, <1>2, NoDialMoves DEF DialHolds
<1>5. Trying(r)' => (left'[r] = left[r] \ {NextAddr(r)} /\ left'[r] # {})
  BY <1>1 DEF DialNet, Trying, IInv, Typed
<1>6. \A q \in Requests \ {r} : NextAddr(q)' = NextAddr(q) /\ Trying(q)' = Trying(q)
  BY <1>2, SameDial DEF Trying
<1>7. AddressLeft' /\ HandedOver'
  <2>1. Trying(r)
    BY <1>1 DEF Trying
  <2>2. AddressLeft'
    BY <1>1, <1>2, <1>5, <1>6, <2>1 DEF IInv, AddressLeft
  <2>3. \A a \in left'[r] : Trying(r)' => <<dials[r], a>> \notin releases[r]
    BY <1>5, <2>1 DEF IInv, HandedOver
  <2> QED
    BY <1>1, <1>2, <1>6, <2>2, <2>3 DEF IInv, HandedOver
<1>8. TicksApart'
  <2>1. \A q \in Requests : dpc'[q] = "sleep" => (dpc[q] = "sleep" /\ left'[q] = left[q])
    BY <1>2
  <2> QED
    BY <1>1, <2>1, TicksKept DEF IInv, Typed
<1> QED
  BY <1>3, <1>4, <1>7, <1>8 DEF IInv

-----------------------------------------------------------------------------
(* Time, and the theorem.                                                  *)

\* Time passes alike for a tick and for everyone who sleeps towards it.
LEMMA TickStep ==
    ASSUME IInv, Tick
    PROVE  IInv'
<1>1. /\ wait' = [l \in Limiters |-> Less(wait[l])]
      /\ rest' = [r \in Requests |-> Less(rest[r])] /\ drest' = [r \in Requests |-> Less(drest[r])]
      /\ UNCHANGED <<sem, pc, stage, ctx, dpc, dctx, left, dials, releases, closed>>
  BY DEF Tick
<1>2. \A n \in Nat : Less(n) \in Nat /\ (n > 0 => Less(n) = n - 1)
  BY DEF Less
<1>3. Typed'
  BY <1>1, <1>2 DEF IInv, Typed
<1>4. StageTaken' /\ ClosedAtEnd' /\ AddressLeft' /\ HandedOver'
  BY <1>1, DialSideKept, RequestSideKept DEF IInv
<1>5. SlotsAccounted'
  BY <1>1, DialSideKept, RequestSideKept DEF SlotsAccounted, IInv, Limiters, AssetKeys, ProviderKeys, AddrKeys
<1>6. TicksApart'
  <2> DEFINE asleep  == {q \in Requests : pc[q] = "sleep" /\ rest[q] > 0}
             dialing == {q \in Requests : dpc[q] = "sleep" /\ drest[q] > 0}
  <2>1. \A q \in Requests : Key(q, stage[q])' = Key(q, stage[q]) /\ Key(q, stage[q]) \in Limiters
    BY <1>1, KeyFacts DEF Key, IInv, Typed
  <2>2. \A q \in Requests : Dialling(q)' = Dialling(q)
    BY <1>1, SameDial
  <2>3. \A q \in asleep' : q \in asleep /\ rest'[q] = rest[q] - 1 /\ rest[q] \in Nat /\ rest[q] > 0
    BY <1>1, <1>2 DEF IInv, Typed, Less
  <2>4. \A q \in dialing' : /\ q \in dialing /\ drest'[q] = drest[q] - 1
                            /\ drest[q] \in Nat /\ drest[q] > 0 /\ Dialling(q) \in Limiters
    BY <1>1, <1>2, NextAddrFacts DEF IInv, Typed, Less, AddressLeft, Trying
  <2>5. \A l \in Limiters : /\ wait[l] \in Nat /\ Interval[l] \in Nat
                            /\ wait[l] > 0 => wait'[l] = wait[l] - 1
    BY <1>1, <1>2, LimiterFacts DEF IInv, Typed
  <2>6. ASSUME NEW q \in asleep'
        PROVE  /\ rest'[q] + Interval[Key(q, stage[q])] <= wait'[Key(q, stage[q])]
               /\ \A p \in asleep' \ {q} : Key(p, stage[p]) = Key(q, stage[q])
                      => Apart(rest'[q], rest'[p], Interval[Key(q, stage[q])])
    <3>1. rest[q] + Interval[Key(q, stage[q])] <= wait[Key(q, stage[q])]
      BY <2>3, <2>6 DEF IInv, TicksApart
    <3>2. \A p \in asleep \ {q} : Key(p, stage[p]) = Key(q, stage[q])
                      => Apart(rest[q], rest[p], Interval[Key(q, stage[q])])
      BY <2>3, <2>6 DEF IInv, TicksApart
    <3>3. rest'[q] + Interval[Key(q, stage[q])] <= wait'[Key(q, stage[q])]
      <4>1. PICK j \in Limiters : j = Key(q, stage[q])
        BY <2>1, <2>6
      <4>2. wait[j] \in Nat /\ Interval[j] \in Nat /\ (wait[j] > 0 => wait'[j] = wait[j] - 1)
        BY <2>5
      <4>3. rest[q] + Interval[j] <= wait[j]
        BY <3>1, <4>1
      <4>4. rest'[q] = rest[q] - 1 /\ rest[q] \in Nat /\ rest[q] > 0
        BY <2>3, <2>6
      <4>5. rest'[q] + Interval[j] <= wait'[j]
        BY <4>2, <4>3, <4>4
      <4> QED
        BY <4>1, <4>5
    <3> QED
      BY <2>1, <2>3, <2>5, <2>6, <3>2, <3>3 DEF Apart
  <2>7. ASSUME NEW q \in dialing'
        PROVE  /\ drest'[q] + Interval[Dialling(q)] <= wait'[Dialling(q)]
               /\ \A p \in dialing' \ {q} : Dialling(p) = Dialling(q)
                      => Apart(drest'[q], drest'[p], Interval[Dialling(q)])
    <3>1. drest[q] + Interval[Dialling(q)] <= wait[Dialling(q)]
      BY <2>4, <2>7 DEF IInv, TicksApart
    <3>2. \A p \in dialing \ {q} : Dialling(p) = Dialling(q)
                      => Apart(drest[q], drest[p], Interval[Dialling(q)])
      BY <2>4, <2>7 DEF IInv, TicksApart
    <3>3. drest'[q] + Interval[Dialling(q)] <= wait'[Dialling(q)]
      <4>1. PICK j \in Limiters : j = Dialling(q)
        BY <2>4, <2>7
      <4>2. wait[j] \in Nat /\ Interval[j] \in Nat /\ (wait[j] > 0 => wait'[j] = wait[j] - 1)
        BY <2>5
      <4>3. drest[q] + Interval[j] <= wait[j]
        BY <3>1, <4>1
      <4>4. drest'[q] = drest[q] - 1 /\ drest[q] \in Nat /\ drest[q] > 0
        BY <2>4, <2>7
      <4>5. drest'[q] + Interval[j] <= wait'[j]
        BY <4>2, <4>3, <4>4
      <4> QED
        BY <4>1, <4>5
    <3> QED
      BY <2>4, <2>5, <2>7, <3>2, <3>3 DEF Apart
  <2> QED
    BY <2>1, <2>2, <2>6, <2>7 DEF TicksApart
<1> QED
  BY <1>3, <1>4, <1>5, <1>6 DEF IInv

\* At the start no slot is taken and nobody sleeps.
LEMMA InitIInv == Init => IInv
<1> SUFFICES ASSUME Init PROVE IInv
  OBVIOUS
<1>1. Typed
  BY LimiterFacts DEF Init, InitOf, Typed, RequestPCs, DialPCs, FirstStage
<1>2. StageTaken /\ AddressLeft /\ HandedOver /\ ClosedAtEnd
  BY DEF Init, InitOf, StageTaken, AddressLeft, HandedOver, ClosedAtEnd, Trying, FirstStage,
         TakesAsset, TakesProvider
<1>3. TicksApart
  BY DEF Init, InitOf, TicksApart
<1>4. ASSUME NEW l \in Limiters
      PROVE  OwedByRequests(l) = {} /\ OwedByDials(l) = {} /\ OwedByDialers(l) = {} /\ sem[l] = 0
  <2>1. \A r \in Requests : HeldStages(r) = {}
    BY DEF Init, InitOf, HeldStages, FirstStage, TakesAsset
  <2> QED
    BY <2>1 DEF Init, InitOf, OwedByRequests, OwedByDials, OwedByDialers, DialHolds, ReleasesOn
<1>5. SlotsAccounted
  BY <1>4, FS_EmptySet DEF SlotsAccounted
<1> QED
  BY <1>1, <1>2, <1>3, <1>5 DEF IInv

\* Every step of the throttle keeps the invariant.
LEMMA NextIInv == IInv /\ [Next]_vars => IInv'
<1> SUFFICES ASSUME IInv, [Next]_vars PROVE IInv'
  OBVIOUS
<1>1. ASSUME NEW r \in Requests, RequestStep(r) PROVE IInv'
  BY <1>1, TakeSlotStep, TakeTickStep, WakeStep, GiveUpStep, CloseStep, CleanupStep DEF RequestStep
<1>2. ASSUME NEW r \in Requests, DialStep(r) PROVE IInv'
  BY <1>2, DialSlotStep, DialTickStep, DialWakeStep, DialGiveUpStep, DialCheckStep, DialNetStep DEF DialStep
<1>3. ASSUME NEW r \in Requests, StartDial(r) \/ Expire(r) \/ DialExpire(r) PROVE IInv'
  BY <1>3, StartDialStep, ExpireStep
<1>4. CASE Tick
  BY <1>4, TickStep
<1>5. CASE UNCHANGED vars
  <2>1. UNCHANGED <<sem, wait, pc, stage, rest, ctx, dpc, drest, dctx, left, dials, releases, closed>>
    BY <1>5 DEF vars, limiterVars, requestVars, dialVars
  <2>2. Typed'
    BY <2>1 DEF IInv, Typed
  <2>3. StageTaken' /\ ClosedAtEnd' /\ AddressLeft' /\ HandedOver'
    BY <2>1, DialSideKept, RequestSideKept DEF IInv
  <2>4. SlotsAccounted'
    BY <2>1, DialSideKept, RequestSideKept DEF SlotsAccounted, IInv, Limiters, AssetKeys, ProviderKeys, AddrKeys
  <2>5. TicksApart'
    BY <2>1, TicksKept DEF IInv, Typed
  <2> QED
    BY <2>2, <2>3, <2>4, <2>5 DEF IInv
<1> QED
  BY <1>1, <1>2, <1>3, <1>4, <1>5 DEF Next

\* Of any number of attempts on shared limiters, with dials that outlive
\* their requests, contexts that end anywhere and second dials: every slot
\* taken is owed by exactly one holder, concurrency stays within each
\* limiter's, and sleepers on a limiter wake at least its interval apart
\* (throttle.go limiter.acquire, admit.go throttle, send.go dialer).
THEOREM SlotsAlwaysHold == Spec => []SlotsHold
<1>1. Init => IInv
  BY InitIInv
<1>2. IInv /\ [Next]_vars => IInv'
  BY NextIInv
<1>3. IInv => SlotsHold
  BY TypeFollows DEF IInv, SlotsHold
<1> QED
  BY <1>1, <1>2, <1>3, PTL DEF Spec
=============================================================================
