--------------------------- MODULE DomainPlanProofs ---------------------------
(***************************************************************************)
(* What stays true of a plan however many requests race on it.             *)
(***************************************************************************)
EXTENDS DomainPlan, TLAPS

\* The request of t is past its reading of the plan.
Busy(t) == pc[t] \in {"choose", "swap", "store", "mark"}

Typed ==
    /\ plan # Nil => plan \in Plan
    /\ pc \in [Thread -> {"idle", "choose", "swap", "store", "mark"}]
    /\ read \in [Thread -> Plan \cup {Nil}]
    /\ swap \in [Thread -> [out : Instrument, in : Instrument] \cup {Nil}]
    /\ stored \in Seq(SUBSET Instrument)
    /\ excluded \subseteq Instrument

\* What a request holds: an unlocked plan that was shown, complete once it is
\* to be stored, and stored once it is to be marked.
ReadWasShown ==
    \A t \in Thread : Busy(t) =>
        /\ read[t] \in Plan /\ read[t].status # "locked"
        /\ read[t].selected \in shown
        /\ pc[t] \in {"store", "mark"} => Complete(read[t])
        /\ pc[t] = "mark" => read[t].selected \in ToSet(stored)

SwapIsNamed ==
    \A t \in Thread : pc[t] \in {"choose", "swap"} =>
        swap[t] \in [out : Instrument, in : Instrument]

PlanIsShown == plan # Nil => plan.selected \in shown

IInv ==
    /\ Typed /\ ReadWasShown /\ SwapIsNamed /\ PlanIsShown
    /\ StoredWasShown /\ LockedIsStored

-----------------------------------------------------------------------------
\* Appending to the stored universes adds one and keeps the others.
LEMMA StoredGrows ==
    ASSUME NEW S, NEW s \in Seq(S), NEW e \in S
    PROVE  ToSet(Append(s, e)) = ToSet(s) \cup {e}
<1>1. /\ DOMAIN Append(s, e) = (DOMAIN s) \cup {Len(s) + 1}
      /\ Append(s, e)[Len(s) + 1] = e /\ Len(s) + 1 \notin DOMAIN s
      /\ \A i \in DOMAIN s : Append(s, e)[i] = s[i]
    OBVIOUS
<1> QED
    BY <1>1, Zenon DEF ToSet

\* A replacement leaves a plan a plan, with the status it had.
LEMMA RevisedIsPlan ==
    ASSUME NEW p \in Plan, NEW out \in Instrument, NEW in \in Instrument
    PROVE  Revised(p, out, in) \in Plan /\ Revised(p, out, in).status = p.status
BY DEF Plan, Revised

LEMMA InitHolds == Init => IInv
<1> SUFFICES ASSUME Init PROVE IInv
    OBVIOUS
<1>1. plan \in Plan /\ plan.status # "locked" /\ shown = {plan.selected}
    BY DEF Init, Proposed
<1>2. ToSet(stored) = {}
    BY DEF Init, ToSet
<1>3. Typed
    BY <1>1 DEF Init, Typed
<1>4. \A t \in Thread : pc[t] = "idle"
    BY DEF Init
<1>5. ReadWasShown /\ SwapIsNamed
    BY <1>4 DEF ReadWasShown, SwapIsNamed, Busy
<1> QED
    BY <1>1, <1>2, <1>3, <1>5
    DEF IInv, PlanIsShown, StoredWasShown, LockedIsStored

\* A request that reads the plan holds what the plan was.
LEMMA ReadKeeps ==
    ASSUME IInv, NEW t \in Thread, NEW next \in {"choose", "store"},
           Read(t, next), next = "store" => Complete(plan),
           swap' \in [Thread -> [out : Instrument, in : Instrument] \cup {Nil}],
           next = "choose" => swap'[t] \in [out : Instrument, in : Instrument],
           \A u \in Thread \ {t} : swap'[u] = swap[u]
    PROVE  IInv'
<1>1. plan \in Plan /\ plan.status # "locked" /\ plan.selected \in shown
    BY DEF IInv, Read, Typed, PlanIsShown
<1>2. /\ pc'[t] = next /\ read'[t] = plan
      /\ \A u \in Thread \ {t} : pc'[u] = pc[u] /\ read'[u] = read[u]
    BY DEF IInv, Read, Typed
<1>3. Typed'
    BY <1>1 DEF IInv, Read, Typed
<1>4. ReadWasShown'
    <2> SUFFICES ASSUME NEW u \in Thread, Busy(u)'
                 PROVE  /\ read[u]' \in Plan /\ read[u]'.status # "locked"
                        /\ read[u]'.selected \in shown'
                        /\ pc[u]' \in {"store", "mark"} => Complete(read[u]')
                        /\ pc[u]' = "mark" => read[u]'.selected \in ToSet(stored)'
        BY DEF ReadWasShown, Complete, ToSet
    <2>1. UNCHANGED <<shown, stored>>
        BY DEF Read
    <2>2. CASE u = t
        BY <1>1, <1>2, <2>1, <2>2
    <2>3. CASE u # t
        BY <1>2, <2>1, <2>3 DEF IInv, ReadWasShown, Busy
    <2> QED
        BY <2>2, <2>3
<1>5. SwapIsNamed'
    BY <1>2 DEF IInv, SwapIsNamed
<1> QED
    BY <1>3, <1>4, <1>5
    DEF IInv, Read, PlanIsShown, StoredWasShown, LockedIsStored, ToSet

\* What the other requests hold does not change when one returns.
LEMMA ReturnKeeps ==
    ASSUME IInv, NEW t \in Thread, Return(t),
           shown \subseteq shown', UNCHANGED stored
    PROVE  ReadWasShown' /\ SwapIsNamed'
<1>1. /\ pc'[t] = "idle"
      /\ \A u \in Thread \ {t} :
            pc'[u] = pc[u] /\ read'[u] = read[u] /\ swap'[u] = swap[u]
    BY DEF IInv, Typed, Return
<1>2. SwapIsNamed'
    BY <1>1 DEF IInv, SwapIsNamed
<1>3. ReadWasShown'
    BY <1>1 DEF IInv, ReadWasShown, Busy, Complete, ToSet
<1> QED
    BY <1>2, <1>3

LEMMA NextKeeps == IInv /\ [Next]_vars => IInv'
<1> SUFFICES ASSUME IInv, [Next]_vars PROVE IInv'
    OBVIOUS
<1> USE DEF IInv
<1>1. CASE UNCHANGED vars
    BY <1>1 DEF vars, Typed, ReadWasShown, SwapIsNamed, PlanIsShown, Busy,
        StoredWasShown, LockedIsStored, Complete, ToSet
<1>2. CASE Restart
    BY <1>2 DEF Restart, Typed, ReadWasShown, SwapIsNamed, PlanIsShown, Busy,
        StoredWasShown, LockedIsStored, ToSet
<1>3. ASSUME NEW t \in Thread, BeginReplace(t) PROVE IInv'
    <2>1. PICK out, in \in Instrument :
            swap' = [swap EXCEPT ![t] = [out |-> out, in |-> in]]
        BY <1>3 DEF BeginReplace
    <2>2. /\ swap' \in [Thread -> [out : Instrument, in : Instrument] \cup {Nil}]
          /\ swap'[t] \in [out : Instrument, in : Instrument]
          /\ \A u \in Thread \ {t} : swap'[u] = swap[u]
        BY <2>1 DEF Typed
    <2> QED
        BY <1>3, <2>2, ReadKeeps DEF BeginReplace
<1>4. ASSUME NEW t \in Thread, BeginLock(t) PROVE IInv'
    <2>1. /\ swap' = swap
          /\ swap \in [Thread -> [out : Instrument, in : Instrument] \cup {Nil}]
        BY <1>4 DEF BeginLock, Typed
    <2> QED
        BY <1>4, <2>1, ReadKeeps DEF BeginLock
<1>5. ASSUME NEW t \in Thread, Choose(t) PROVE IInv'
    <2>1. UNCHANGED <<plan, stored, shown>>
        BY <1>5 DEF Choose
    <2>2. PlanIsShown' /\ StoredWasShown' /\ LockedIsStored'
        BY <2>1 DEF PlanIsShown, StoredWasShown, LockedIsStored, ToSet
    <2>3. swap[t] \in [out : Instrument, in : Instrument]
        BY <1>5 DEF Choose, SwapIsNamed
    <2>4. CASE Return(t) /\ UNCHANGED excluded
        <3>1. Typed'
            BY <2>1, <2>4 DEF Return, Typed
        <3>2. ReadWasShown' /\ SwapIsNamed'
            BY <2>1, <2>4, ReturnKeeps
        <3> QED
            BY <2>2, <3>1, <3>2
    <2>5. CASE /\ excluded' = (excluded \cup {swap[t].out}) \ {swap[t].in}
               /\ pc' = [pc EXCEPT ![t] = "swap"]
               /\ UNCHANGED <<read, swap>>
        <3>1. Typed'
            BY <2>1, <2>3, <2>5 DEF Typed
        <3>2. /\ pc[t] = "choose" /\ pc'[t] = "swap"
              /\ \A u \in Thread \ {t} : pc'[u] = pc[u]
            BY <1>5, <2>5 DEF Choose, Typed
        <3>3. ReadWasShown'
            BY <2>1, <2>5, <3>2 DEF ReadWasShown, Busy, Complete, ToSet
        <3>4. SwapIsNamed'
            BY <2>3, <2>5, <3>2 DEF SwapIsNamed
        <3> QED
            BY <2>2, <3>1, <3>3, <3>4
    <2> QED
        BY <1>5, <2>4, <2>5 DEF Choose
<1>6. ASSUME NEW t \in Thread, Swap(t) PROVE IInv'
    <2>1. /\ read[t] \in Plan /\ read[t].status # "locked"
          /\ swap[t] \in [out : Instrument, in : Instrument]
        BY <1>6 DEF Swap, ReadWasShown, SwapIsNamed, Busy
    <2>2. plan' \in Plan /\ plan'.status # "locked"
        BY <1>6, <2>1, RevisedIsPlan DEF Swap
    <2>3. shown' = shown \cup {plan'.selected} /\ UNCHANGED <<stored, excluded>>
        BY <1>6 DEF Swap
    <2>4. Typed'
        BY <1>6, <2>2, <2>3 DEF Swap, Return, Typed
    <2>5. ReadWasShown' /\ SwapIsNamed'
        BY <1>6, <2>3, ReturnKeeps DEF Swap
    <2> QED
        BY <2>2, <2>3, <2>4, <2>5
        DEF PlanIsShown, StoredWasShown, LockedIsStored, ToSet
<1>7. ASSUME NEW t \in Thread, Store(t) PROVE IInv'
    <2>1. /\ read[t] \in Plan /\ read[t].selected \in shown
          /\ read[t].status # "locked" /\ Complete(read[t])
        BY <1>7 DEF Store, ReadWasShown, Busy
    <2>2. read[t].selected \in SUBSET Instrument
        BY <2>1 DEF Plan
    <2>3. /\ stored' = Append(stored, read[t].selected)
          /\ UNCHANGED <<plan, excluded, read, swap, shown>>
        BY <1>7 DEF Store
    <2>4. ToSet(stored)' = ToSet(stored) \cup {read[t].selected}
        <3>1. ToSet(Append(stored, read[t].selected))
                = ToSet(stored) \cup {read[t].selected}
            BY <2>2, StoredGrows DEF Typed
        <3> QED
            BY <2>3, <3>1 DEF ToSet
    <2>5. /\ pc'[t] = "mark" /\ \A u \in Thread \ {t} : pc'[u] = pc[u]
          /\ Typed'
        BY <1>7, <2>2, <2>3 DEF Store, Typed
    <2>6. ReadWasShown'
        BY <2>1, <2>3, <2>4, <2>5 DEF ReadWasShown, Busy, Complete
    <2>7. StoredWasShown'
        BY <2>1, <2>3, <2>4 DEF StoredWasShown, Complete
    <2>8. LockedIsStored' /\ PlanIsShown'
        BY <2>3, <2>4 DEF LockedIsStored, PlanIsShown
    <2>9. SwapIsNamed'
        BY <2>3, <2>5 DEF SwapIsNamed
    <2> QED
        BY <2>5, <2>6, <2>7, <2>8, <2>9
<1>8. ASSUME NEW t \in Thread, StoreFails(t) PROVE IInv'
    <2>1. UNCHANGED <<plan, excluded, stored, shown>> /\ Return(t)
        BY <1>8 DEF StoreFails
    <2>2. Typed'
        BY <2>1 DEF Return, Typed
    <2>3. ReadWasShown' /\ SwapIsNamed'
        BY <2>1, ReturnKeeps
    <2> QED
        BY <2>1, <2>2, <2>3
        DEF PlanIsShown, StoredWasShown, LockedIsStored, ToSet
<1>9. ASSUME NEW t \in Thread, Mark(t) PROVE IInv'
    <2>1. /\ read[t] \in Plan /\ read[t].selected \in shown
          /\ read[t].selected \in ToSet(stored)
        BY <1>9 DEF Mark, ReadWasShown, Busy
    <2>2. /\ plan' = [read[t] EXCEPT !.status = "locked"] /\ Return(t)
          /\ UNCHANGED <<excluded, stored, shown>>
        BY <1>9 DEF Mark
    <2>3. plan' \in Plan /\ plan'.selected = read[t].selected
        BY <2>1, <2>2 DEF Plan
    <2>4. Typed'
        BY <2>2, <2>3 DEF Return, Typed
    <2>5. ReadWasShown' /\ SwapIsNamed'
        BY <2>2, ReturnKeeps
    <2> QED
        BY <2>1, <2>2, <2>3, <2>4, <2>5
        DEF PlanIsShown, StoredWasShown, LockedIsStored, ToSet
<1> QED
    BY <1>1, <1>2, <1>3, <1>4, <1>5, <1>6, <1>7, <1>8, <1>9 DEF Next, Request

\* However many requests race, a stored universe is complete and was shown to
\* somebody (lock_plan stores the plan it read).
THEOREM StoredIsShown == Spec => []StoredWasShown
<1>1. IInv => StoredWasShown
    BY DEF IInv
<1> QED
    BY InitHolds, NextKeeps, <1>1, PTL DEF Spec

\* However many requests race, a plan marked locked has its universe stored
\* (lock_plan marks the plan it read).
THEOREM LockedIsKept == Spec => []LockedIsStored
<1>1. IInv => LockedIsStored
    BY DEF IInv
<1> QED
    BY InitHolds, NextKeeps, <1>1, PTL DEF Spec

-----------------------------------------------------------------------------
\* One request at a time: nothing begins once a universe is stored.
Turns ==
    ~ raced =>
        /\ \A t, u \in Thread : pc[t] # "idle" /\ pc[u] # "idle" => t = u
        /\ Len(stored) <= 1
        /\ stored # <<>> =>
              /\ \A t \in Thread : pc[t] \in {"idle", "mark"}
              /\ \/ plan = Nil \/ plan.status = "locked"
                 \/ \E t \in Thread : pc[t] = "mark"

LEMMA TurnsHold == IInv /\ Turns /\ [Next]_vars => Turns'
<1> SUFFICES ASSUME IInv, Turns, [Next]_vars, ~ raced' PROVE Turns'
    BY DEF Turns
<1>0. ~ raced /\ Typed
    <2>1. Typed
        BY DEF IInv
    <2>2. CASE \E t \in Thread : BeginReplace(t) \/ BeginLock(t)
        BY <2>1, <2>2, Zenon DEF BeginReplace, BeginLock, Read, Overlap
    <2>3. CASE \E t \in Thread : Choose(t) \/ Swap(t) \/ Store(t) \/ StoreFails(t) \/ Mark(t)
        BY <2>1, <2>3 DEF Choose, Swap, Store, StoreFails, Mark
    <2>4. CASE Restart \/ UNCHANGED vars
        BY <2>1, <2>4 DEF Restart, vars
    <2> QED
        BY <2>2, <2>3, <2>4 DEF Next, Request
<1>1. CASE UNCHANGED vars
    BY <1>0, <1>1 DEF vars, Turns
<1>2. CASE Restart
    BY <1>0, <1>2 DEF Restart, Turns
<1>3. ASSUME NEW t \in Thread, BeginReplace(t) \/ BeginLock(t) PROVE Turns'
    <2>1. PICK next : Read(t, next)
        BY <1>3 DEF BeginReplace, BeginLock
    <2>2. /\ plan # Nil /\ plan.status # "locked" /\ UNCHANGED <<plan, stored>>
          /\ \A u \in Thread \ {t} : pc[u] = "idle" /\ pc'[u] = "idle"
          /\ pc[t] = "idle"
        BY <2>1, <1>0 DEF Read, Overlap, Typed
    <2>3. stored = <<>>
        BY <1>0, <2>2 DEF Turns
    <2> QED
        BY <2>2, <2>3, <1>0 DEF Turns
<1>4. ASSUME NEW t \in Thread, Choose(t) \/ Swap(t) \/ StoreFails(t) PROVE Turns'
    <2>1. pc[t] \notin {"idle", "mark"} /\ UNCHANGED stored
        BY <1>4 DEF Choose, Swap, StoreFails
    <2>2. /\ stored = <<>> /\ Len(stored) <= 1
          /\ \A u \in Thread \ {t} : pc[u] = "idle"
        BY <2>1, <1>0 DEF Turns
    <2>3. \A u \in Thread \ {t} : pc'[u] = pc[u]
        BY <1>4, <1>0 DEF Choose, Swap, StoreFails, Return, Typed
    <2> QED
        BY <2>1, <2>2, <2>3 DEF Turns
<1>5. ASSUME NEW t \in Thread, Store(t) PROVE Turns'
    <2>1. /\ stored = <<>> /\ \A u \in Thread \ {t} : pc[u] = "idle"
        BY <1>5, <1>0 DEF Turns, Store
    <2>2. Len(stored') = 1 /\ pc'[t] = "mark" /\ \A u \in Thread \ {t} : pc'[u] = pc[u]
        BY <1>5, <2>1, <1>0 DEF Store, Typed
    <2> QED
        BY <2>1, <2>2 DEF Turns
<1>6. ASSUME NEW t \in Thread, Mark(t) PROVE Turns'
    <2>1. /\ pc'[t] = "idle" /\ \A u \in Thread \ {t} : pc'[u] = pc[u]
          /\ UNCHANGED stored
        BY <1>6, <1>0 DEF Mark, Return, Typed
    <2>2. read[t] \in Plan
        BY <1>6 DEF Mark, IInv, ReadWasShown, Busy
    <2>3. plan'.status = "locked"
        BY <1>6, <2>2 DEF Mark, Plan
    <2> QED
        BY <1>6, <2>1, <2>3, <1>0 DEF Turns, Mark
<1> QED
    BY <1>1, <1>2, <1>3, <1>4, <1>5, <1>6 DEF Next, Request

\* For any number of threads that take turns, a plan becomes at most one universe
\* ("plan is already locked", lock_plan).
THEOREM OneUniverse == Spec => []OneLock
<1>1. Init => Turns
    BY DEF Init, Turns
<1>2. Turns => OneLock
    BY DEF Turns, OneLock
<1> QED
    BY InitHolds, NextKeeps, TurnsHold, <1>1, <1>2, PTL DEF Spec

=============================================================================
