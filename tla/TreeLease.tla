----------------------------- MODULE TreeLease -----------------------------
(***************************************************************************)
(* What the cache slots of cv_infra/execution.py promise a case run, in    *)
(* whatever way they are locked, copied and marked: a tree is leased to    *)
(* one holder at a time, an Isaac is started only on a tree that is leased *)
(* and ready, a tree that is ready stays so under everybody who uses it,   *)
(* and a lease is given back no earlier than its Isaac is given up.  What  *)
(* is not promised is that an Isaac is gone when it is given up: it may    *)
(* stay on as a stray.  CacheSlots.tla is shown to implement it.           *)
(***************************************************************************)
EXTENDS Integers

CONSTANTS
    Holders,    \* who may lease a tree
    Nobody,     \* who has a tree that is not leased
    Trees,
    Provisioned \* the trees that are ready from the start

VARIABLES
    lease,      \* per tree: who has it
    ready,      \* the trees an Isaac may use
    using,      \* the holders whose Isaac is running
    strays      \* per tree: Isaac instances that were given up but run on

vars == <<lease, ready, using, strays>>

Init ==
    /\ lease = [t \in Trees |-> Nobody]
    /\ ready = Provisioned
    /\ using = {}
    /\ strays = [t \in Trees |-> 0]

\* One tree at a time.
Take(h, t) ==
    /\ lease[t] = Nobody
    /\ \A u \in Trees : lease[u] # h
    /\ lease' = [lease EXCEPT ![t] = h]
    /\ UNCHANGED <<ready, using, strays>>

Prepare(h, t) ==
    /\ lease[t] = h /\ h \notin using
    /\ ready' = ready \cup {t}
    /\ UNCHANGED <<lease, using, strays>>

Use(h, t) ==
    /\ lease[t] = h /\ t \in ready
    /\ h \notin using /\ using' = using \cup {h}
    /\ UNCHANGED <<lease, ready, strays>>

\* The Isaac of the holder of t ends, or is given up.
GivenUp(h, t) ==
    /\ h \in using /\ using' = using \ {h}
    /\ strays' \in {strays, [strays EXCEPT ![t] = @ + 1]}

End(h, t) ==
    /\ lease[t] = h
    /\ GivenUp(h, t)
    /\ UNCHANGED <<lease, ready>>

Return(h, t) ==
    /\ lease[t] = h /\ lease' = [lease EXCEPT ![t] = Nobody]
    /\ \/ h \notin using /\ UNCHANGED <<using, strays>>
       \/ GivenUp(h, t)         \* at once, if the holder dies
    /\ UNCHANGED ready

StrayEnds(t) ==
    /\ strays[t] > 0
    /\ strays' = [strays EXCEPT ![t] = @ - 1]
    /\ UNCHANGED <<lease, ready, using>>

Next ==
    \/ \E h \in Holders, t \in Trees :
         Take(h, t) \/ Prepare(h, t) \/ Use(h, t) \/ End(h, t) \/ Return(h, t)
    \/ \E t \in Trees : StrayEnds(t)

Spec == Init /\ [][Next]_vars
=============================================================================
