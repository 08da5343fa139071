--------------------------- MODULE Fencing_proofs ----------------------------
(***************************************************************************)
(* What the fence guarantees until two writes race, for any holders,       *)
(* tokens, calls and failures.                                             *)
(***************************************************************************)
EXTENDS Fencing, TLAPS

Writing(h) == pc[h] \in {"set1", "set2"}

\* No finished write has a token above the fence, nor had one when a call began.
FenceCoversWritten ==
    /\ \A h \in Holders : written[h] > 0 => TokenOf[h] <= store.fence
    /\ \A h \in Holders : \A t \in before[h] : t <= store.fence

\* A holder that has passed the test is ahead of the fence, and after its first SET
\* is the fence.
TestStillHolds ==
    \A h \in Holders :
        /\ pc[h] = "set1" => TokenOf[h] > store.fence
        /\ pc[h] = "set2" => TokenOf[h] = store.fence

\* The token of a holder that has passed the test has not written, nor had it, or a
\* newer one, when the call began.
TokenIsNew ==
    \A h \in Holders : Writing(h) =>
        /\ \A g \in Holders : TokenOf[g] = TokenOf[h] => written[g] = 0
        /\ \A t \in before[h] : t < TokenOf[h]

FInv ==
    /\ TypeOK
    /\ raced \/ ( /\ store.data <= store.fence
                  /\ FenceCoversWritten
                  /\ TestStillHolds
                  /\ TokenIsNew
                  /\ TokenWritesOnce )
-----------------------------------------------------------------------------
LEMMA TokensAreNat ==
    ASSUME FencingAssumption
    PROVE  \A h \in Holders : TokenOf[h] \in Nat /\ TokenOf[h] > 0
BY DEF FencingAssumption

LEMMA FencingTypeInit == ASSUME FencingAssumption PROVE Init => TypeOK
<1> SUFFICES ASSUME Init PROVE TypeOK
    OBVIOUS
<1> USE DEF FencingAssumption, Init, Keys
<1>1. before \in [Holders -> SUBSET Nat]
    OBVIOUS
<1>2. calls \in [Holders -> 0..MaxWrites] /\ faults \in 0..MaxFaults
    OBVIOUS
<1>3. store \in [Keys -> Nat] /\ written \in [Holders -> Nat] /\ raced \in BOOLEAN
    OBVIOUS
<1>4. pc \in [Holders -> {"idle", "get", "set1", "set2"}]
    OBVIOUS
<1> QED BY <1>1, <1>2, <1>3, <1>4 DEF TypeOK

LEMMA FencingTypeStep == ASSUME FencingAssumption PROVE TypeOK /\ [Next]_vars => TypeOK'
<1> SUFFICES ASSUME TypeOK, [Next]_vars PROVE TypeOK'
    OBVIOUS
<1> USE TokensAreNat DEF FencingAssumption, TypeOK, Keys, GoTo
<1>1. CASE UNCHANGED vars
    BY <1>1 DEF vars
<1>2. ASSUME NEW h \in Holders, StartWrite(h) PROVE TypeOK'
    <2>1. Written \in SUBSET Nat
        BY DEF Written
    <2> QED BY <1>2, <2>1 DEF StartWrite
<1>3. ASSUME NEW h \in Holders, GetFence(h) PROVE TypeOK'
    BY <1>3 DEF GetFence, Fail
<1>4. ASSUME NEW h \in Holders, FirstSet(h) PROVE TypeOK'
    <2>1. store' \in [Keys -> Nat]
        BY <1>4 DEF FirstSet, Store, WriteOrder
    <2>2. raced' \in BOOLEAN
        BY <1>4 DEF FirstSet, Race
    <2> QED BY <1>4, <2>1, <2>2 DEF FirstSet, Fail
<1>5. ASSUME NEW h \in Holders, SecondSet(h) PROVE TypeOK'
    <2>1. store' \in [Keys -> Nat]
        BY <1>5 DEF SecondSet, Store, WriteOrder
    <2>2. raced' \in BOOLEAN
        BY <1>5 DEF SecondSet, Race
    <2> QED BY <1>5, <2>1, <2>2 DEF SecondSet, Fail
<1> QED BY <1>1, <1>2, <1>3, <1>4, <1>5 DEF Next, Step

\* Type correctness, whatever the holders and failures.
THEOREM FencingTypeCorrect == ASSUME FencingAssumption PROVE Spec => []TypeOK
BY FencingTypeInit, FencingTypeStep, PTL DEF Spec
-----------------------------------------------------------------------------
LEMMA FInvInit == ASSUME FencingAssumption PROVE Init => FInv
<1> SUFFICES ASSUME Init PROVE FInv
    OBVIOUS
<1>1. TypeOK
    BY FencingTypeInit
<1>2. store.data = 0 /\ store.fence = 0
    BY DEF Init, Keys
<1>3. \A h \in Holders : pc[h] = "idle" /\ written[h] = 0 /\ before[h] = {}
    BY DEF Init
<1> QED
    BY <1>1, <1>2, <1>3 DEF FInv, FenceCoversWritten, TestStillHolds, TokenIsNew, TokenWritesOnce, Writing

\* A step that leaves the store alone and lets nobody pass the test disturbs only
\* what is said of the calls, and a new call begins with tokens the fence covers.
LEMMA CallsPreserve ==
    ASSUME FencingAssumption, FInv, TypeOK', UNCHANGED <<store, written, raced>>,
           \A h \in Holders : pc'[h] = pc[h] \/ pc'[h] \in {"idle", "get"},
           \A h \in Holders : before'[h] = before[h] \/ (before'[h] = Written /\ ~Writing(h)' )
    PROVE  FInv'
<1>1. CASE raced
    BY <1>1 DEF FInv
<1>2. CASE ~raced
    <2> USE <1>2, TokensAreNat DEF FInv
    <2>1. FenceCoversWritten'
        <3>1. \A t \in Written : t <= store.fence
            BY DEF Written, FenceCoversWritten
        <3> QED BY <3>1 DEF FenceCoversWritten
    <2>2. TestStillHolds'
        BY DEF TestStillHolds
    <2>3. TokenIsNew'
        BY DEF TokenIsNew, Writing
    <2>4. TokenWritesOnce'
        BY DEF TokenWritesOnce
    <2> QED BY <2>1, <2>2, <2>3, <2>4
<1> QED BY <1>1, <1>2

\* The test: a token above the fence is new.
LEMMA GetFencePreserves ==
    ASSUME FencingAssumption, FInv, TypeOK', NEW h \in Holders, GetFence(h)
    PROVE  FInv'
<1> USE TokensAreNat
<1>1. CASE pc'[h] = "idle"
    BY <1>1, CallsPreserve DEF GetFence, GoTo, Fail, FInv, TypeOK
<1>2. CASE raced
    BY <1>2 DEF FInv, GetFence
<1>3. CASE ~raced /\ pc'[h] # "idle"
    <2> USE <1>3 DEF FInv
    <2>1. /\ UNCHANGED <<store, written, before, raced>>
          /\ pc' = [pc EXCEPT ![h] = "set1"]
          /\ TokenOf[h] > store.fence
          /\ store.fence \in Nat
        BY DEF GetFence, GoTo, Fail, Stale, TypeOK, Keys
    <2>2. FenceCoversWritten' /\ TokenWritesOnce'
        BY <2>1 DEF FenceCoversWritten, TokenWritesOnce
    <2>3. TestStillHolds'
        BY <2>1 DEF TestStillHolds, TypeOK
    <2>4. TokenIsNew'
        <3>1. \A g \in Holders : TokenOf[g] = TokenOf[h] => written[g] = 0
            BY <2>1 DEF FenceCoversWritten, TypeOK
        <3>2. \A t \in before[h] : t < TokenOf[h]
            BY <2>1 DEF FenceCoversWritten, TypeOK
        <3> QED BY <2>1, <3>1, <3>2 DEF TokenIsNew, Writing, TypeOK
    <2> QED BY <2>1, <2>2, <2>3, <2>4
<1> QED BY <1>1, <1>2, <1>3

\* What a SET does when nobody else has passed the test: h alone is past it.
LEMMA FirstSetPreserves ==
    ASSUME FencingAssumption, FInv, TypeOK', NEW h \in Holders, FirstSet(h)
    PROVE  FInv'
<1> USE TokensAreNat
<1>1. CASE raced'
    BY <1>1 DEF FInv
<1>2. CASE ~raced'
    <2>1. ~raced /\ \A g \in Holders \ {h} : ~Writing(g)
        BY <1>2 DEF FirstSet, Race, Writing
    <2> USE <1>2, <2>1 DEF FInv
    <2>2. /\ UNCHANGED <<written, before>>
          /\ pc' = [pc EXCEPT ![h] = "set2"] \/ pc' = [pc EXCEPT ![h] = "idle"]
          /\ pc[h] = "set1" /\ TokenOf[h] > store.fence
        BY DEF FirstSet, GoTo, Fail, TestStillHolds
    <2>3. \/ store'.fence = TokenOf[h]
          \/ store'.fence = store.fence /\ pc'[h] = "idle"
        BY <2>2 DEF FirstSet, GoTo, Fail, Store, WriteOrder, TypeOK, Keys
    <2>4. store'.data = store.data /\ {store.data, store.fence, store'.fence} \subseteq Nat
        BY DEF FirstSet, Store, WriteOrder, TypeOK, Keys
    <2>5. store'.data <= store'.fence /\ store.fence <= store'.fence
        BY <2>2, <2>3, <2>4
    <2>6. FenceCoversWritten'
        BY <2>2, <2>4, <2>5 DEF FenceCoversWritten, TypeOK
    <2>7. TestStillHolds'
        BY <2>1, <2>2, <2>3 DEF TestStillHolds, Writing, TypeOK
    <2>8. TokenIsNew' /\ TokenWritesOnce'
        BY <2>1, <2>2 DEF TokenIsNew, TokenWritesOnce, Writing, TypeOK
    <2> QED BY <2>5, <2>6, <2>7, <2>8
<1> QED BY <1>1, <1>2

\* The second SET: the data catches up with the fence, and the token has written.
LEMMA SecondSetPreserves ==
    ASSUME FencingAssumption, FInv, TypeOK', NEW h \in Holders, SecondSet(h)
    PROVE  FInv'
<1> USE TokensAreNat
<1>1. CASE raced'
    BY <1>1 DEF FInv
<1>2. CASE ~raced'
    <2>1. ~raced /\ \A g \in Holders \ {h} : ~Writing(g)
        BY <1>2 DEF SecondSet, Race, Writing
    <2> USE <1>2, <2>1 DEF FInv
    <2>2. /\ UNCHANGED before
          /\ pc' = [pc EXCEPT ![h] = "idle"]
          /\ pc[h] = "set2" /\ TokenOf[h] = store.fence
          /\ written' = written \/ written' = [written EXCEPT ![h] = @ + 1]
        BY DEF SecondSet, GoTo, Fail, TestStillHolds
    <2>3. /\ store'.fence = store.fence
          /\ store'.data \in {store.data, TokenOf[h]}
          /\ store.fence \in Nat
        BY DEF SecondSet, Store, WriteOrder, TypeOK, Keys
    <2>4. store'.data <= store'.fence
        BY <2>2, <2>3
    <2>5. \A g \in Holders : written'[g] = written[g] \/ (g = h /\ written'[g] = written[g] + 1)
        BY <2>2 DEF TypeOK
    <2>6. FenceCoversWritten'
        BY <2>2, <2>3, <2>5 DEF FenceCoversWritten, TypeOK
    <2>7. \A g \in Holders : ~Writing(g)'
        BY <2>1, <2>2 DEF Writing, TypeOK
    <2>8. TestStillHolds' /\ TokenIsNew'
        BY <2>7 DEF TestStillHolds, TokenIsNew, Writing
    <2>9. \A g \in Holders : TokenOf[g] = TokenOf[h] => written[g] = 0
        BY <2>2 DEF TokenIsNew, Writing
    <2>10. TokenWritesOnce'
        BY <2>5, <2>9 DEF TokenWritesOnce, TypeOK
    <2> QED BY <2>4, <2>6, <2>8, <2>10
<1> QED BY <1>1, <1>2

LEMMA FInvStep == ASSUME FencingAssumption PROVE FInv /\ [Next]_vars => FInv'
<1> SUFFICES ASSUME FInv, [Next]_vars PROVE FInv'
    OBVIOUS
<1>1. TypeOK'
    BY FencingTypeStep DEF FInv
<1>2. CASE UNCHANGED vars
    BY <1>1, <1>2, CallsPreserve DEF vars
<1>3. ASSUME NEW h \in Holders, StartWrite(h) PROVE FInv'
    <2>1. pc' = [pc EXCEPT ![h] = "get"] /\ before' = [before EXCEPT ![h] = Written]
        BY <1>3 DEF StartWrite, GoTo
    <2>2. \A g \in Holders : pc'[g] = pc[g] \/ pc'[g] \in {"idle", "get"}
        BY <2>1 DEF FInv, TypeOK
    <2>3. \A g \in Holders : before'[g] = before[g] \/ (before'[g] = Written /\ ~Writing(g)')
        BY <2>1 DEF FInv, TypeOK, Writing
    <2> QED BY <1>1, <1>3, <2>2, <2>3, CallsPreserve DEF StartWrite
<1> QED
    BY <1>1, <1>2, <1>3, GetFencePreserves, FirstSetPreserves, SecondSetPreserves DEF Next, Step
-----------------------------------------------------------------------------
\* The fence covers the data in the store until two writes race.
THEOREM FenceCovers == ASSUME FencingAssumption PROVE Spec => []FenceCoversData
<1>1. FInv => FenceCoversData
    BY DEF FInv, FenceCoversData
<1> QED
    BY FInvInit, FInvStep, <1>1, PTL DEF Spec

\* A call that began after a newer write, or one of its token, comes to set nothing.
THEOREM LateRejected == ASSUME FencingAssumption PROVE Spec => []LateWriteRejected
<1>1. FInv => LateWriteRejected
    BY DEF FInv, LateWriteRejected, TokenIsNew, Writing
<1> QED
    BY FInvInit, FInvStep, <1>1, PTL DEF Spec

\* A token writes once.
THEOREM WritesOnce == ASSUME FencingAssumption PROVE Spec => []TokenWritesOnce
<1>1. FInv => TokenWritesOnce
    BY DEF FInv, TokenWritesOnce
<1> QED
    BY FInvInit, FInvStep, <1>1, PTL DEF Spec

\* The data never goes back: whoever sets it is the fence, which covers what it
\* replaces.
THEOREM DataGrows == ASSUME FencingAssumption PROVE Spec => DataNeverGoesBack
<1>1. FInv /\ [Next]_vars => [raced' \/ store'.data >= store.data]_vars
    <2> SUFFICES ASSUME FInv, Next, ~raced' PROVE store'.data >= store.data
        OBVIOUS
    <2>1. {store.data, store.fence} \subseteq Nat
        BY DEF FInv, TypeOK, Keys
    <2>2. ASSUME NEW h \in Holders, SecondSet(h) PROVE store'.data >= store.data
        <3>1. ~raced /\ TokenOf[h] = store.fence
            BY <2>2 DEF FInv, TestStillHolds, SecondSet, Race
        <3> QED BY <2>1, <2>2, <3>1 DEF SecondSet, Store, WriteOrder, FInv, TypeOK, Keys
    <2>3. ASSUME NEW h \in Holders, FirstSet(h) PROVE store'.data >= store.data
        BY <2>1, <2>3 DEF FirstSet, Store, WriteOrder, FInv, TypeOK, Keys
    <2> QED BY <2>1, <2>2, <2>3 DEF Next, Step, StartWrite, GetFence
<1> QED
    BY FInvInit, FInvStep, <1>1, PTL DEF Spec, DataNeverGoesBack
=============================================================================
