--------------------------- MODULE RedlockFencing -----------------------------
(***************************************************************************)
(* Redlock and the fencing writer put together, as WithFencingWriter of    *)
(* src/pkg/redlock/redlock.go does: a client that has the lock calls Write *)
(* with its token, on a store that is one Redis instance, and unlocks when *)
(* the call has returned.  Nothing tells it when its lock is gone.         *)
(*                                                                         *)
(* Both modules keep their state, and a step of one leaves the other's     *)
(* alone, so what holds of Redlock or of Fencing holds here as well.       *)
(***************************************************************************)
EXTENDS Redlock

CONSTANTS
    MaxToken,    \* the largest token the bounds on Lock allow
    MaxWrites    \* bound: the Write calls of one client with one token

VARIABLES
    store, wpc, calls, wfaults, written, before, raced,   \* Fencing's variables
    slipped   \* history: whether a client has lost a key while locking or holding

fencing == <<store, wpc, calls, wfaults, written, before, raced>>

\* A client writes with a token: the pair is the Fencing module's holder.
Holders == Clients \X (1..MaxToken)

W == INSTANCE Fencing WITH TokenOf <- [h \in Holders |-> h[2]], pc <- wpc, faults <- wfaults

ASSUME CompositionAssumption == MaxToken \in Nat /\ W!FencingAssumption

InitBoth == Init /\ W!Init /\ slipped = FALSE

\* The client with the lock takes a step of Write.
Write(c) ==
    /\ pc[c] = "held" /\ token[c] \in 1..MaxToken
    /\ W!Step(<<c, token[c]>>)
    /\ UNCHANGED <<vars, slipped>>

Writing(c) == \E t \in 1..MaxToken : wpc[<<c, t>>] # "idle"

\* A step of the lock; a client unlocks only when its Write has returned.
LockStep ==
    /\ \/ \E c \in Clients : Lock(c) \/ (ClientStep(c) /\ ~Writing(c))
       \/ \E i \in Instances : Expire(i)
    /\ slipped' = (slipped \/ \E c \in Clients : ~(lost'[c] \subseteq lost[c]))
    /\ UNCHANGED fencing

\* The bound on failures is one for both.
NextBoth ==
    /\ LockStep \/ \E c \in Clients : Write(c)
    /\ faults' + wfaults' <= MaxFaults

varsBoth == <<vars, fencing, slipped>>

SpecBoth == InitBoth /\ [][NextBoth]_varsBoth
-----------------------------------------------------------------------------
Lost == \E c \in Clients : Holds(c) /\ lost[c] # {}

\* Writes race only after a holder has lost a key: as long as the lock lasts, the
\* three commands of Write need no protection of their own.
RaceNeedsLostLock == [][raced' /\ ~raced => Lost]_varsBoth

\* The grant c holds, and whether one before it has a larger token.
Mine(c) ==
    CHOOSE n \in DOMAIN granted :
        granted[n].by = c /\ \A m \in DOMAIN granted : granted[m].by = c => m <= n
Overtaken(c) == \E n \in 1..(Mine(c) - 1) : granted[n].token > token[c]

\* c's first Write with its token is refused.
Refused(c) ==
    LET h == <<c, token[c]>> IN
    /\ Holds(c) /\ h \in Holders /\ calls[h] = 1
    /\ wpc[h] = "get" /\ wpc'[h] = "idle" /\ wfaults' = wfaults

\* The fence refuses a client's first write only if another client that counted
\* later was granted first, if some client has lost a key, or if a cleanup has
\* deleted the counter: otherwise the holder of the lock can write.
RefusalHasCause ==
    [][\A c \in Clients : Refused(c) => Overtaken(c) \/ slipped \/ resets]_varsBoth

\* The properties of Fencing, here of the clients that hold locks.  Until two writes
\* race, a write that began after a newer one had returned sets nothing ...
LateWriteRejected == W!LateWriteRejected

\* ... the fence covers the data, whatever failed between the two SETs ...
FenceCoversData == W!FenceCoversData

\* ... a token writes once, even if two locks were granted with it ...
TokenWritesOnce == W!TokenWritesOnce

\* ... and newer data is never replaced by older data.
DataNeverGoesBack == W!DataNeverGoesBack
=============================================================================
