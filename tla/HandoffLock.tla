---------------------------- MODULE HandoffLock ----------------------------
(***************************************************************************)
(* What the hardware mutexes promise to the software of the cluster: each  *)
(* mutex is held by one core at a time, a core that asks for it waits      *)
(* until it gets it, and the core that gets it reads the word that the     *)
(* last release left there.                                                *)
(***************************************************************************)
CONSTANTS Core, Mutex, Value, None

VARIABLES asks,     \* the mutex a core waits for, or None
          holds,    \* the mutex a core holds, or None
          word,     \* the word left in a mutex
          got       \* the word a core read when it got its mutex

lvars == <<asks, holds, word, got>>

LockInit ==
    /\ asks = [c \in Core |-> None]
    /\ holds = [c \in Core |-> None]
    /\ word \in [Mutex -> Value]
    /\ got = [c \in Core |-> None]

Ask(c, m) ==
    /\ asks[c] = None /\ holds[c] = None
    /\ asks' = [asks EXCEPT ![c] = m]
    /\ UNCHANGED <<holds, word, got>>

Acquire(c, m) ==
    /\ asks[c] = m
    /\ \A d \in Core : holds[d] # m
    /\ asks' = [asks EXCEPT ![c] = None]
    /\ holds' = [holds EXCEPT ![c] = m]
    /\ got' = [got EXCEPT ![c] = word[m]]
    /\ UNCHANGED word

Release(c, m, v) ==
    /\ holds[c] = m
    /\ holds' = [holds EXCEPT ![c] = None]
    /\ word' = [word EXCEPT ![m] = v]
    /\ got' = [got EXCEPT ![c] = None]
    /\ UNCHANGED asks

LockNext ==
    \E c \in Core, m \in Mutex :
        Ask(c, m) \/ Acquire(c, m) \/ \E v \in Value : Release(c, m, v)

LockSpec == LockInit /\ [][LockNext]_lvars

=============================================================================
