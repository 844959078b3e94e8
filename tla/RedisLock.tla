----------------------------- MODULE RedisLock -----------------------------
(***************************************************************************)
(* utils/redis_lock.py: one key taken with SET NX EX, released only by the *)
(* one whose value it still holds.  A holder that overruns the expiry goes *)
(* on working without knowing it.                                          *)
(***************************************************************************)
CONSTANTS Clients, Nobody

VARIABLES
    owner,   \* whose value the key holds
    client   \* outside, inside, or inside after the key expired

Init ==
    /\ owner = Nobody
    /\ client = [c \in Clients |-> "out"]

LockTypeOK ==
    /\ owner \in Clients \cup {Nobody}
    /\ client \in [Clients -> {"out", "in", "late"}]

Acquire(c) ==
    /\ client[c] = "out"
    /\ owner = Nobody
    /\ owner' = c
    /\ client' = [client EXCEPT ![c] = "in"]

Expire ==
    /\ owner # Nobody
    /\ owner' = Nobody
    /\ client' = [client EXCEPT ![owner] = IF @ = "in" THEN "late" ELSE @]

\* Compare and delete.
Release(c) ==
    /\ client[c] # "out"
    /\ owner' = IF owner = c THEN Nobody ELSE owner
    /\ client' = [client EXCEPT ![c] = "out"]

\* The process dies: its key stays until it expires.
Die(c) ==
    /\ client[c] # "out"
    /\ client' = [client EXCEPT ![c] = "out"]
    /\ UNCHANGED owner

\* While its key has not expired, a holder is the only one inside: nobody releases a
\* lock that another one has taken since (redis_lock.py, "Release ONLY if we still own it").
HolderKeepsKey == \A c \in Clients : client[c] = "in" => owner = c
=============================================================================
