------------------------------ MODULE JwksCache ------------------------------
(***************************************************************************)
(* JWTAuthenticator (dependencies.py:338-419), which guards GET /mfa/jwt:  *)
(* each process verifies access tokens with a set of keys that it fetches  *)
(* from jwks_url and keeps for jwks_cache_ttl seconds                      *)
(* (utils.timed_lru_cache).  The fetch blocks the event loop of its        *)
(* process.  Behind jwks_url is an identity provider or, as configured in  *)
(* config/settings.toml:42, the service itself.                            *)
(*                                                                         *)
(* Time is kept as what is left of each period, so it needs no bound.      *)
(***************************************************************************)
EXTENDS Integers

CONSTANTS
    Procs,        \* processes of the service
    Provider,     \* an identity provider
    Keys,         \* kids
    Deployments,  \* what may be behind jwks_url, each a set of addresses
    Lifetime,     \* jwks_cache_ttl, in ticks
    Timeout       \* the timeout of requests.get, in ticks

ASSUME JwksAssumption ==
    /\ Lifetime \in Nat /\ Timeout \in Nat
    /\ \A d \in Deployments : d \subseteq Procs \cup {Provider}

VARIABLES
    keys,   \* address behind jwks_url -> the keys its jwks.json lists
    age,    \* kid -> time since an address last listed it, up to Old
    cache,  \* process -> what the lru_cache holds, and time to expiration
    req     \* process -> the request it serves

vars == <<keys, age, cache, req>>

(* An age that tells nothing more. *)
Old == (IF Lifetime < Timeout THEN Timeout ELSE Lifetime) + 1

KeySets == (SUBSET Keys) \ {{}}

Empty == [full |-> FALSE, keys |-> {}, left |-> Lifetime]

Idle == [pc |-> "idle", kid |-> "none", wait |-> 0, got |-> {}]

(* The event loop runs one handler at a time. *)
Free(p) == req[p].pc = "idle"

Listed(k, ks) == \E s \in DOMAIN ks : k \in ks[s]

-----------------------------------------------------------------------------
(* timed_lru_cache, and the fetch behind it. *)

(* Seeded fault: every call adds a lifetime to the expiration. *)
CurrentExtended(c) == IF c.left = 0 THEN Empty ELSE [c EXCEPT !.left = @ + Lifetime]

(* Seeded fault: an expiry moves the expiration and forgets cache_clear. *)
CurrentKept(c) == IF c.left = 0 THEN [c EXCEPT !.left = Lifetime] ELSE c

(* Seeded fault: every call starts the lifetime anew. *)
CurrentSliding(c) == IF c.left = 0 THEN Empty ELSE [c EXCEPT !.left = Lifetime]

(* The cache as a call finds it. *)
Current(c) == IF c.left = 0 THEN Empty ELSE c

Fetching(k) == [pc |-> "fetch", kid |-> k, wait |-> Timeout, got |-> {}]

(* An access token signed with the key k arrives.  With a set of keys in   *)
(* the cache it is decided at once.                                        *)
Begin(p, k) ==
    LET c == Current(cache[p]) IN
    /\ Free(p)
    /\ cache' = [cache EXCEPT ![p] = c]
    /\ req' = IF c.full THEN req ELSE [req EXCEPT ![p] = Fetching(k)]
    /\ UNCHANGED <<keys, age>>

(* GET /.well-known/jwks.json; a process has to be free to serve it. *)
Answer(p, s) ==
    /\ req[p].pc = "fetch"
    /\ s \in Procs => Free(s)
    /\ req' = [req EXCEPT ![p].pc = "answered", ![p].got = keys[s]]
    /\ UNCHANGED <<keys, age, cache>>

(* The key set is cached, whatever the time by now, and decides. *)
Receive(p) ==
    /\ req[p].pc = "answered"
    /\ cache' = [cache EXCEPT ![p].full = TRUE, ![p].keys = req[p].got]
    /\ req' = [req EXCEPT ![p] = Idle]
    /\ UNCHANGED <<keys, age>>

(* lru_cache keeps no exception. *)
GiveUp(p) ==
    /\ ~Free(p)
    /\ req' = [req EXCEPT ![p] = Idle]
    /\ UNCHANGED <<keys, age, cache>>

(* No connection, an error status, or a body that is no key set. *)
FetchFails(p) == req[p].wait > 0 /\ GiveUp(p)

(* Seeded fault: requests.get without a timeout. *)
TimesOutNever(p) == FALSE

TimesOut(p) == req[p].wait = 0 /\ GiveUp(p)

-----------------------------------------------------------------------------
(* Time, restarts, and the rotation of keys. *)

Tick ==
    /\ \A p \in Procs : Free(p) \/ req[p].wait > 0
    /\ cache' = [p \in Procs |-> [cache[p] EXCEPT !.left = IF @ = 0 THEN 0 ELSE @ - 1]]
    /\ req' = [p \in Procs |-> IF Free(p) THEN req[p] ELSE [req[p] EXCEPT !.wait = @ - 1]]
    /\ age' = [k \in Keys |-> IF Listed(k, keys) THEN 0
                              ELSE IF age[k] = Old THEN Old ELSE age[k] + 1]
    /\ UNCHANGED keys

Relist(s, K) ==
    LET ks == [keys EXCEPT ![s] = K] IN
    /\ keys' = ks
    /\ age' = [k \in Keys |-> IF Listed(k, ks) THEN 0 ELSE age[k]]

(* The identity provider rotates its keys. *)
Rotate(K) ==
    /\ Provider \in DOMAIN keys /\ Relist(Provider, K)
    /\ UNCHANGED <<cache, req>>

(* A process starts anew, the only time it reads AUTH.jwt.keys. *)
Restart(p, K) ==
    /\ cache' = [cache EXCEPT ![p] = Empty]
    /\ req' = [req EXCEPT ![p] = Idle]
    /\ IF p \in DOMAIN keys THEN Relist(p, K) ELSE UNCHANGED <<keys, age>>

-----------------------------------------------------------------------------
Init ==
    /\ \E d \in Deployments : keys \in [d -> KeySets]
    /\ age = [k \in Keys |-> IF Listed(k, keys) THEN 0 ELSE Old]
    /\ cache = [p \in Procs |-> Empty]
    /\ req = [p \in Procs |-> Idle]

Disturb ==
    \/ \E K \in KeySets : Rotate(K) \/ \E p \in Procs : Restart(p, K)
    \/ \E p \in Procs : FetchFails(p)

Serve(p) ==
    \/ \E k \in Keys : Begin(p, k)
    \/ \E s \in DOMAIN keys : Answer(p, s)
    \/ Receive(p)
    \/ TimesOut(p)

Next == Tick \/ Disturb \/ \E p \in Procs : Serve(p)

(* Time passes; requests.get returns when it has its answer and raises     *)
(* when it has none in time.                                               *)
Fairness ==
    /\ WF_vars(Tick)
    /\ \A p \in Procs : WF_vars(Receive(p)) /\ WF_vars(TimesOut(p))

Spec == Init /\ [][Next]_vars /\ Fairness

(* Clients keep asking; an address that is free again and again answers    *)
(* at last, and not always too late.                                       *)
Service ==
    \A p \in Procs :
        /\ WF_vars(\E k \in Keys : Begin(p, k))
        /\ SF_vars(\E s \in DOMAIN keys : Answer(p, s))
        /\ SF_vars(Receive(p))

ServedSpec == Spec /\ Service
=============================================================================
