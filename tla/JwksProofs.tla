------------------------------ MODULE JwksProofs ------------------------------
(***************************************************************************)
(* Proofs about JwksCache, for any processes, keys, lifetime and timeout.  *)
(***************************************************************************)
EXTENDS JwksProperties, TLAPS

Caches == [full : BOOLEAN, keys : SUBSET Keys, left : 0..Lifetime]

Frames == [pc : {"idle", "fetch", "answered"}, kid : Keys \cup {"none"},
           wait : 0..Timeout, got : SUBSET Keys]

LEMMA OldIsLater == Old \in Nat /\ Lifetime < Old /\ Timeout < Old
BY JwksAssumption DEF Old

LEMMA StartOK == Empty \in Caches /\ Idle \in Frames
BY JwksAssumption DEF Empty, Idle, Caches, Frames

(* What a call finds in the cache is of its type. *)
LEMMA CurrentOK ==
    ASSUME NEW c \in Caches
    PROVE  Current(c) \in Caches
BY StartOK DEF Current

-----------------------------------------------------------------------------
(* The type invariant. *)

LEMMA RelistOK ==
    ASSUME TypeOK, NEW s \in DOMAIN keys, NEW K \in KeySets, Relist(s, K)
    PROVE  /\ DOMAIN keys' = DOMAIN keys
           /\ \A x \in DOMAIN keys : keys'[x] \subseteq Keys
           /\ age' \in [Keys -> 0..Old]
           /\ \A k \in Keys : age'[k] <= age[k]
<1>1. keys' = [keys EXCEPT ![s] = K] /\ K \subseteq Keys
  BY DEF Relist, KeySets
<1>2. age' = [k \in Keys |-> IF Listed(k, keys') THEN 0 ELSE age[k]]
  BY <1>1 DEF Relist
<1>3. \A k \in Keys : age[k] \in 0..Old /\ 0 \in 0..Old
  BY OldIsLater DEF TypeOK
<1>4. age' \in [Keys -> 0..Old] /\ \A k \in Keys : age'[k] <= age[k]
  BY <1>2, <1>3
<1> QED
  BY <1>1, <1>4 DEF TypeOK

LEMMA TypeStep ==
    ASSUME TypeOK, [Next]_vars
    PROVE  TypeOK'
<1> DEFINE Keyed(ks) == /\ DOMAIN ks \subseteq Procs \cup {Provider}
                        /\ \A s \in DOMAIN ks : ks[s] \subseteq Keys
<1>t. /\ Keyed(keys) /\ age \in [Keys -> 0..Old]
      /\ cache \in [Procs -> Caches] /\ req \in [Procs -> Frames]
  BY DEF TypeOK, Caches, Frames
<1>g. ASSUME /\ Keyed(keys') /\ age' \in [Keys -> 0..Old]
             /\ cache' \in [Procs -> Caches] /\ req' \in [Procs -> Frames]
      PROVE  TypeOK'
  BY <1>g DEF TypeOK, Caches, Frames, Old
<1> HIDE DEF Keyed
<1>1. CASE UNCHANGED vars
  BY <1>1, <1>t, <1>g DEF vars, Keyed
<1>2. CASE Tick
  <2>1. \A p \in Procs : cache'[p] \in Caches
    <3> SUFFICES ASSUME NEW p \in Procs PROVE cache'[p] \in Caches
      OBVIOUS
    <3>1. cache'[p] = [cache[p] EXCEPT !.left = IF @ = 0 THEN 0 ELSE @ - 1] /\ cache[p] \in Caches
      BY <1>2, <1>t DEF Tick
    <3> QED BY <3>1, JwksAssumption DEF Caches
  <2>2. \A p \in Procs : req'[p] \in Frames
    <3> SUFFICES ASSUME NEW p \in Procs PROVE req'[p] \in Frames
      OBVIOUS
    <3>1. /\ req'[p] = IF Free(p) THEN req[p] ELSE [req[p] EXCEPT !.wait = @ - 1]
          /\ req[p] \in Frames /\ (Free(p) \/ req[p].wait > 0)
      BY <1>2, <1>t DEF Tick
    <3> QED BY <3>1, JwksAssumption DEF Frames
  <2>3. age' \in [Keys -> 0..Old]
    <3>1. age' = [k \in Keys |-> IF Listed(k, keys) THEN 0
                                 ELSE IF age[k] = Old THEN Old ELSE age[k] + 1]
      BY <1>2 DEF Tick
    <3>2. \A k \in Keys : age[k] \in 0..Old
      BY <1>t
    <3>3. \A k \in Keys : (IF age[k] = Old THEN Old ELSE age[k] + 1) \in 0..Old
      BY <3>2, OldIsLater
    <3>4. 0 \in 0..Old
      BY OldIsLater
    <3> QED BY <3>1, <3>3, <3>4
  <2>4. /\ DOMAIN cache' = Procs /\ cache' = [p \in Procs |-> cache'[p]]
        /\ DOMAIN req' = Procs /\ req' = [p \in Procs |-> req'[p]] /\ keys' = keys
    BY <1>2 DEF Tick
  <2> QED BY <2>1, <2>2, <2>3, <2>4, <1>t, <1>g
<1>3. ASSUME NEW K \in KeySets, Rotate(K) PROVE TypeOK'
  <2>1. /\ DOMAIN keys' = DOMAIN keys /\ \A x \in DOMAIN keys : keys'[x] \subseteq Keys
        /\ age' \in [Keys -> 0..Old]
    BY <1>3, RelistOK DEF Rotate
  <2>2. Keyed(keys') /\ cache' = cache /\ req' = req
    BY <2>1, <1>3, <1>t DEF Rotate, Keyed
  <2> QED BY <2>1, <2>2, <1>t, <1>g
<1>4. ASSUME NEW p \in Procs, NEW K \in KeySets, Restart(p, K) PROVE TypeOK'
  <2>1. cache' \in [Procs -> Caches] /\ req' \in [Procs -> Frames]
    BY <1>4, <1>t, StartOK DEF Restart
  <2>2. Keyed(keys') /\ age' \in [Keys -> 0..Old]
    BY <1>4, <1>t, RelistOK DEF Restart, Keyed
  <2> QED BY <2>1, <2>2, <1>g
<1>5. ASSUME NEW p \in Procs, GiveUp(p) PROVE TypeOK'
  <2>1. req' \in [Procs -> Frames]
    BY <1>5, <1>t, StartOK DEF GiveUp
  <2> QED BY <2>1, <1>5, <1>t, <1>g DEF GiveUp
<1>6. ASSUME NEW p \in Procs, NEW k \in Keys, Begin(p, k) PROVE TypeOK'
  <2>1. Fetching(k) \in Frames
    BY JwksAssumption DEF Fetching, Frames
  <2>2. cache' \in [Procs -> Caches]
    BY <1>6, <1>t, CurrentOK DEF Begin
  <2>3. req' \in [Procs -> Frames]
    BY <1>6, <1>t, <2>1 DEF Begin
  <2> QED BY <2>2, <2>3, <1>6, <1>t, <1>g DEF Begin
<1>7. ASSUME NEW p \in Procs, NEW s \in DOMAIN keys, Answer(p, s) PROVE TypeOK'
  <2>1. keys[s] \subseteq Keys /\ req[p] \in Frames
    BY <1>t DEF Keyed
  <2>2. [req[p] EXCEPT !.pc = "answered", !.got = keys[s]] \in Frames
    BY <2>1 DEF Frames
  <2>3. req' = [req EXCEPT ![p] = [req[p] EXCEPT !.pc = "answered", !.got = keys[s]]]
    BY <1>7, <1>t DEF Answer, Frames
  <2>4. req' \in [Procs -> Frames]
    BY <2>2, <2>3, <1>t
  <2> QED BY <2>4, <1>7, <1>t, <1>g DEF Answer
<1>8. ASSUME NEW p \in Procs, Receive(p) PROVE TypeOK'
  <2>1. cache[p] \in Caches /\ req[p] \in Frames
    BY <1>t
  <2>2. [cache[p] EXCEPT !.full = TRUE, !.keys = req[p].got] \in Caches
    BY <2>1 DEF Caches, Frames
  <2>3. cache' = [cache EXCEPT ![p] = [cache[p] EXCEPT !.full = TRUE, !.keys = req[p].got]]
    BY <1>8, <1>t DEF Receive, Caches
  <2>4. cache' \in [Procs -> Caches] /\ req' \in [Procs -> Frames]
    BY <2>2, <2>3, <1>8, <1>t, StartOK DEF Receive
  <2> QED BY <2>4, <1>8, <1>t, <1>g DEF Receive
<1> QED
  BY <1>1, <1>2, <1>3, <1>4, <1>5, <1>6, <1>7, <1>8
  DEF Next, Disturb, Serve, FetchFails, TimesOut

(* Every variable keeps its type; the expiration is never further away     *)
(* than one lifetime (utils.py:10-16).                                     *)
THEOREM TypeCorrect == Spec => []TypeOK
<1>1. Init => TypeOK
  <2> SUFFICES ASSUME Init PROVE TypeOK
    OBVIOUS
  <2>1. /\ DOMAIN keys \subseteq Procs \cup {Provider}
        /\ \A s \in DOMAIN keys : keys[s] \subseteq Keys
    BY JwksAssumption DEF Init, KeySets
  <2>2. age \in [Keys -> 0..Old]
    BY OldIsLater DEF Init
  <2>3. cache \in [Procs -> Caches] /\ req \in [Procs -> Frames]
    BY StartOK DEF Init
  <2> QED BY <2>1, <2>2, <2>3 DEF TypeOK, Caches, Frames
<1>2. TypeOK /\ [Next]_vars => TypeOK'
  BY TypeStep
<1> QED
  BY <1>1, <1>2, PTL DEF Spec

-----------------------------------------------------------------------------
(* How old a key can be.                                                   *)

(* A key in the cache is no older than the part of the lifetime that has   *)
(* passed; a key in an answer no older than the time spent waiting.        *)
Recent(a, c, r) ==
    /\ c.full /\ c.left > 0 => \A k \in c.keys : a[k] <= Lifetime - c.left
    /\ r.pc = "answered" =>
           \A k \in r.got : /\ a[k] <= Timeout - r.wait
                            /\ c.left > 0 => a[k] <= Lifetime - c.left

AllRecent ==
    /\ \A k \in Keys : Listed(k, keys) => age[k] = 0
    /\ \A p \in Procs : Recent(age, cache[p], req[p])

LEMMA StartRecent == \A a : Recent(a, Empty, Idle)
BY DEF Recent, Empty, Idle

(* Younger keys are recent all the more. *)
LEMMA YoungerRecent ==
    ASSUME NEW a \in [Keys -> 0..Old], NEW b \in [Keys -> 0..Old],
           NEW c \in Caches, NEW r \in Frames, Recent(a, c, r),
           \A k \in Keys : b[k] <= a[k]
    PROVE  Recent(b, c, r)
<1>1. /\ c.keys \subseteq Keys /\ r.got \subseteq Keys
      /\ c.left \in Int /\ r.wait \in Int /\ Lifetime \in Int /\ Timeout \in Int
  BY JwksAssumption DEF Caches, Frames
<1>2. \A k \in Keys : a[k] \in Int /\ b[k] \in Int /\ b[k] <= a[k]
  BY OldIsLater
<1> QED BY <1>1, <1>2 DEF Recent

LEMMA RecentTick ==
    ASSUME TypeOK, AllRecent, Tick
    PROVE  AllRecent'
<1>1. age' = [k \in Keys |-> IF Listed(k, keys) THEN 0
                             ELSE IF age[k] = Old THEN Old ELSE age[k] + 1]
  BY DEF Tick
<1>2. \A k \in Keys : age[k] \in Int /\ age'[k] \in Int /\ age'[k] <= age[k] + 1
  <2>1. \A k \in Keys : age[k] \in 0..Old /\ Old \in Int
    BY OldIsLater DEF TypeOK
  <2> QED BY <1>1, <2>1
<1>3. \A k \in Keys : Listed(k, keys') => age'[k] = 0
  BY <1>1 DEF Tick
<1>4. ASSUME NEW p \in Procs PROVE Recent(age', cache'[p], req'[p])
  <2> DEFINE c == cache[p]
             r == req[p]
             d == cache'[p]
             q == req'[p]
  <2>1. /\ c \in Caches /\ r \in Frames /\ Recent(age, c, r)
    BY DEF TypeOK, AllRecent, Caches, Frames
  <2>2. d = [c EXCEPT !.left = IF @ = 0 THEN 0 ELSE @ - 1]
    BY DEF Tick
  <2>3. q = IF Free(p) THEN r ELSE [r EXCEPT !.wait = @ - 1]
    BY DEF Tick
  <2>4. /\ d.full = c.full /\ d.keys = c.keys /\ c.left \in Int /\ c.keys \subseteq Keys
        /\ d.left = IF c.left = 0 THEN 0 ELSE c.left - 1
    BY <2>1, <2>2, JwksAssumption DEF Caches
  <2>5. /\ q.pc = r.pc /\ q.got = r.got /\ r.wait \in Int /\ r.got \subseteq Keys
        /\ r.pc = "answered" => q.wait = r.wait - 1
    BY <2>1, <2>3, JwksAssumption DEF Frames, Free
  <2>6. Lifetime \in Int /\ Timeout \in Int
    BY JwksAssumption
  <2> HIDE DEF c, r, d, q
  <2>7. d.full /\ d.left > 0 => \A k \in d.keys : age'[k] <= Lifetime - d.left
    BY <1>2, <2>1, <2>4, <2>6 DEF Recent
  <2>8. ASSUME q.pc = "answered", NEW k \in q.got
        PROVE  age'[k] <= Timeout - q.wait /\ (d.left > 0 => age'[k] <= Lifetime - d.left)
    <3>1. k \in Keys /\ age[k] <= Timeout - r.wait /\ (c.left > 0 => age[k] <= Lifetime - c.left)
      BY <2>1, <2>5, <2>8 DEF Recent
    <3> QED BY <3>1, <1>2, <2>4, <2>5, <2>6, <2>8
  <2>9. Recent(age', d, q)
    BY <2>7, <2>8 DEF Recent
  <2> QED BY <2>9 DEF d, q
<1> QED
  BY <1>3, <1>4 DEF AllRecent

LEMMA RecentStep ==
    ASSUME TypeOK, AllRecent, [Next]_vars
    PROVE  AllRecent'
<1>t. /\ age \in [Keys -> 0..Old] /\ cache \in [Procs -> Caches] /\ req \in [Procs -> Frames]
  BY DEF TypeOK, Caches, Frames
<1>a. /\ \A k \in Keys : Listed(k, keys) => age[k] = 0
      /\ \A p \in Procs : Recent(age, cache[p], req[p])
  BY DEF AllRecent
<1>1. CASE UNCHANGED vars
  BY <1>1, <1>a DEF vars, AllRecent, Listed
<1>2. CASE Tick
  BY <1>2, RecentTick
<1>r. ASSUME NEW s \in DOMAIN keys, NEW K \in KeySets, Relist(s, K)
      PROVE  /\ \A k \in Keys : Listed(k, keys') => age'[k] = 0
             /\ \A p \in Procs : Recent(age', cache[p], req[p])
  <2>1. age' \in [Keys -> 0..Old] /\ \A k \in Keys : age'[k] <= age[k]
    BY <1>r, RelistOK
  <2>2. \A p \in Procs : Recent(age', cache[p], req[p])
    BY <2>1, <1>t, <1>a, YoungerRecent
  <2>3. \A k \in Keys : Listed(k, keys') => age'[k] = 0
    BY <1>r DEF Relist
  <2> QED BY <2>2, <2>3
<1>3. ASSUME NEW K \in KeySets, Rotate(K) PROVE AllRecent'
  BY <1>3, <1>r DEF Rotate, AllRecent
<1>4. ASSUME NEW p \in Procs, NEW K \in KeySets, Restart(p, K) PROVE AllRecent'
  <2>1. /\ \A k \in Keys : Listed(k, keys') => age'[k] = 0
        /\ \A x \in Procs : Recent(age', cache[x], req[x])
    <3>1. CASE p \in DOMAIN keys
      BY <3>1, <1>4, <1>r DEF Restart
    <3>2. CASE p \notin DOMAIN keys
      BY <3>2, <1>4, <1>a DEF Restart
    <3> QED BY <3>1, <3>2
  <2>2. \A x \in Procs : \/ cache'[x] = cache[x] /\ req'[x] = req[x]
                         \/ cache'[x] = Empty /\ req'[x] = Idle
    BY <1>4, <1>t DEF Restart
  <2>3. \A x \in Procs : Recent(age', cache'[x], req'[x])
    BY <2>1, <2>2, StartRecent
  <2> QED BY <2>1, <2>3 DEF AllRecent
(* The other actions are of one process and leave keys and ages alone. *)
<1>o. ASSUME NEW p \in Procs, UNCHANGED <<keys, age>>,
             cache' = [cache EXCEPT ![p] = cache'[p]], req' = [req EXCEPT ![p] = req'[p]],
             Recent(age, cache'[p], req'[p])
      PROVE  AllRecent'
  <2>1. \A x \in Procs : x # p => cache'[x] = cache[x] /\ req'[x] = req[x]
    BY <1>o, <1>t
  <2>2. \A x \in Procs : Recent(age', cache'[x], req'[x])
    BY <1>o, <1>a, <2>1
  <2> QED BY <1>o, <1>a, <2>2 DEF AllRecent
<1>5. ASSUME NEW p \in Procs, GiveUp(p) PROVE AllRecent'
  <2>1. Recent(age, cache[p], req[p]) /\ cache' = cache /\ req'[p] = Idle
    BY <1>5, <1>a, <1>t DEF GiveUp
  <2>2. Recent(age, cache'[p], req'[p])
    BY <2>1 DEF Recent, Idle
  <2> QED BY <2>1, <2>2, <1>o, <1>5, <1>t DEF GiveUp
<1>6. ASSUME NEW p \in Procs, NEW k \in Keys, Begin(p, k) PROVE AllRecent'
  <2>1. /\ cache'[p] \in {Empty, cache[p]} /\ req'[p] \in {req[p], Fetching(k)}
        /\ req[p].pc = "idle" /\ Recent(age, cache[p], req[p])
    BY <1>6, <1>a, <1>t DEF Begin, Current, Free
  <2>2. Recent(age, cache'[p], req'[p])
    BY <2>1 DEF Recent, Empty, Fetching
  <2>3. /\ cache' = [cache EXCEPT ![p] = cache'[p]] /\ req' = [req EXCEPT ![p] = req'[p]]
    BY <1>6, <1>t DEF Begin
  <2> QED BY <2>2, <2>3, <1>o, <1>6 DEF Begin
<1>7. ASSUME NEW p \in Procs, NEW s \in DOMAIN keys, Answer(p, s) PROVE AllRecent'
  <2>1. cache[p] \in Caches /\ req[p] \in Frames /\ Recent(age, cache[p], req[p])
    BY <1>a, <1>t
  <2>2. /\ cache' = cache /\ keys' = keys /\ age' = age
        /\ req' = [req EXCEPT ![p] = req'[p]]
        /\ req'[p].got = keys[s] /\ req'[p].wait = req[p].wait
    BY <1>7, <2>1, <1>t DEF Answer, Frames
  <2>3. \A k \in keys[s] : k \in Keys /\ age[k] = 0
    BY <1>a DEF Listed, TypeOK
  <2>4. /\ req[p].wait \in Int /\ req[p].wait <= Timeout /\ Timeout \in Int
        /\ cache[p].left \in Int /\ cache[p].left <= Lifetime /\ Lifetime \in Int
    BY <2>1, JwksAssumption DEF Caches, Frames
  <2>5. Recent(age, cache'[p], req'[p])
    BY <2>1, <2>2, <2>3, <2>4 DEF Recent
  <2> QED BY <2>2, <2>5, <1>o, <1>t
<1>8. ASSUME NEW p \in Procs, Receive(p) PROVE AllRecent'
  <2>1. cache[p] \in Caches /\ req[p] \in Frames /\ Recent(age, cache[p], req[p])
    BY <1>a, <1>t
  <2>2. /\ cache' = [cache EXCEPT ![p] = cache'[p]] /\ req' = [req EXCEPT ![p] = req'[p]]
        /\ cache'[p].keys = req[p].got /\ cache'[p].left = cache[p].left
        /\ req'[p] = Idle /\ req[p].pc = "answered"
    BY <1>8, <2>1, <1>t DEF Receive, Caches
  <2>3. Recent(age, cache'[p], req'[p])
    BY <2>1, <2>2 DEF Recent, Idle
  <2> QED BY <2>2, <2>3, <1>o, <1>8 DEF Receive
<1> QED
  BY <1>1, <1>2, <1>3, <1>4, <1>5, <1>6, <1>7, <1>8
  DEF Next, Disturb, Serve, FetchFails, TimesOut

(* A decision rests on keys that are recent enough. *)
LEMMA BoundStep ==
    ASSUME TypeOK, AllRecent, NEW p \in Procs, NEW k \in Keys, Trusts(p, k)
    PROVE  age[k] < Lifetime \/ age[k] <= Timeout
<1>1. /\ cache[p] \in Caches /\ req[p] \in Frames /\ Recent(age, cache[p], req[p])
      /\ age[k] \in Int /\ Lifetime \in Int /\ Timeout \in Int
  BY JwksAssumption, OldIsLater DEF TypeOK, Caches, Frames, AllRecent
<1>2. CASE Begin(p, k) /\ cache'[p].full
  <2>1. cache'[p] = Current(cache[p]) /\ cache'[p].full /\ k \in cache'[p].keys
    BY <1>2 DEF Begin, TypeOK, Trusts
  <2>2. cache[p].left # 0 /\ cache[p].full /\ k \in cache[p].keys
    BY <2>1 DEF Current, Empty
  <2>3. cache[p].left > 0 /\ cache[p].left \in Int
    BY <1>1, <2>2 DEF Caches
  <2> QED BY <1>1, <2>2, <2>3 DEF Recent
<1>3. CASE req[p].kid = k /\ Receive(p)
  <2>1. req[p].pc = "answered" /\ k \in req[p].got
    BY <1>3, <1>1 DEF Receive, Trusts, TypeOK, Caches
  <2>2. req[p].wait \in Int /\ req[p].wait >= 0
    BY <1>1 DEF Frames
  <2> QED BY <1>1, <2>1, <2>2 DEF Recent
<1> QED
  BY <1>2, <1>3 DEF Trusts, Decided

(* A key is not trusted once it has been listed nowhere for the lifetime   *)
(* of the cache, or for as long as a fetch takes if that is longer         *)
(* (utils.py:13-18, dependencies.py:382-400).                              *)
THEOREM TrustIsBounded == Spec => TrustBounded
<1>1. Init => AllRecent
  BY StartRecent DEF Init, AllRecent
<1>2. TypeOK /\ AllRecent /\ [Next]_vars => AllRecent'
  BY RecentStep
<1>3. TypeOK /\ AllRecent /\ [Next]_vars =>
          [\A p \in Procs, k \in Keys :
               Trusts(p, k) => age[k] < Lifetime \/ age[k] <= Timeout]_vars
  BY BoundStep
<1> QED
  BY <1>1, <1>2, <1>3, TypeCorrect, PTL DEF Spec, TrustBounded
=============================================================================
