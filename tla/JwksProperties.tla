---------------------------- MODULE JwksProperties ----------------------------
(***************************************************************************)
(* What the cache of keys must guarantee, stated apart from its actions.   *)
(***************************************************************************)
EXTENDS JwksCache

(* Every variable stays of its type; no expiration is further away than    *)
(* one lifetime.                                                           *)
TypeOK ==
    /\ DOMAIN keys \subseteq Procs \cup {Provider}
    /\ \A s \in DOMAIN keys : keys[s] \subseteq Keys
    /\ age \in [Keys -> 0..Old]
    /\ cache \in [Procs -> [full : BOOLEAN, keys : SUBSET Keys, left : 0..Lifetime]]
    /\ req \in [Procs -> [pc : {"idle", "fetch", "answered"}, kid : Keys \cup {"none"},
                          wait : 0..Timeout, got : SUBSET Keys]]

(* The process p decides on a token signed with k, by the set of keys      *)
(* that is then in its cache.                                              *)
Decided(p, k) ==
    \/ Begin(p, k) /\ cache'[p].full
    \/ req[p].kid = k /\ Receive(p)

Trusts(p, k) == Decided(p, k) /\ k \in cache'[p].keys

Refuses(p, k) == Decided(p, k) /\ k \notin cache'[p].keys

(* A key is not trusted once it has been listed nowhere for the lifetime   *)
(* of the cache, or for as long as a fetch takes if that is longer:        *)
(* although the expiration is set before the fetch and not by its result,  *)
(* and a fetch that fails moves it all the same (utils.py:13-18).          *)
TrustBounded ==
    [][\A p \in Procs, k \in Keys :
           Trusts(p, k) => age[k] < Lifetime \/ age[k] <= Timeout]_vars

(* A process whose event loop is blocked by a fetch becomes free again,    *)
(* even when every process waits for another one (dependencies.py:384).    *)
Unblocked == \A p \in Procs : ~Free(p) ~> Free(p)

(* A key that every address lists from some time on is from some time on   *)
(* refused no more, however busy a process is: a miss does not fetch, so   *)
(* only the expiration lets a new key in (utils.py:14-16).                 *)
NewKeyTrusted ==
    \A p \in Procs, k \in Keys :
        <>[](\A s \in DOMAIN keys : k \in keys[s]) => <>[][~Refuses(p, k)]_vars

(* Left undisturbed, with clients that keep asking and addresses that      *)
(* answer when they are free, some access token is checked against a set   *)
(* of keys, again and again (dependencies.py:395-400).                     *)
Authenticates ==
    <>[][~Disturb]_vars => []<><<\E p \in Procs, k \in Keys : Decided(p, k)>>_vars
=============================================================================
