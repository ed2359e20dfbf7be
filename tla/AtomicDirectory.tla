---------------------------- MODULE AtomicDirectory ----------------------------
(***************************************************************************)
(* What the services of the directory promise, each as one step: a user or *)
(* a group goes with all of its memberships and no other, a membership     *)
(* joins what exists, a flag is that of an existing user, the name of an   *)
(* admin token is taken once and its id never again.  Directory needs up   *)
(* to four reads before the commit of each, and several processes serve.   *)
(* The variables are the tables of Directory.                              *)
(***************************************************************************)
EXTENDS Naturals

CONSTANTS
    Users,    \* uids
    Groups,   \* group names
    Names,    \* names of admin tokens
    AnyRole   \* roles of admin tokens

VARIABLES users, groups, members, keys, fresh

vars == <<users, groups, members, keys, fresh>>

-----------------------------------------------------------------------------

CreateUser(u, flag) ==
    /\ u \notin DOMAIN users
    /\ users' = [v \in DOMAIN users \cup {u} |-> IF v = u THEN flag ELSE users[v]]
    /\ UNCHANGED <<groups, members, keys, fresh>>

(* add_admin and remove_admin. *)
SetFlag(u, flag) ==
    /\ u \in DOMAIN users
    /\ users' = [users EXCEPT ![u] = flag]
    /\ UNCHANGED <<groups, members, keys, fresh>>

RemoveUser(u) ==
    /\ users' = [v \in DOMAIN users \ {u} |-> users[v]]
    /\ members' = {m \in members : m[1] # u}
    /\ UNCHANGED <<groups, keys, fresh>>

CreateGroup(g) ==
    /\ g \notin groups
    /\ groups' = groups \cup {g}
    /\ UNCHANGED <<users, members, keys, fresh>>

RemoveGroup(g) ==
    /\ groups' = groups \ {g}
    /\ members' = {m \in members : m[2] # g}
    /\ UNCHANGED <<users, keys, fresh>>

Join(u, g) ==
    /\ u \in DOMAIN users /\ g \in groups
    /\ members' = members \cup {<<u, g>>}
    /\ UNCHANGED <<users, groups, keys, fresh>>

Leave(u, g) ==
    /\ <<u, g>> \in members
    /\ members' = members \ {<<u, g>>}
    /\ UNCHANGED <<users, groups, keys, fresh>>

CreateToken(n, r) ==
    /\ \A i \in DOMAIN keys : keys[i].name # n
    /\ keys' = [i \in DOMAIN keys \cup {fresh} |->
                   IF i = fresh THEN [name |-> n, role |-> r] ELSE keys[i]]
    /\ fresh' = fresh + 1
    /\ UNCHANGED <<users, groups, members>>

RemoveToken(i) ==
    /\ keys' = [j \in DOMAIN keys \ {i} |-> keys[j]]
    /\ UNCHANGED <<users, groups, members, fresh>>

Init ==
    /\ users = [u \in {} |-> FALSE] /\ groups = {} /\ members = {}
    /\ keys = [i \in {} |-> FALSE] /\ fresh = 1

Next ==
    \/ \E u \in Users, flag \in BOOLEAN : CreateUser(u, flag) \/ SetFlag(u, flag)
    \/ \E u \in Users : RemoveUser(u)
    \/ \E g \in Groups : CreateGroup(g) \/ RemoveGroup(g)
    \/ \E u \in Users, g \in Groups : Join(u, g) \/ Leave(u, g)
    \/ \E n \in Names, r \in AnyRole : CreateToken(n, r)
    \/ \E i \in DOMAIN keys : RemoveToken(i)

Spec == Init /\ [][Next]_vars
=============================================================================
