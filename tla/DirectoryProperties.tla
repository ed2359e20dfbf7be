------------------------- MODULE DirectoryProperties --------------------------
(***************************************************************************)
(* What Directory must guarantee, stated apart from its actions.           *)
(***************************************************************************)
EXTENDS Directory

FrameOK(f) ==
    /\ DOMAIN f = DOMAIN Idle
    /\ f.op \in AllOps \cup {"none"} /\ f.pc \in Pcs
    /\ f.u \in Users \cup {None} /\ f.g \in Groups \cup {None}
    /\ f.flag \in BOOLEAN /\ f.was \in BOOLEAN
    /\ f.id \in Nat /\ f.key \in [name : Names \cup {None}, role : AllRoles]
    /\ f.mark \subseteq Users \X Groups

(* Every variable stays of its type. *)
TypeOK ==
    /\ DOMAIN users \subseteq Users /\ users \in [DOMAIN users -> BOOLEAN]
    /\ groups \subseteq Groups /\ members \subseteq Users \X Groups
    /\ fresh \in Nat
    /\ DOMAIN keys \subseteq {i \in Nat : i < fresh}
    /\ keys \in [DOMAIN keys -> [name : Names, role : AllRoles]]
    /\ DOMAIN req = Workers /\ \A w \in Workers : FrameOK(req[w])
    /\ held \in [Workers -> BOOLEAN] /\ alone \in [Workers -> BOOLEAN]

(* No membership outlives its user or its group, so that a uid or a group *)
(* name that is deleted and created anew starts without members, however  *)
(* its deletion falls among the steps of an add_user_to_group             *)
(* (services.py:406-411, 438-443, 446-457).                               *)
NoDanglingMember ==
    \A m \in members : m[1] \in DOMAIN users /\ m[2] \in groups

(* A success is never a lie: what the response claims (the user exists,   *)
(* has the flag, has left the group, ...) was so at some moment while the *)
(* request was served, whatever the other process did between its reads   *)
(* and its commit; for seed_dev_user this spans up to three transactions  *)
(* (services.py:350-495, 572-614, command.py:64-81).                      *)
AnswersHeld == \A w \in Workers : req[w].pc = "reply" => held[w]

(* An admin exists, or is being made. *)
Granting(f) == f.op \in {"add_admin", "seed_dev_user"} /\ f.flag

Locked == Admins = {} /\ \A w \in Workers : ~Granting(req[w])

(* Without an admin, and without a grant under way that an admin asked    *)
(* for, nobody becomes one through the service: an identity admin token   *)
(* creates users without the flag.  Only seed-dev-user ends the lockout   *)
(* (dependencies.py:307-315, internal/users.py:43-60, command.py:64-66).  *)
LockedUntilSeeded ==
    [][Locked => Locked' \/ \E w \in Workers, u \in Users : BeginSeed(w, u, TRUE)]_vars

(* A flush is refused only for what somebody else wrote meanwhile, or for *)
(* creating what exists: left alone, a handler that has passed its checks *)
(* is always accepted, as the collection a deletion loads is all that     *)
(* refers to the row (orm.py:175-200, services.py:350-495).               *)
SavesAccepted ==
    \A w \in Workers : req[w].pc = "save" /\ alone[w] => Accepts(req[w])

-----------------------------------------------------------------------------
Serial == INSTANCE AtomicDirectory WITH AnyRole <- AllRoles

(* However the requests of several processes interleave, what each commit *)
(* writes is one whole service applied to the tables as they are then,    *)
(* though what it writes was decided on reads of up to four statements    *)
(* before: a removed user or group takes along all of its memberships,    *)
(* those of today, and nothing else; nobody joins what has gone; a flag   *)
(* is set on the row that is there (services.py:350-463, 572-614,         *)
(* repository.py:99-180).                                                 *)
ServicesAtomic == Serial!Spec
=============================================================================
