------------------------------ MODULE Directory -------------------------------
(***************************************************************************)
(* Users with their admin flag, groups with their members, and the admin   *)
(* tokens that the identity and impersonation endpoints ask for:           *)
(* internal/users.py, internal/groups.py, internal/tokens.py, the services *)
(* behind them and the command seed-dev-user, served by several processes  *)
(* on one database.                                                        *)
(*                                                                         *)
(* A request is a frame, as in TokenLifecycle: one step per SELECT, one    *)
(* for the flush and commit, one for the response.  What authenticates the *)
(* caller is read in the first step, in a transaction of its own.          *)
(***************************************************************************)
EXTENDS Naturals

CONSTANTS
    Workers,   \* processes and the command line
    Users,     \* uids
    Groups,    \* group names
    Names,     \* names of admin tokens
    Roles,     \* roles that admin tokens are created with
    None,      \* no user, no group, no name
    Ops,       \* the services requests ask for
    MaxFresh   \* bound on the ids drawn

AllOps == {"create_user", "remove_user", "add_admin", "remove_admin",
           "create_group", "remove_group", "add_user_to_group",
           "remove_user_from_group", "create_admin_token",
           "remove_admin_token", "seed_dev_user"}

AllRoles == {"ANY", "IMPERSONATION", "IDENTITY", "NONE"}

ASSUME DirectoryAssumption ==
    Ops \subseteq AllOps /\ Roles \subseteq AllRoles /\ MaxFresh \in Nat

VARIABLES
    users,    \* the table "user": uid -> is_admin
    groups,   \* the table "group"
    members,  \* user_group_association: pairs of a uid and a group name
    keys,     \* the table admin_token: id -> name and role
    fresh,    \* the next id uuid4() draws
    req,      \* worker -> frame of the request it serves
    held,     \* ghost: worker -> has what a success would claim been so?
    alone     \* ghost: worker -> has nobody else written since it began?

tables == <<users, groups, members, keys, fresh>>
vars == <<users, groups, members, keys, fresh, req, held, alone>>

-----------------------------------------------------------------------------
(* Frames. *)

Idle == [op   |-> "none",  \* which service
         pc   |-> "idle",  \* what it does next
         u    |-> None,    \* user_uid
         g    |-> None,    \* group_name
         flag |-> FALSE,   \* the is_admin asked for
         id   |-> 0,       \* the id of an admin token
         key  |-> [name |-> None, role |-> "NONE"],  \* the AdminToken built
         was  |-> FALSE,   \* is_admin of the row loaded
         mark |-> {}]      \* the memberships loaded

Pcs == {"idle", "create", "look", "group", "user", "load", "save", "token", "reply"}

At(w, ops, pc) == req[w].op \in ops /\ req[w].pc = pc

Goto(w, f) == req' = [req EXCEPT ![w] = f]

(* A step that reads, or decides without a read. *)
Step(w, f) == Goto(w, f) /\ UNCHANGED tables

(* An exception: rollback, and an error response. *)
Fail(w) == Step(w, Idle)

Reply(f) == [f EXCEPT !.pc = "reply"]

-----------------------------------------------------------------------------
(* Callers. *)

(* require_admin: some user with the flag is logged in. *)
Admins == {u \in DOMAIN users : users[u]}

(* require_admin_identity_role: an admin token in the table, of that role. *)
Identity == \E i \in DOMAIN keys : keys[i].role \in {"IDENTITY", "ANY"}

Begin(w, op, f) == op \in Ops /\ req[w] = Idle /\ Step(w, [f EXCEPT !.op = op])

(* Seeded fault: the body of POST /admin/users carries is_admin through. *)
BeginUserFlagged(w, u) ==
    /\ Identity
    /\ \/ Begin(w, "create_user", [Idle EXCEPT !.pc = "create", !.u = u, !.flag = TRUE])
       \/ Begin(w, "remove_user", [Idle EXCEPT !.pc = "user", !.u = u])

BeginUser(w, u) ==
    /\ Identity
    /\ \/ Begin(w, "create_user", [Idle EXCEPT !.pc = "create", !.u = u])
       \/ Begin(w, "remove_user", [Idle EXCEPT !.pc = "user", !.u = u])

BeginGroup(w, g) ==
    /\ Identity
    /\ \/ Begin(w, "create_group", [Idle EXCEPT !.pc = "create", !.g = g])
       \/ Begin(w, "remove_group", [Idle EXCEPT !.pc = "group", !.g = g])

BeginMember(w, g, u) ==
    /\ Identity
    /\ \E op \in {"add_user_to_group", "remove_user_from_group"} :
           Begin(w, op, [Idle EXCEPT !.pc = "group", !.g = g, !.u = u])

BeginAdmin(w, u) ==
    /\ Admins # {}
    /\ \/ Begin(w, "add_admin", [Idle EXCEPT !.pc = "user", !.u = u, !.flag = TRUE])
       \/ Begin(w, "remove_admin", [Idle EXCEPT !.pc = "user", !.u = u])

BeginToken(w) ==
    /\ Admins # {}
    /\ \/ \E n \in Names, r \in Roles :
              fresh <= MaxFresh /\ Begin(w, "create_admin_token",
                  [Idle EXCEPT !.pc = "create", !.key = [name |-> n, role |-> r]])
       \/ \E i \in 1..(fresh - 1) :
              Begin(w, "remove_admin_token", [Idle EXCEPT !.pc = "token", !.id = i])

(* The command line asks nobody. *)
BeginSeed(w, u, flag) ==
    Begin(w, "seed_dev_user", [Idle EXCEPT !.pc = "create", !.u = u, !.flag = flag])

-----------------------------------------------------------------------------
(* Reads. *)

(* seed_dev_user, once create_user has said that the user exists. *)
Look(w) ==
    LET f == req[w] IN
    /\ At(w, {"seed_dev_user"}, "look")
    /\ \/ f.u \notin DOMAIN users /\ Fail(w)
       \/ /\ f.u \in DOMAIN users
          /\ Step(w, IF users[f.u] = f.flag THEN Reply(f) ELSE [f EXCEPT !.pc = "user"])

GetGroup(w) ==
    LET f == req[w] IN
    /\ f.pc = "group"
    /\ \/ f.g \notin groups /\ Fail(w)
       \/ /\ f.g \in groups
          /\ Step(w, [f EXCEPT !.pc = IF f.op = "remove_group" THEN "load" ELSE "user"])

FlagOps == {"add_admin", "remove_admin", "seed_dev_user"}

GetUser(w) ==
    LET f == req[w] IN
    /\ f.pc = "user"
    /\ \/ f.u \notin DOMAIN users /\ Fail(w)
       \/ /\ f.u \in DOMAIN users
          /\ Step(w, [f EXCEPT !.was = users[f.u],
                               !.pc = IF f.op \in FlagOps THEN "save" ELSE "load"])

GetToken(w) ==
    LET f == req[w] IN
    /\ At(w, {"remove_admin_token"}, "token")
    /\ \/ f.id \notin DOMAIN keys /\ Fail(w)
       \/ f.id \in DOMAIN keys /\ Step(w, [f EXCEPT !.pc = "save"])

CollectionOps == {"remove_user", "remove_group", "add_user_to_group", "remove_user_from_group"}

(* The collection a relationship holds: the groups of the user being      *)
(* deleted, which the flush loads, or the users of the group.             *)
Collection(f) ==
    {m \in members : IF f.op = "remove_user" THEN m[1] = f.u ELSE m[2] = f.g}

(* Seeded fault: a deletion leaves the collection unloaded, as            *)
(* passive_deletes would.                                                 *)
LoadPassively(w) ==
    LET f == req[w]
        missing == f.op = "remove_user_from_group" /\ <<f.u, f.g>> \notin members
        passive == f.op \in {"remove_user", "remove_group"}
    IN
    /\ At(w, CollectionOps, "load")
    /\ \/ missing /\ Fail(w)
       \/ /\ ~missing
          /\ Step(w, [f EXCEPT !.mark = IF passive THEN {} ELSE Collection(f), !.pc = "save"])

(* list.remove raises when the user is not in the list. *)
Load(w) ==
    LET f == req[w]
        missing == f.op = "remove_user_from_group" /\ <<f.u, f.g>> \notin members
    IN
    /\ At(w, CollectionOps, "load")
    /\ \/ missing /\ Fail(w)
       \/ ~missing /\ Step(w, [f EXCEPT !.mark = Collection(f), !.pc = "save"])

-----------------------------------------------------------------------------
(* The flush and commit. *)

Associated(f) == f.op = "add_user_to_group" /\ <<f.u, f.g>> \notin f.mark

(* Primary keys and the names of admin tokens are unique. *)
UniqueKept(f) ==
    /\ f.op \in {"create_user", "seed_dev_user"} /\ f.pc = "create" => f.u \notin DOMAIN users
    /\ f.op = "create_group" => f.g \notin groups
    /\ f.op = "create_admin_token" => \A i \in DOMAIN keys : keys[i].name # f.key.name
    /\ Associated(f) => <<f.u, f.g>> \notin members

(* Seeded fault: an UPDATE that matches no row is no error. *)
MatchedOrGone(f) ==
    /\ f.op \in {"remove_user", "remove_group"} => f.mark \subseteq members
    /\ f.op = "remove_user_from_group" => <<f.u, f.g>> \in members

(* An UPDATE, or a DELETE of associations, matches the rows it is for; no *)
(* UPDATE is sent when the flag has the value loaded.                     *)
Matched(f) ==
    /\ f.op \in FlagOps /\ f.pc = "save" => f.flag = f.was \/ f.u \in DOMAIN users
    /\ f.op \in {"remove_user", "remove_group"} => f.mark \subseteq members
    /\ f.op = "remove_user_from_group" => <<f.u, f.g>> \in members

(* Seeded fault: SQLite without foreign_keys=ON (orm.py:260-265). *)
ReferredUnenforced(f) == TRUE

(* An association keeps its user and its group. *)
Referred(f) ==
    /\ Associated(f) => f.u \in DOMAIN users /\ f.g \in groups
    /\ f.op \in {"remove_user", "remove_group"} => Collection(f) \subseteq f.mark

(* What the database accepts.  A row that is no longer there to be        *)
(* deleted only warns.                                                    *)
Accepts(f) == UniqueKept(f) /\ Matched(f) /\ Referred(f)

Commit(w, ops, pc) ==
    At(w, ops, pc) /\ Accepts(req[w]) /\ Goto(w, Reply(req[w]))

CreateUser(w) ==
    LET f == req[w] IN
    /\ Commit(w, {"create_user", "seed_dev_user"}, "create")
    /\ users' = [v \in DOMAIN users \cup {f.u} |-> IF v = f.u THEN f.flag ELSE users[v]]
    /\ UNCHANGED <<groups, members, keys, fresh>>

CreateGroup(w) ==
    /\ Commit(w, {"create_group"}, "create")
    /\ groups' = groups \cup {req[w].g}
    /\ UNCHANGED <<users, members, keys, fresh>>

(* Seeded fault: ids repeat. *)
CreateTokenAgain(w) ==
    LET f == req[w] IN
    /\ At(w, {"create_admin_token"}, "create") /\ Accepts(f)
    /\ keys' = [i \in DOMAIN keys \cup {fresh} |-> IF i = fresh THEN f.key ELSE keys[i]]
    /\ Goto(w, [f EXCEPT !.pc = "reply", !.id = fresh])
    /\ UNCHANGED <<users, groups, members, fresh>>

(* The id is drawn with the object; the response returns it. *)
CreateToken(w) ==
    LET f == req[w] IN
    /\ At(w, {"create_admin_token"}, "create") /\ Accepts(f)
    /\ keys' = [i \in DOMAIN keys \cup {fresh} |-> IF i = fresh THEN f.key ELSE keys[i]]
    /\ fresh' = fresh + 1
    /\ Goto(w, [f EXCEPT !.pc = "reply", !.id = fresh])
    /\ UNCHANGED <<users, groups, members>>

(* add_admin and remove_admin, also on behalf of seed_dev_user. *)
SaveFlag(w) ==
    LET f == req[w] IN
    /\ Commit(w, FlagOps, "save")
    /\ users' = IF f.flag = f.was THEN users
                ELSE [v \in DOMAIN users |-> IF v = f.u THEN f.flag ELSE users[v]]
    /\ UNCHANGED <<groups, members, keys, fresh>>

SaveMember(w) ==
    LET f == req[w] IN
    /\ Commit(w, {"add_user_to_group"}, "save")
    /\ members' = IF Associated(f) THEN members \cup {<<f.u, f.g>>} ELSE members
    /\ UNCHANGED <<users, groups, keys, fresh>>

RemoveMember(w) ==
    LET f == req[w] IN
    /\ Commit(w, {"remove_user_from_group"}, "save")
    /\ members' = members \ {<<f.u, f.g>>}
    /\ UNCHANGED <<users, groups, keys, fresh>>

(* Seeded fault: User.groups cascades a deletion as User.tokens does, to  *)
(* the groups and so to all of their members.                             *)
RemoveUserCascading(w) ==
    LET f == req[w]
        gone == {m[2] : m \in f.mark}
    IN
    /\ Commit(w, {"remove_user"}, "save")
    /\ users' = [v \in DOMAIN users \ {f.u} |-> users[v]]
    /\ groups' = groups \ gone
    /\ members' = {m \in members : m[2] \notin gone}
    /\ UNCHANGED <<keys, fresh>>

RemoveUser(w) ==
    LET f == req[w] IN
    /\ Commit(w, {"remove_user"}, "save")
    /\ users' = [v \in DOMAIN users \ {f.u} |-> users[v]]
    /\ members' = members \ f.mark
    /\ UNCHANGED <<groups, keys, fresh>>

RemoveGroup(w) ==
    LET f == req[w] IN
    /\ Commit(w, {"remove_group"}, "save")
    /\ groups' = groups \ {f.g}
    /\ members' = members \ f.mark
    /\ UNCHANGED <<users, keys, fresh>>

RemoveToken(w) ==
    LET f == req[w] IN
    /\ Commit(w, {"remove_admin_token"}, "save")
    /\ keys' = [i \in DOMAIN keys \ {f.id} |-> keys[i]]
    /\ UNCHANGED <<users, groups, members, fresh>>

(* seed_dev_user goes on when the user exists; all else is an error. *)
Refused(w) ==
    LET f == req[w] IN
    /\ f.pc \in {"create", "save"} /\ ~Accepts(f)
    /\ IF f.op = "seed_dev_user" /\ f.pc = "create"
       THEN Step(w, [f EXCEPT !.pc = "look"])
       ELSE Fail(w)

Respond(w) == req[w].pc = "reply" /\ Step(w, Idle)

(* The process dies, the connection drops, the database fails. *)
Crash(w) == req[w].pc # "idle" /\ Fail(w)

-----------------------------------------------------------------------------
(* What a success tells the client. *)
Claim(f) ==
    CASE f.op = "create_user" -> f.u \in DOMAIN users
      [] f.op = "remove_user" -> f.u \notin DOMAIN users
      [] f.op \in FlagOps -> f.u \in DOMAIN users /\ users[f.u] = f.flag
      [] f.op = "create_group" -> f.g \in groups
      [] f.op = "remove_group" -> f.g \notin groups
      [] f.op = "add_user_to_group" -> <<f.u, f.g>> \in members
      [] f.op = "remove_user_from_group" -> <<f.u, f.g>> \notin members
      [] f.op = "create_admin_token" -> f.id \in DOMAIN keys /\ keys[f.id] = f.key
      [] f.op = "remove_admin_token" -> f.id \notin DOMAIN keys
      [] OTHER -> FALSE

Observe ==
    /\ held' = [w \in Workers |-> req'[w].pc # "idle" /\ (held[w] \/ Claim(req[w])')]
    /\ alone' = [w \in Workers |->
                    \/ req'[w].pc = "idle"
                    \/ alone[w] /\ (tables' = tables \/ req'[w] # req[w])]

Init ==
    /\ users = [u \in {} |-> FALSE] /\ groups = {} /\ members = {}
    /\ keys = [i \in {} |-> Idle.key] /\ fresh = 1
    /\ req = [w \in Workers |-> Idle]
    /\ held = [w \in Workers |-> FALSE] /\ alone = [w \in Workers |-> TRUE]

Arrive(w) ==
    \/ \E u \in Users : BeginUser(w, u) \/ BeginAdmin(w, u)
    \/ \E u \in Users, flag \in BOOLEAN : BeginSeed(w, u, flag)
    \/ \E g \in Groups : BeginGroup(w, g)
    \/ \E g \in Groups, u \in Users : BeginMember(w, g, u)
    \/ BeginToken(w)

Read(w) == Look(w) \/ GetGroup(w) \/ GetUser(w) \/ GetToken(w) \/ Load(w)

Save(w) ==
    \/ CreateUser(w) \/ CreateGroup(w) \/ CreateToken(w)
    \/ SaveFlag(w) \/ SaveMember(w) \/ RemoveMember(w)
    \/ RemoveUser(w) \/ RemoveGroup(w) \/ RemoveToken(w)
    \/ Refused(w)

Serve(w) == Arrive(w) \/ Read(w) \/ Save(w) \/ Respond(w) \/ Crash(w)

Next == (\E w \in Workers : Serve(w)) /\ Observe

Spec == Init /\ [][Next]_vars
=============================================================================
