------------------------- MODULE MigrationProperties --------------------------
(***************************************************************************)
(* What the chain of revisions must guarantee, stated apart from it.       *)
(***************************************************************************)
EXTENDS Migrations

RowsOK(r) == DOMAIN r \subseteq Ids /\ \A i \in DOMAIN r : r[i] \in Rows

CommandOK(f) ==
    f \in [pc : {"idle", "run"}, target : 0..Head, from : 0..Head]

(* Every variable stays of its type, and only a running command holds     *)
(* locks.                                                                 *)
TypeOK ==
    /\ version \in 0..Head /\ RowsOK(rows)
    /\ DOMAIN cmd = Commands /\ \A c \in Commands : CommandOK(cmd[c])
    /\ owner \in Commands \cup {None} /\ (owner # None => cmd[owner].pc = "run")
    /\ DOMAIN work = {"schema", "version", "rows"}
    /\ work.version \in 0..Head /\ RowsOK(work.rows)
    /\ DOMAIN server = Servers
    /\ \A s \in Servers : /\ server[s].pc \in {"off", "make", "serve"}
                          /\ server[s].missing \subseteq OrmTables
    /\ spoilt \in BOOLEAN

If(b, S) == IF b THEN S ELSE {}

(* What a database of a version has, name by name.                        *)
Made(v) ==
    If(v >= 1, BaseTables \cup BaseTypes)
    \cup If(v \in 2..8, {Narrow})
    \cup If(v >= 3, {"user.duid"}) \cup If(v = 3, {"user_duid_key"})
    \cup If(v >= 5, {"admin_token", "token.admin_token_id", "token_admin_token_id_fkey"})
    \cup If(v >= 6, {"adminrole", "admin_token.role"})
    \cup If(v >= 7, {"token.parent_id", "token.external_id", "token_parent_id_fkey"})
    \cup If(v >= 8, {"token.session"})
    \cup If(v >= 9, {Wide})
    \cup If(v >= 10, {"token.rotatable"})

(* What a server that started too early may have left in it.              *)
Strays(v) == {"adminrole"} \cup If(v < 5, {"admin_token", "admin_token.role"})

Told(w) == w.version >= 1 => Made(w.version) \subseteq w.schema
                             /\ w.schema \subseteq Made(w.version) \cup Strays(w.version)

(* The schema is what alembic_version says, and no revision is half done, *)
(* whichever commands race, die or are refused and whenever servers start *)
(* (alembic/env.py:44-58, orm.py:235-237).                                *)
VersionTold == Told([schema |-> schema, version |-> version])

(* At the head revision the database has every table and column that the  *)
(* ORM names, and of the constraints on the names of tokens only the one  *)
(* that create_all would make (orm.py:55-140; README.md:290-291).         *)
Synced ==
    version = Head =>
        /\ OrmNames \subseteq schema
        /\ Wide \in schema /\ Narrow \notin schema /\ "user_duid_key" \notin schema

(* An upgrade is never refused by the database, unless a server's         *)
(* create_all came before revision 8823466cec2e, or `downgrade base' left *)
(* its types behind: not after any downgrade, and whatever tokens were    *)
(* written meanwhile.                                                     *)
UpgradeAccepted ==
    owner # None /\ work.version < cmd[owner].target /\ ~spoilt =>
        Accepts(Chain[work.version + 1].up, work)

(* Tokens of a user never share name and parent, also once a downgrade    *)
(* has dropped the column that told a subtoken from its parent:           *)
(* 450dd1ce1ff1 restores the narrow constraint first, or is refused.      *)
RowsApart == KeysApart(rows)

(* What a database of a version has of a token, and of a table of them.   *)
Projected(v, row) ==
    [name    |-> row.name,
     parent  |-> IF v >= 7 THEN row.parent ELSE None,
     session |-> IF v >= 8 THEN row.session ELSE FALSE]

Portion(v, r) == [i \in {j \in DOMAIN r : v >= 1} |-> Projected(v, r[i])]

Lower(a, b) == IF a < b THEN a ELSE b

(* A command loses of the tokens what the lowest version on its way has   *)
(* no column for, and nothing else: not what was written after it read    *)
(* the version, nor what another command left; what an upgrade brings     *)
(* back is empty (alembic/env.py:44-58, 0c222da05aac:125,                 *)
(* fb5b063e37a1:24-39, 237acb29e460:21-32).                               *)
TokensKept ==
    [][version' # version => rows' = Portion(Lower(version, version'), rows)]_vars
=============================================================================
