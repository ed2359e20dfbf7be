------------------------------ MODULE Migrations ------------------------------
(***************************************************************************)
(* The schema of the Postgres database: the chain of Alembic revisions     *)
(* under alembic/versions, the commands `alembic upgrade' and `alembic     *)
(* downgrade' (alembic/env.py, scripts/migrate-db), each in one            *)
(* transaction, and the servers, which create what tables are missing when *)
(* they start (store/orm.py) and then write tokens.                        *)
(*                                                                         *)
(* A schema is a set of names: of tables, each with the columns it never   *)
(* loses, of the columns that revisions add or drop, of types and of       *)
(* constraints.  A version is a place in Chain; 0 is an empty              *)
(* alembic_version.  The tokens are those of one user.                     *)
(***************************************************************************)
EXTENDS Naturals

CONSTANTS
    Commands,  \* runs of alembic
    Servers,   \* processes that call make_session_factory
    Names,     \* names of tokens
    Ids,       \* ids of tokens
    None,      \* no parent, no command
    Targets    \* versions that commands ask for

VARIABLES
    schema,   \* the names in the catalogue
    version,  \* alembic_version
    rows,     \* the table token: id -> name, parent_id and session
    cmd,      \* command -> what it does
    owner,    \* the command whose transaction holds the locks
    work,     \* what that transaction sees
    server,   \* server -> what it does
    spoilt    \* ghost: has create_all or `downgrade base' left things behind?

vars == <<schema, version, rows, cmd, owner, work, server, spoilt>>

-----------------------------------------------------------------------------
(* The revisions. *)

BaseTables == {"user", "group", "scope", "token", "audit",
               "token_scope_association", "user_group_association"}

BaseTypes == {"auditevent", "authfailurereason"}

Narrow == "uq_token_user_name"
Wide == "uq_token_user_name_parent_id_external_id"

(* What a revision alters, drops and adds; what it adds if it is not      *)
(* there, and drops if it is.                                             *)
Alter(on, drops, adds) ==
    [on |-> on, drops |-> drops, adds |-> adds, ensures |-> {}, clears |-> {}]

(* create_table makes the types; drop_table leaves them. *)
R0c222da05aac ==
    [up   |-> Alter({}, {}, BaseTables \cup BaseTypes),
     down |-> Alter({}, BaseTables, {})]

R50db14aea8e8 ==
    [up   |-> Alter({"token"}, {}, {Narrow}),
     down |-> Alter({"token"}, {Narrow}, {})]

Rdb5ff1ca50e2 ==
    [up   |-> Alter({"user"}, {}, {"user.duid", "user_duid_key"}),
     down |-> Alter({"user"}, {"user_duid_key", "user.duid"}, {})]

R0e1ef5458f74 ==
    [up   |-> Alter({"user"}, {"user_duid_key"}, {}),
     down |-> Alter({"user"}, {}, {"user_duid_key"})]

(* The downgrade drops a constraint without saying which: no schema has a *)
(* constraint without a name.                                             *)
R8823466cec2e ==
    [up   |-> Alter({"token"}, {}, {"admin_token", "token.admin_token_id",
                                    "token_admin_token_id_fkey"}),
     down |-> Alter({"token"}, {"unnamed", "token.admin_token_id", "admin_token"}, {})]

(* Seeded fault: the type is created without checkfirst. *)
R445b74e0a999Unchecked ==
    [up   |-> Alter({"admin_token"}, {}, {"adminrole", "admin_token.role"}),
     down |-> [Alter({"admin_token"}, {"admin_token.role"}, {})
                   EXCEPT !.clears = {"adminrole"}]]

R445b74e0a999 ==
    [up   |-> [Alter({"admin_token"}, {}, {"admin_token.role"})
                   EXCEPT !.ensures = {"adminrole"}],
     down |-> [Alter({"admin_token"}, {"admin_token.role"}, {})
                   EXCEPT !.clears = {"adminrole"}]]

Rfb5b063e37a1 ==
    LET made == {"token.parent_id", "token.external_id", "token_parent_id_fkey"} IN
    [up   |-> Alter({"token"}, {}, made),
     down |-> Alter({"token"}, made, {})]

R237acb29e460 ==
    [up   |-> Alter({"token"}, {}, {"token.session"}),
     down |-> Alter({"token"}, {"token.session"}, {})]

(* Seeded fault: the wide constraint is added beside the narrow one. *)
R450dd1ce1ff1Kept ==
    [up   |-> Alter({"token"}, {}, {Wide}),
     down |-> Alter({"token"}, {Wide}, {})]

(* Seeded fault: the downgrade leaves the names unconstrained. *)
R450dd1ce1ff1Loose ==
    [up   |-> [Alter({"token"}, {}, {Wide}) EXCEPT !.clears = {Narrow}],
     down |-> Alter({"token"}, {Wide}, {})]

R450dd1ce1ff1 ==
    [up   |-> Alter({"token"}, {Narrow}, {Wide}),
     down |-> Alter({"token"}, {Wide}, {Narrow})]

(* Seeded fault: the downgrade drops one column too many. *)
Rbc91b45c54bfWide ==
    [up   |-> Alter({"token"}, {}, {"token.rotatable"}),
     down |-> Alter({"token"}, {"token.rotatable", "token.session"}, {})]

Rbc91b45c54bf ==
    [up   |-> Alter({"token"}, {}, {"token.rotatable"}),
     down |-> Alter({"token"}, {"token.rotatable"}, {})]

Chain == <<R0c222da05aac, R50db14aea8e8, Rdb5ff1ca50e2, R0e1ef5458f74,
           R8823466cec2e, R445b74e0a999, Rfb5b063e37a1, R237acb29e460,
           R450dd1ce1ff1, Rbc91b45c54bf>>

Head == 10

ASSUME MigrationAssumption ==
    Targets \subseteq 0..Head /\ None \notin Commands /\ None \notin Ids

-----------------------------------------------------------------------------
(* The rows. *)

NamesApart(r) == \A i, j \in DOMAIN r : r[i].name = r[j].name => i = j

(* NULLS NOT DISTINCT: tokens without a parent are told apart as well. *)
KeysApart(r) ==
    \A i, j \in DOMAIN r : r[i].name = r[j].name /\ r[i].parent = r[j].parent => i = j

(* Whether Postgres makes the change, and what it makes of the tokens.    *)
Accepts(change, w) ==
    /\ change.on \cup change.drops \subseteq w.schema
    /\ change.adds \cap w.schema = {}
    /\ Narrow \in change.adds => NamesApart(w.rows)
    /\ Wide \in change.adds => KeysApart(w.rows)

Forgotten(row, drops) ==
    [row EXCEPT !.parent = IF "token.parent_id" \in drops THEN None ELSE @,
                !.session = @ /\ "token.session" \notin drops]

Changed(change, w, v) ==
    [schema  |-> (w.schema \ (change.drops \cup change.clears))
                     \cup change.adds \cup change.ensures,
     version |-> v,
     rows    |-> [i \in {j \in DOMAIN w.rows : "token" \notin change.drops} |->
                     Forgotten(w.rows[i], change.drops)]]

-----------------------------------------------------------------------------
(* Commands.  env.py runs one in a transaction: Alembic reads the version, *)
(* does one revision after the other, each with its UPDATE of the version, *)
(* and commits.  The first revision's locks make other commands wait; one  *)
(* that waited finds its version gone, and fails.                          *)

Idle == [pc |-> "idle", target |-> 0, from |-> 0]

NoWork == [schema |-> {}, version |-> 0, rows |-> [i \in {} |-> None]]

Ask(c, v) ==
    /\ cmd[c] = Idle /\ v # version
    /\ cmd' = [cmd EXCEPT ![c] = [pc |-> "run", target |-> v, from |-> version]]
    /\ UNCHANGED <<schema, version, rows, owner, work, server, spoilt>>

Lock(c) ==
    /\ cmd[c].pc = "run" /\ owner = None /\ cmd[c].from = version
    /\ owner' = c /\ work' = [schema |-> schema, version |-> version, rows |-> rows]
    /\ UNCHANGED <<schema, version, rows, cmd, server, spoilt>>

Upgrade(c) ==
    LET change == Chain[work.version + 1].up IN
    /\ owner = c /\ work.version < cmd[c].target /\ Accepts(change, work)
    /\ work' = Changed(change, work, work.version + 1)
    /\ UNCHANGED <<schema, version, rows, cmd, owner, server, spoilt>>

Downgrade(c) ==
    LET change == Chain[work.version].down IN
    /\ owner = c /\ work.version > cmd[c].target /\ Accepts(change, work)
    /\ work' = Changed(change, work, work.version - 1)
    /\ UNCHANGED <<schema, version, rows, cmd, owner, server, spoilt>>

Commit(c) ==
    /\ owner = c /\ work.version = cmd[c].target
    /\ schema' = work.schema /\ version' = work.version /\ rows' = work.rows
    /\ cmd' = [cmd EXCEPT ![c] = Idle] /\ owner' = None /\ work' = NoWork
    /\ spoilt' = (spoilt \/ work.version = 0)
    /\ UNCHANGED server

(* Seeded fault: the locks outlive the command. *)
AbortHeld(c) ==
    /\ cmd[c].pc = "run" /\ cmd' = [cmd EXCEPT ![c] = Idle]
    /\ UNCHANGED <<schema, version, rows, owner, work, server, spoilt>>

(* Seeded fault: without begin_transaction, what was done stays. *)
AbortKept(c) ==
    /\ cmd[c].pc = "run" /\ cmd' = [cmd EXCEPT ![c] = Idle]
    /\ IF owner = c
       THEN owner' = None /\ work' = NoWork /\ schema' = work.schema /\ rows' = work.rows
       ELSE UNCHANGED <<owner, work, schema, rows>>
    /\ UNCHANGED <<version, server, spoilt>>

(* A revision is refused, the version read is gone, the command is killed *)
(* or its connection lost: rollback.                                      *)
Abort(c) ==
    /\ cmd[c].pc = "run" /\ cmd' = [cmd EXCEPT ![c] = Idle]
    /\ IF owner = c THEN owner' = None /\ work' = NoWork ELSE UNCHANGED <<owner, work>>
    /\ UNCHANGED <<schema, version, rows, server, spoilt>>

-----------------------------------------------------------------------------
(* Servers. *)

OrmTables == BaseTables \cup {"admin_token"}

OrmTypes == BaseTypes \cup {"adminrole"}

(* What create_all makes with a table.  Its UNIQUE has no name, so that   *)
(* Postgres gives it one.                                                 *)
Orm(t) ==
    {t} \cup CASE t = "user" -> {"user.duid"}
               [] t = "admin_token" -> {"admin_token.role"}
               [] t = "token" ->
                      {"token.admin_token_id", "token_admin_token_id_fkey",
                       "token.parent_id", "token_parent_id_fkey", "token.external_id",
                       "token.session", "token.rotatable",
                       "token_user_uid_name_parent_id_external_id_key"}
               [] OTHER -> {}

(* What the statements of the ORM name. *)
OrmNames ==
    OrmTables \cup {"user.duid", "admin_token.role", "token.admin_token_id",
                    "token.parent_id", "token.external_id", "token.session",
                    "token.rotatable"}

References ==
    {<<"token", "user">>, <<"token", "admin_token">>, <<"audit", "token">>,
     <<"token_scope_association", "token">>, <<"token_scope_association", "scope">>,
     <<"user_group_association", "user">>, <<"user_group_association", "group">>}

Off == [pc |-> "off", missing |-> {}]

(* create_all asks which tables there are ... *)
Look(s) ==
    /\ server[s] = Off
    /\ server' = [server EXCEPT ![s] = [pc |-> "make", missing |-> OrmTables \ schema]]
    /\ UNCHANGED <<schema, version, rows, cmd, owner, work, spoilt>>

(* ... and creates the types and the tables that were missing. *)
CreateAll(s) ==
    LET missing == server[s].missing IN
    /\ server[s].pc = "make" /\ owner = None /\ missing \cap schema = {}
    /\ \A r \in References : r[1] \in missing => r[2] \in missing \cup schema
    /\ schema' = schema \cup OrmTypes \cup UNION {Orm(t) : t \in missing}
    /\ server' = [server EXCEPT ![s] = [pc |-> "serve", missing |-> {}]]
    /\ spoilt' = (spoilt \/ version < 5)
    /\ UNCHANGED <<version, rows, cmd, owner, work>>

(* The server dies, or its create_all fails. *)
Stop(s) ==
    /\ server[s] # Off /\ server' = [server EXCEPT ![s] = Off]
    /\ UNCHANGED <<schema, version, rows, cmd, owner, work, spoilt>>

(* A token with a name, a session or a subtoken of a token is inserted:   *)
(* the statement names every column, the constraint there is holds.       *)
Insert(s, id, row) ==
    /\ server[s].pc = "serve" /\ owner = None /\ OrmNames \subseteq schema
    /\ id \notin DOMAIN rows
    /\ row.parent # None =>
           row.parent \in DOMAIN rows /\ rows[row.parent].parent = None /\ ~row.session
    /\ rows' = [i \in DOMAIN rows \cup {id} |-> IF i = id THEN row ELSE rows[i]]
    /\ KeysApart(rows') /\ (Narrow \in schema => NamesApart(rows'))
    /\ UNCHANGED <<schema, version, cmd, owner, work, server, spoilt>>

(* A token is deleted, with its subtokens. *)
Delete(s, id) ==
    /\ server[s].pc = "serve" /\ owner = None /\ OrmNames \subseteq schema
    /\ id \in DOMAIN rows
    /\ rows' = [i \in {j \in DOMAIN rows : j # id /\ rows[j].parent # id} |-> rows[i]]
    /\ UNCHANGED <<schema, version, cmd, owner, work, server, spoilt>>

-----------------------------------------------------------------------------
Rows == [name : Names, parent : Ids \cup {None}, session : BOOLEAN]

Init ==
    /\ schema = {} /\ version = 0 /\ rows = [i \in {} |-> None]
    /\ cmd = [c \in Commands |-> Idle] /\ owner = None /\ work = NoWork
    /\ server = [s \in Servers |-> Off] /\ spoilt = FALSE

Migrate(c) ==
    \/ \E v \in Targets : Ask(c, v)
    \/ Lock(c) \/ Upgrade(c) \/ Downgrade(c) \/ Commit(c) \/ Abort(c)

Serve(s) ==
    \/ Look(s) \/ CreateAll(s) \/ Stop(s)
    \/ \E id \in Ids, row \in Rows : Insert(s, id, row)
    \/ \E id \in Ids : Delete(s, id)

Next == (\E c \in Commands : Migrate(c)) \/ (\E s \in Servers : Serve(s))

Spec == Init /\ [][Next]_vars
=============================================================================
