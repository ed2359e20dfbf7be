--------------------------- MODULE MigrationProofs ----------------------------
(***************************************************************************)
(* Theorems about Migrations for any number of commands and servers, any   *)
(* names and tokens, and any versions asked for.                           *)
(***************************************************************************)
EXTENDS MigrationProperties, TLAPS

-----------------------------------------------------------------------------
(* What is so in the catalogue, and in what a transaction sees of it.     *)

World == [schema |-> schema, version |-> version, rows |-> rows]

(* Beside Told: before the first revision the schema is empty, or types   *)
(* are left in it; and the constraints there are hold.                    *)
Good(w) ==
    /\ Told(w)
    /\ w.version = 0 => w.schema = {} \/ "auditevent" \in w.schema
    /\ "admin_token.role" \in w.schema => "admin_token" \in w.schema
    /\ KeysApart(w.rows)
    /\ Narrow \in w.schema => NamesApart(w.rows)

(* What nobody spoilt has nothing but what the revisions made, and before *)
(* 8823466cec2e no server has written a token.                            *)
Clean(w) ==
    w.version \in 1..4 => w.schema = Made(w.version) /\ DOMAIN w.rows = {}

Empty(w) == w.version = 0 => w.schema = {} /\ DOMAIN w.rows = {}

WorldOK(w) ==
    /\ w = [schema |-> w.schema, version |-> w.version, rows |-> w.rows]
    /\ w.version \in 0..Head /\ RowsOK(w.rows)

GoodInv == Good(World) /\ WorldOK(work) /\ (owner # None => Good(work))

CleanInv ==
    ~spoilt =>
        /\ Clean(World) /\ Empty(World)
        /\ owner # None => Clean(work) /\ (cmd[owner].target > 0 => Empty(work))

Inv == TypeOK /\ GoodInv /\ CleanInv

-----------------------------------------------------------------------------
(* One revision. *)

(* A revision leaves tokens of their type, and apart: as they were, or by *)
(* their names when their parents are forgotten.                          *)
RowsFrom(r, drops, q) ==
    /\ RowsOK(r) /\ KeysApart(r)
    /\ "token.parent_id" \in drops => NamesApart(r)
    /\ q = [i \in {j \in DOMAIN r : "token" \notin drops} |-> Forgotten(r[i], drops)]

RowsTo(r, q) ==
    /\ RowsOK(q) /\ KeysApart(q) /\ (NamesApart(r) => NamesApart(q))
    /\ DOMAIN q \subseteq DOMAIN r

LEMMA RowsChanged ==
    ASSUME NEW r, NEW drops, NEW q, RowsFrom(r, drops, q)
    PROVE  RowsTo(r, q)
<1> USE DEF RowsFrom
<1>1. ASSUME NEW i \in DOMAIN q
      PROVE  /\ i \in DOMAIN r /\ q[i] \in Rows /\ q[i].name = r[i].name
             /\ q[i].parent = IF "token.parent_id" \in drops THEN None ELSE r[i].parent
  <2>1. i \in DOMAIN r /\ q[i] = Forgotten(r[i], drops) /\ r[i] \in Rows
    BY DEF RowsOK
  <2> QED BY <2>1 DEF Forgotten, Rows
<1>2. RowsOK(q) /\ DOMAIN q \subseteq DOMAIN r
  BY <1>1 DEF RowsOK
<1>3. KeysApart(q)
  <2>1. CASE "token.parent_id" \in drops
    BY <2>1, <1>1 DEF KeysApart, NamesApart
  <2>2. CASE "token.parent_id" \notin drops
    BY <2>2, <1>1 DEF KeysApart
  <2> QED BY <2>1, <2>2
<1>4. NamesApart(r) => NamesApart(q)
  BY <1>1 DEF NamesApart
<1> QED BY <1>2, <1>3, <1>4 DEF RowsTo

(* One revision up leads from what a version made to what the next made.  *)
UpFrom(v, S, T) ==
    /\ v = 0 => S = {} \/ "auditevent" \in S
    /\ "admin_token.role" \in S => "admin_token" \in S
    /\ v >= 1 => Made(v) \subseteq S /\ S \subseteq Made(v) \cup Strays(v)
    /\ Chain[v + 1].up.adds \cap S = {}
    /\ T = (S \ (Chain[v + 1].up.drops \cup Chain[v + 1].up.clears))
               \cup Chain[v + 1].up.adds \cup Chain[v + 1].up.ensures

UpTo(v, S, T) ==
    /\ Made(v + 1) \subseteq T /\ T \subseteq Made(v + 1) \cup Strays(v + 1)
    /\ "admin_token.role" \in T => "admin_token" \in T
    /\ "token.parent_id" \notin Chain[v + 1].up.drops
    /\ Narrow \in T => Narrow \in S \/ Narrow \in Chain[v + 1].up.adds
    /\ S = Made(v) /\ v + 1 < 5 => T = Made(v + 1)

LEMMA UpMade ==
    ASSUME NEW v \in 0..9, NEW S, NEW T, UpFrom(v, S, T)
    PROVE  UpTo(v, S, T)
<1> USE DEF UpFrom, UpTo
<1>0. CASE v = 0
  <2>1. /\ Chain[v + 1].up.adds = BaseTables \cup BaseTypes
        /\ Chain[v + 1].up.drops = {} /\ Chain[v + 1].up.clears = {}
        /\ Chain[v + 1].up.ensures = {}
    BY <1>0 DEF Chain, R0c222da05aac, Alter
  <2>2. S = {}
    BY <1>0, <2>1 DEF BaseTypes
  <2>3. T = BaseTables \cup BaseTypes
    BY <2>1, <2>2
  <2>4. Made(v + 1) = BaseTables \cup BaseTypes
    BY <1>0 DEF Made, If
  <2> QED BY <2>1, <2>3, <2>4 DEF BaseTables, BaseTypes, Narrow
<1>1. CASE v = 1
  BY <1>1 DEF Chain, R50db14aea8e8, Alter, Made, Strays, If, BaseTables, BaseTypes, Narrow, Wide
<1>2. CASE v = 2
  BY <1>2 DEF Chain, Rdb5ff1ca50e2, Alter, Made, Strays, If, BaseTables, BaseTypes, Narrow, Wide
<1>3. CASE v = 3
  BY <1>3 DEF Chain, R0e1ef5458f74, Alter, Made, Strays, If, BaseTables, BaseTypes, Narrow, Wide
<1>4. CASE v = 4
  <2>1. /\ Chain[v + 1].up.drops = {} /\ Chain[v + 1].up.clears = {}
        /\ Chain[v + 1].up.adds = {"admin_token", "token.admin_token_id", "token_admin_token_id_fkey"}
        /\ Chain[v + 1].up.ensures = {}
    BY <1>4 DEF Chain, R8823466cec2e, Alter
  <2> QED BY <1>4, <2>1 DEF Made, Strays, If, BaseTables, BaseTypes, Narrow, Wide
<1>5. CASE v = 5
  BY <1>5 DEF Chain, R445b74e0a999, Alter, Made, Strays, If, BaseTables, BaseTypes, Narrow, Wide
<1>6. CASE v = 6
  BY <1>6 DEF Chain, Rfb5b063e37a1, Alter, Made, Strays, If, BaseTables, BaseTypes, Narrow, Wide
<1>7. CASE v = 7
  BY <1>7 DEF Chain, R237acb29e460, Alter, Made, Strays, If, BaseTables, BaseTypes, Narrow, Wide
<1>8. CASE v = 8
  BY <1>8 DEF Chain, R450dd1ce1ff1, Alter, Made, Strays, If, BaseTables, BaseTypes, Narrow, Wide
<1>9. CASE v = 9
  BY <1>9 DEF Chain, Rbc91b45c54bf, Alter, Made, Strays, If, BaseTables, BaseTypes, Narrow, Wide
<1> QED
  BY <1>0, <1>1, <1>2, <1>3, <1>4, <1>5, <1>6, <1>7, <1>8, <1>9

(* One revision down leads from what a version made to what the last made; *)
(* the tokens' parents are forgotten only where names are unique.         *)
DownFrom(v, S, T) ==
    /\ "admin_token.role" \in S => "admin_token" \in S
    /\ Made(v) \subseteq S /\ S \subseteq Made(v) \cup Strays(v)
    /\ "unnamed" \notin S
    /\ Chain[v].down.drops \subseteq S
    /\ T = (S \ (Chain[v].down.drops \cup Chain[v].down.clears))
               \cup Chain[v].down.adds \cup Chain[v].down.ensures

DownTo(v, S, T) ==
    /\ v # 5
    /\ v = 1 => "auditevent" \in T
    /\ v > 1 => Made(v - 1) \subseteq T /\ T \subseteq Made(v - 1) \cup Strays(v - 1)
    /\ "admin_token.role" \in T => "admin_token" \in T
    /\ "token.parent_id" \in Chain[v].down.drops => Narrow \in S
    /\ Narrow \in T => Narrow \in S \/ Narrow \in Chain[v].down.adds
    /\ S = Made(v) /\ v \in 2..4 => T = Made(v - 1)

LEMMA DownMade ==
    ASSUME NEW v \in 1..10, NEW S, NEW T, DownFrom(v, S, T)
    PROVE  DownTo(v, S, T)
<1> USE DEF DownFrom, DownTo
<1>1. CASE v = 1
  <2>1. /\ Chain[v].down.drops = BaseTables /\ Chain[v].down.clears = {}
        /\ Chain[v].down.adds = {}
        /\ Chain[v].down.ensures = {}
    BY <1>1 DEF Chain, R0c222da05aac, Alter
  <2> QED BY <1>1, <2>1 DEF Made, Strays, If, BaseTables, BaseTypes, Narrow, Wide
<1>2. CASE v = 2
  <2>1. /\ Chain[v].down.drops = {Narrow} /\ Chain[v].down.clears = {}
        /\ Chain[v].down.adds = {}
        /\ Chain[v].down.ensures = {}
    BY <1>2 DEF Chain, R50db14aea8e8, Alter
  <2> QED BY <1>2, <2>1 DEF Made, Strays, If, BaseTables, BaseTypes, Narrow, Wide
<1>3. CASE v = 3
  <2>1. /\ Chain[v].down.drops = {"user_duid_key", "user.duid"} /\ Chain[v].down.clears = {}
        /\ Chain[v].down.adds = {}
        /\ Chain[v].down.ensures = {}
    BY <1>3 DEF Chain, Rdb5ff1ca50e2, Alter
  <2> QED BY <1>3, <2>1 DEF Made, Strays, If, BaseTables, BaseTypes, Narrow, Wide
<1>4. CASE v = 4
  <2>1. /\ Chain[v].down.drops = {} /\ Chain[v].down.clears = {}
        /\ Chain[v].down.adds = {"user_duid_key"}
        /\ Chain[v].down.ensures = {}
    BY <1>4 DEF Chain, R0e1ef5458f74, Alter
  <2> QED BY <1>4, <2>1 DEF Made, Strays, If, BaseTables, BaseTypes, Narrow, Wide
<1>5. CASE v = 5
  BY <1>5 DEF Chain, R8823466cec2e, Alter
<1>6. CASE v = 6
  <2>1. /\ Chain[v].down.drops = {"admin_token.role"} /\ Chain[v].down.clears = {"adminrole"}
        /\ Chain[v].down.adds = {}
        /\ Chain[v].down.ensures = {}
    BY <1>6 DEF Chain, R445b74e0a999, Alter
  <2> QED BY <1>6, <2>1 DEF Made, Strays, If, BaseTables, BaseTypes, Narrow, Wide
<1>7. CASE v = 7
  <2>1. /\ Chain[v].down.drops = {"token.parent_id", "token.external_id", "token_parent_id_fkey"} /\ Chain[v].down.clears = {}
        /\ Chain[v].down.adds = {}
        /\ Chain[v].down.ensures = {}
    BY <1>7 DEF Chain, Rfb5b063e37a1, Alter
  <2> QED BY <1>7, <2>1 DEF Made, Strays, If, BaseTables, BaseTypes, Narrow, Wide
<1>8. CASE v = 8
  <2>1. /\ Chain[v].down.drops = {"token.session"} /\ Chain[v].down.clears = {}
        /\ Chain[v].down.adds = {}
        /\ Chain[v].down.ensures = {}
    BY <1>8 DEF Chain, R237acb29e460, Alter
  <2> QED BY <1>8, <2>1 DEF Made, Strays, If, BaseTables, BaseTypes, Narrow, Wide
<1>9. CASE v = 9
  <2>1. /\ Chain[v].down.drops = {Wide} /\ Chain[v].down.clears = {}
        /\ Chain[v].down.adds = {Narrow}
        /\ Chain[v].down.ensures = {}
    BY <1>9 DEF Chain, R450dd1ce1ff1, Alter
  <2> QED BY <1>9, <2>1 DEF Made, Strays, If, BaseTables, BaseTypes, Narrow, Wide
<1>10. CASE v = 10
  <2>1. /\ Chain[v].down.drops = {"token.rotatable"} /\ Chain[v].down.clears = {}
        /\ Chain[v].down.adds = {}
        /\ Chain[v].down.ensures = {}
    BY <1>10 DEF Chain, Rbc91b45c54bf, Alter
  <2> QED BY <1>10, <2>1 DEF Made, Strays, If, BaseTables, BaseTypes, Narrow, Wide
<1> QED
  BY <1>1, <1>2, <1>3, <1>4, <1>5, <1>6, <1>7, <1>8, <1>9, <1>10

LEMMA Unnamed ==
    ASSUME NEW v \in 1..10 PROVE "unnamed" \notin Made(v) \cup Strays(v)
BY DEF Made, Strays, If, BaseTables, BaseTypes, Narrow, Wide

(* A revision up keeps a world good, and a clean one clean.               *)
LEMMA UpGood ==
    ASSUME NEW w, WorldOK(w), Good(w), NEW v \in 0..9, w.version = v,
           NEW up, up = Chain[v + 1].up, Accepts(up, w),
           NEW x, x = Changed(up, w, v + 1)
    PROVE  /\ WorldOK(x) /\ Good(x)
           /\ Clean(w) /\ Empty(w) => Clean(x)
<1>1. /\ x.version = v + 1
      /\ x.schema = (w.schema \ (up.drops \cup up.clears)) \cup up.adds \cup up.ensures
      /\ x.rows = [i \in {j \in DOMAIN w.rows : "token" \notin up.drops} |->
                       Forgotten(w.rows[i], up.drops)]
  BY DEF Changed
<1>2. x = [schema |-> x.schema, version |-> x.version, rows |-> x.rows]
  BY DEF Changed
<1>3. /\ up.adds \cap w.schema = {}
      /\ Narrow \in up.adds => NamesApart(w.rows)
  BY DEF Accepts
<1>4. /\ Made(v + 1) \subseteq x.schema /\ x.schema \subseteq Made(v + 1) \cup Strays(v + 1)
      /\ "admin_token.role" \in x.schema => "admin_token" \in x.schema
      /\ "token.parent_id" \notin up.drops
      /\ Narrow \in x.schema => Narrow \in w.schema \/ Narrow \in up.adds
      /\ w.schema = Made(v) /\ v + 1 < 5 => x.schema = Made(v + 1)
  <2>1. UpFrom(v, w.schema, x.schema)
    BY <1>1, <1>3 DEF UpFrom, Good, Told
  <2>2. UpTo(v, w.schema, x.schema)
    BY <2>1, UpMade
  <2> QED BY <2>2 DEF UpTo
<1>5. /\ RowsOK(x.rows) /\ KeysApart(x.rows) /\ (NamesApart(w.rows) => NamesApart(x.rows))
      /\ DOMAIN x.rows \subseteq DOMAIN w.rows
  <2>1. RowsFrom(w.rows, up.drops, x.rows)
    BY <1>1, <1>4 DEF RowsFrom, WorldOK, Good
  <2>2. RowsTo(w.rows, x.rows)
    BY <2>1, RowsChanged
  <2> QED BY <2>2 DEF RowsTo
<1>6. WorldOK(x)
  BY <1>1, <1>2, <1>5 DEF WorldOK, Head
<1>7. Good(x)
  BY <1>1, <1>3, <1>4, <1>5 DEF Good, Told
<1>8. ASSUME Clean(w), Empty(w) PROVE Clean(x)
  <2>1. Made(0) = {}
    BY DEF Made, If
  <2>2. v < 4 => w.schema = Made(v) /\ DOMAIN w.rows = {}
    BY <1>8, <2>1 DEF Clean, Empty
  <2> QED BY <1>1, <1>4, <1>5, <2>2 DEF Clean
<1> QED BY <1>6, <1>7, <1>8

(* So does a revision down. *)
LEMMA DownGood ==
    ASSUME NEW w, WorldOK(w), Good(w), NEW v \in 1..10, w.version = v,
           NEW down, down = Chain[v].down, Accepts(down, w),
           NEW x, x = Changed(down, w, v - 1)
    PROVE  /\ WorldOK(x) /\ Good(x)
           /\ Clean(w) => Clean(x)
<1>1. /\ x.version = v - 1
      /\ x.schema = (w.schema \ (down.drops \cup down.clears)) \cup down.adds \cup down.ensures
      /\ x.rows = [i \in {j \in DOMAIN w.rows : "token" \notin down.drops} |->
                       Forgotten(w.rows[i], down.drops)]
  BY DEF Changed
<1>2. x = [schema |-> x.schema, version |-> x.version, rows |-> x.rows]
  BY DEF Changed
<1>3. /\ down.drops \subseteq w.schema
      /\ Narrow \in down.adds => NamesApart(w.rows)
  BY DEF Accepts
<1>4. /\ v # 5
      /\ v = 1 => "auditevent" \in x.schema
      /\ v > 1 => Made(v - 1) \subseteq x.schema /\ x.schema \subseteq Made(v - 1) \cup Strays(v - 1)
      /\ "admin_token.role" \in x.schema => "admin_token" \in x.schema
      /\ "token.parent_id" \in down.drops => Narrow \in w.schema
      /\ Narrow \in x.schema => Narrow \in w.schema \/ Narrow \in down.adds
      /\ w.schema = Made(v) /\ v \in 2..4 => x.schema = Made(v - 1)
  <2>1. Made(v) \subseteq w.schema /\ w.schema \subseteq Made(v) \cup Strays(v)
    BY DEF Good, Told
  <2>2. DownFrom(v, w.schema, x.schema)
    BY <1>1, <1>3, <2>1, Unnamed DEF DownFrom, Good
  <2>3. DownTo(v, w.schema, x.schema)
    BY <2>2, DownMade
  <2> QED BY <2>3 DEF DownTo
<1>5. /\ RowsOK(x.rows) /\ KeysApart(x.rows) /\ (NamesApart(w.rows) => NamesApart(x.rows))
      /\ DOMAIN x.rows \subseteq DOMAIN w.rows
  <2>1. RowsFrom(w.rows, down.drops, x.rows)
    BY <1>1, <1>4 DEF RowsFrom, WorldOK, Good
  <2>2. RowsTo(w.rows, x.rows)
    BY <2>1, RowsChanged
  <2> QED BY <2>2 DEF RowsTo
<1>6. WorldOK(x)
  BY <1>1, <1>2, <1>5 DEF WorldOK, Head
<1>7. Good(x)
  BY <1>1, <1>3, <1>4, <1>5 DEF Good, Told
<1>8. ASSUME Clean(w) PROVE Clean(x)
  BY <1>8, <1>1, <1>4, <1>5 DEF Clean
<1> QED BY <1>6, <1>7, <1>8
-----------------------------------------------------------------------------
(* The actions. *)

(* Without work. *)
LEMMA NoWorkOK ==
    WorldOK(NoWork) /\ DOMAIN NoWork = {"schema", "version", "rows"} /\ CommandOK(Idle)
BY DEF NoWork, WorldOK, RowsOK, Head, CommandOK, Idle

LEMMA InitInv ==
    Init => Inv
<1> SUFFICES ASSUME Init PROVE Inv
  OBVIOUS
<1>1. TypeOK
  <2>1. version \in 0..Head /\ RowsOK(rows)
    BY DEF Init, RowsOK, Head
  <2>2. DOMAIN cmd = Commands /\ \A c \in Commands : CommandOK(cmd[c])
    BY NoWorkOK DEF Init
  <2>3. work.version \in 0..Head /\ RowsOK(work.rows)
        /\ DOMAIN work = {"schema", "version", "rows"}
    BY NoWorkOK DEF Init, WorldOK
  <2>4. /\ DOMAIN server = Servers
        /\ \A s \in Servers : /\ server[s].pc \in {"off", "make", "serve"}
                              /\ server[s].missing \subseteq OrmTables
    BY DEF Init, Off
  <2> QED BY <2>1, <2>2, <2>3, <2>4 DEF Init, TypeOK
<1>2. Good(World) /\ Clean(World) /\ Empty(World)
  BY DEF Init, World, Good, Told, Clean, Empty, KeysApart, Narrow
<1>3. WorldOK(work)
  BY NoWorkOK DEF Init
<1> QED BY <1>1, <1>2, <1>3 DEF Inv, GoodInv, CleanInv, Init

LEMMA AskInv ==
    ASSUME Inv, NEW c \in Commands, NEW v \in Targets, Ask(c, v) PROVE Inv'
<1>1. UNCHANGED <<schema, version, rows, owner, work, server, spoilt>> /\ cmd[c] = Idle
  BY DEF Ask
<1>2. /\ DOMAIN cmd' = Commands
      /\ \A d \in Commands \ {c} : cmd'[d] = cmd[d]
      /\ cmd'[c] = [pc |-> "run", target |-> v, from |-> version]
  BY DEF Ask, Inv, TypeOK
<1>3. owner # None => owner \in Commands \ {c}
  BY <1>1 DEF Inv, TypeOK, Idle
<1>4. TypeOK'
  BY <1>1, <1>2, <1>3, MigrationAssumption DEF Inv, TypeOK, CommandOK
<1>5. GoodInv'
  BY <1>1 DEF Inv, GoodInv, World
<1>6. CleanInv'
  BY <1>1, <1>2, <1>3 DEF Inv, CleanInv, World
<1> QED BY <1>4, <1>5, <1>6 DEF Inv

LEMMA LockInv ==
    ASSUME Inv, NEW c \in Commands, Lock(c) PROVE Inv'
<1>1. /\ UNCHANGED <<schema, version, rows, cmd, server, spoilt>>
      /\ owner' = c /\ work' = World /\ cmd[c].pc = "run"
  BY DEF Lock, World
<1>2. WorldOK(World)
  BY DEF Inv, TypeOK, WorldOK, World
<1>3. TypeOK'
  BY <1>1 DEF Inv, TypeOK, World
<1>4. GoodInv'
  BY <1>1, <1>2 DEF Inv, GoodInv, World
<1>5. CleanInv'
  BY <1>1 DEF Inv, CleanInv, World
<1> QED BY <1>3, <1>4, <1>5 DEF Inv

LEMMA UpgradeInv ==
    ASSUME Inv, NEW c \in Commands, Upgrade(c) PROVE Inv'
<1>1. /\ UNCHANGED <<schema, version, rows, cmd, owner, server, spoilt>>
      /\ owner = c /\ owner # None /\ work.version < cmd[c].target
      /\ Accepts(Chain[work.version + 1].up, work)
      /\ work' = Changed(Chain[work.version + 1].up, work, work.version + 1)
  BY MigrationAssumption DEF Upgrade
<1>2. work.version \in 0..9 /\ cmd[c].target \in 0..10
  <2>1. cmd[c].target \in 0..10 /\ work.version \in 0..10
    BY DEF Inv, TypeOK, CommandOK, Head
  <2> QED BY <1>1, <2>1
<1>3. WorldOK(work) /\ Good(work)
  BY <1>1 DEF Inv, GoodInv
<1>4. /\ WorldOK(work') /\ Good(work')
      /\ Clean(work) /\ Empty(work) => Clean(work')
  BY <1>1, <1>2, <1>3, UpGood
<1>5. work'.version = work.version + 1 /\ DOMAIN work' = {"schema", "version", "rows"}
  BY <1>1 DEF Changed
<1>6. TypeOK'
  BY <1>1, <1>4, <1>5 DEF Inv, TypeOK, WorldOK
<1>7. GoodInv'
  BY <1>1, <1>4 DEF Inv, GoodInv, World
<1>8. CleanInv'
  <2>1. Empty(work')
    BY <1>2, <1>5 DEF Empty
  <2> QED BY <1>1, <1>2, <1>4, <2>1 DEF Inv, CleanInv, World
<1> QED BY <1>6, <1>7, <1>8 DEF Inv

LEMMA DowngradeInv ==
    ASSUME Inv, NEW c \in Commands, Downgrade(c) PROVE Inv'
<1>1. /\ UNCHANGED <<schema, version, rows, cmd, owner, server, spoilt>>
      /\ owner = c /\ owner # None /\ work.version > cmd[c].target
      /\ Accepts(Chain[work.version].down, work)
      /\ work' = Changed(Chain[work.version].down, work, work.version - 1)
  BY MigrationAssumption DEF Downgrade
<1>2. work.version \in 1..10 /\ cmd[c].target \in 0..10
  <2>1. cmd[c].target \in 0..10 /\ work.version \in 0..10
    BY DEF Inv, TypeOK, CommandOK, Head
  <2> QED BY <1>1, <2>1
<1>3. WorldOK(work) /\ Good(work)
  BY <1>1 DEF Inv, GoodInv
<1>4. /\ WorldOK(work') /\ Good(work')
      /\ Clean(work) => Clean(work')
  BY <1>1, <1>2, <1>3, DownGood
<1>5. work'.version = work.version - 1 /\ DOMAIN work' = {"schema", "version", "rows"}
  BY <1>1 DEF Changed
<1>6. TypeOK'
  BY <1>1, <1>4, <1>5 DEF Inv, TypeOK, WorldOK
<1>7. GoodInv'
  BY <1>1, <1>4 DEF Inv, GoodInv, World
<1>8. CleanInv'
  <2>1. cmd[c].target > 0 => Empty(work')
    BY <1>1, <1>2, <1>5 DEF Empty
  <2> QED BY <1>1, <1>4, <2>1 DEF Inv, CleanInv, World
<1> QED BY <1>6, <1>7, <1>8 DEF Inv

LEMMA CommitInv ==
    ASSUME Inv, NEW c \in Commands, Commit(c) PROVE Inv'
<1>1. /\ owner = c /\ owner # None /\ owner' = None /\ work' = NoWork
      /\ schema' = work.schema /\ version' = work.version /\ rows' = work.rows
      /\ cmd' = [cmd EXCEPT ![c] = Idle] /\ server' = server
      /\ spoilt' = (spoilt \/ work.version = 0)
  BY MigrationAssumption DEF Commit
<1>2. WorldOK(work) /\ Good(work)
  BY <1>1 DEF Inv, GoodInv
<1>3. World' = work
  BY <1>1, <1>2 DEF World, WorldOK
<1>4. DOMAIN cmd' = Commands /\ \A d \in Commands : CommandOK(cmd'[d])
  BY <1>1, NoWorkOK DEF Inv, TypeOK
<1>5. TypeOK'
  BY <1>1, <1>2, <1>4, NoWorkOK DEF Inv, TypeOK, WorldOK
<1>6. GoodInv'
  BY <1>1, <1>2, <1>3, NoWorkOK DEF GoodInv
<1>7. CleanInv'
  <2>1. ~spoilt' => Clean(work) /\ Empty(work)
    BY <1>1 DEF Inv, CleanInv, Empty
  <2> QED BY <1>1, <1>3, <2>1 DEF CleanInv
<1> QED BY <1>5, <1>6, <1>7 DEF Inv

LEMMA AbortInv ==
    ASSUME Inv, NEW c \in Commands, Abort(c) PROVE Inv'
<1>1. /\ UNCHANGED <<schema, version, rows, server, spoilt>>
      /\ cmd' = [cmd EXCEPT ![c] = Idle]
      /\ \/ owner = c /\ owner' = None /\ work' = NoWork
         \/ owner # c /\ UNCHANGED <<owner, work>>
  BY DEF Abort
<1>2. /\ DOMAIN cmd' = Commands /\ \A d \in Commands : CommandOK(cmd'[d])
      /\ \A d \in Commands \ {c} : cmd'[d] = cmd[d]
  BY <1>1, NoWorkOK DEF Inv, TypeOK
<1>3. /\ DOMAIN NoWork = {"schema", "version", "rows"}
      /\ NoWork.version \in 0..Head /\ RowsOK(NoWork.rows)
  BY NoWorkOK DEF WorldOK
<1>4. owner' # None => owner' = owner /\ owner \in Commands \ {c} /\ work' = work
  BY <1>1 DEF Inv, TypeOK
<1>5. TypeOK'
  BY <1>1, <1>2, <1>3, <1>4 DEF Inv, TypeOK
<1>6. GoodInv'
  BY <1>1, <1>4, NoWorkOK DEF Inv, GoodInv, World
<1>7. CleanInv'
  BY <1>1, <1>2, <1>4 DEF Inv, CleanInv, World
<1> QED BY <1>5, <1>6, <1>7 DEF Inv

LEMMA LookInv ==
    ASSUME Inv, NEW s \in Servers, Look(s) PROVE Inv'
<1>1. /\ UNCHANGED <<schema, version, rows, cmd, owner, work, spoilt>>
      /\ server' = [server EXCEPT ![s] = [pc |-> "make", missing |-> OrmTables \ schema]]
  BY DEF Look
<1>2. TypeOK'
  BY <1>1 DEF Inv, TypeOK
<1>3. GoodInv' /\ CleanInv'
  BY <1>1 DEF Inv, GoodInv, CleanInv, World
<1> QED BY <1>2, <1>3 DEF Inv

LEMMA StopInv ==
    ASSUME Inv, NEW s \in Servers, Stop(s) PROVE Inv'
<1>1. /\ UNCHANGED <<schema, version, rows, cmd, owner, work, spoilt>>
      /\ server' = [server EXCEPT ![s] = Off]
  BY DEF Stop
<1>2. TypeOK'
  BY <1>1 DEF Inv, TypeOK, Off
<1>3. GoodInv' /\ CleanInv'
  BY <1>1 DEF Inv, GoodInv, CleanInv, World
<1> QED BY <1>2, <1>3 DEF Inv

(* create_all adds types, and before 8823466cec2e the table of the admin  *)
(* tokens: the other tables are there.  Before the first revision it      *)
(* leaves auditevent, which the first revision finds.                     *)
LEMMA CreateAllInv ==
    ASSUME Inv, NEW s \in Servers, CreateAll(s) PROVE Inv'
<1> DEFINE missing == server[s].missing
           added == OrmTypes \cup UNION {Orm(t) : t \in missing}
<1>1. /\ UNCHANGED <<version, rows, cmd, owner, work>> /\ owner = None
      /\ missing \subseteq OrmTables /\ missing \cap schema = {}
      /\ schema' = schema \cup added
      /\ server' = [server EXCEPT ![s] = [pc |-> "serve", missing |-> {}]]
      /\ spoilt' = (spoilt \/ version < 5)
  BY DEF CreateAll, Inv, TypeOK
<1>2. version \in 0..10 /\ Good(World)
  BY DEF Inv, TypeOK, GoodInv, Head
<1>3. TypeOK'
  BY <1>1 DEF Inv, TypeOK
<1>4. Narrow \notin added
  BY <1>1 DEF Orm, OrmTypes, OrmTables, BaseTables, BaseTypes, Narrow
<1>5. "admin_token.role" \in added => "admin_token" \in missing
  BY <1>1 DEF Orm, OrmTypes, OrmTables, BaseTables, BaseTypes
<1>6. missing \subseteq added /\ "auditevent" \in added
  BY DEF Orm, OrmTypes, BaseTypes
<1>7. ASSUME version >= 1
      PROVE  Made(version) \subseteq schema' /\ schema' \subseteq Made(version) \cup Strays(version)
  <2>1. Made(version) \subseteq schema /\ schema \subseteq Made(version) \cup Strays(version)
    BY <1>2, <1>7 DEF Good, Told, World
  <2>2. BaseTables \cup BaseTypes \subseteq Made(version)
    BY <1>7 DEF Made, If
  <2>3. missing \subseteq {"admin_token"}
    BY <1>1, <2>1, <2>2 DEF OrmTables
  <2>4. added \subseteq OrmTypes \cup {"admin_token", "admin_token.role"}
    BY <2>3 DEF Orm
  <2>5. CASE version < 5
    <3>1. Strays(version) = {"adminrole", "admin_token", "admin_token.role"}
      BY <2>5 DEF Strays, If
    <3> QED BY <1>1, <2>1, <2>2, <2>4, <3>1 DEF OrmTypes
  <2>6. CASE version >= 5
    <3>1. "admin_token" \in Made(version) /\ "adminrole" \in Strays(version)
      BY <2>6 DEF Made, Strays, If
    <3>2. missing = {}
      BY <1>1, <2>1, <2>3, <3>1
    <3>3. added = OrmTypes
      BY <3>2
    <3> QED BY <1>1, <2>1, <2>2, <3>1, <3>3 DEF OrmTypes
  <2> QED BY <1>2, <2>5, <2>6
<1> HIDE DEF added
<1>8. Good(World)'
  <2>1. /\ version' = 0 => "auditevent" \in schema'
        /\ "admin_token.role" \in schema' => "admin_token" \in schema'
    BY <1>1, <1>2, <1>5, <1>6 DEF Good, World
  <2>2. KeysApart(rows)' /\ (Narrow \in schema' => NamesApart(rows)')
    BY <1>1, <1>2, <1>4 DEF Good, World, KeysApart, NamesApart
  <2> QED BY <1>1, <1>7, <2>1, <2>2 DEF Good, Told, World
<1>9. GoodInv'
  BY <1>1, <1>8 DEF Inv, GoodInv
<1>10. CleanInv'
  <2>1. ~spoilt' => version' = version /\ ~(version < 5)
    BY <1>1
  <2>2. ~(version < 5) => version \notin 1..4 /\ version # 0
    BY <1>2
  <2>3. ~spoilt' => version' \notin 1..4 /\ version' # 0
    BY <2>1, <2>2
  <2>4. ~spoilt' => Clean(World)' /\ Empty(World)'
    BY <2>3 DEF Clean, Empty, World
  <2> QED BY <1>1, <2>4 DEF CleanInv
<1> QED BY <1>3, <1>9, <1>10 DEF Inv

(* A clean database before 8823466cec2e lacks columns the ORM names.      *)
LEMMA Unserved ==
    ASSUME Inv, OrmNames \subseteq schema
    PROVE  ~spoilt => version \notin 0..4
<1>1. "token.rotatable" \in OrmNames
  BY DEF OrmNames
<1>2. ASSUME NEW v \in 1..4 PROVE "token.rotatable" \notin Made(v)
  BY DEF Made, If, BaseTables, BaseTypes, Narrow, Wide
<1> QED BY <1>1, <1>2 DEF Inv, CleanInv, Clean, Empty, World

LEMMA InsertInv ==
    ASSUME Inv, NEW s \in Servers, NEW id \in Ids, NEW row \in Rows, Insert(s, id, row)
    PROVE  Inv'
<1>1. /\ UNCHANGED <<schema, version, cmd, owner, work, server, spoilt>>
      /\ owner = None /\ OrmNames \subseteq schema
      /\ rows' = [i \in DOMAIN rows \cup {id} |-> IF i = id THEN row ELSE rows[i]]
      /\ KeysApart(rows') /\ (Narrow \in schema => NamesApart(rows'))
  BY DEF Insert
<1>2. RowsOK(rows')
  BY <1>1 DEF Inv, TypeOK, RowsOK
<1>3. TypeOK'
  BY <1>1, <1>2 DEF Inv, TypeOK
<1>4. GoodInv'
  BY <1>1 DEF Inv, GoodInv, Good, Told, World
<1>5. CleanInv'
  BY <1>1, Unserved DEF Inv, CleanInv, Clean, Empty, World
<1> QED BY <1>3, <1>4, <1>5 DEF Inv

LEMMA DeleteInv ==
    ASSUME Inv, NEW s \in Servers, NEW id \in Ids, Delete(s, id)
    PROVE  Inv'
<1>1. /\ UNCHANGED <<schema, version, cmd, owner, work, server, spoilt>>
      /\ owner = None /\ OrmNames \subseteq schema
      /\ rows' = [i \in {j \in DOMAIN rows : j # id /\ rows[j].parent # id} |-> rows[i]]
  BY DEF Delete
<1>2. /\ RowsOK(rows') /\ (KeysApart(rows) => KeysApart(rows'))
      /\ NamesApart(rows) => NamesApart(rows')
  BY <1>1 DEF Inv, TypeOK, RowsOK, KeysApart, NamesApart
<1>3. TypeOK'
  BY <1>1, <1>2 DEF Inv, TypeOK
<1>4. GoodInv'
  BY <1>1, <1>2 DEF Inv, GoodInv, Good, Told, World
<1>5. CleanInv'
  <2>1. ~spoilt => version \notin 0..4
    BY <1>1, Unserved
  <2>2. ~spoilt' => Clean(World)' /\ Empty(World)'
    BY <1>1, <2>1 DEF Clean, Empty, World
  <2> QED BY <1>1, <2>2 DEF CleanInv
<1> QED BY <1>3, <1>4, <1>5 DEF Inv

LEMMA NextInv ==
    ASSUME Inv, [Next]_vars PROVE Inv'
<1>1. CASE UNCHANGED vars
  BY <1>1 DEF vars, Inv, TypeOK, GoodInv, CleanInv, World
<1>2. ASSUME NEW c \in Commands, Migrate(c) PROVE Inv'
  BY <1>2, AskInv, LockInv, UpgradeInv, DowngradeInv, CommitInv, AbortInv DEF Migrate
<1>3. ASSUME NEW s \in Servers, Serve(s) PROVE Inv'
  BY <1>3, LookInv, CreateAllInv, StopInv, InsertInv, DeleteInv DEF Serve
<1> QED BY <1>1, <1>2, <1>3 DEF Next

LEMMA InvHolds == Spec => []Inv
BY InitInv, NextInv, PTL DEF Spec

-----------------------------------------------------------------------------
(* The theorems. *)

(* The types of the variables, for any number of commands and servers.    *)
THEOREM MigrationTypes == Spec => []TypeOK
<1>1. Inv => TypeOK
  BY DEF Inv
<1> QED BY <1>1, InvHolds, PTL

(* What alembic_version says is what the schema is, whichever commands    *)
(* race, die or are refused, and whenever servers create tables.          *)
THEOREM VersionIsTold == Spec => []VersionTold
<1>1. Inv => VersionTold
  BY DEF Inv, GoodInv, Good, Told, World, VersionTold
<1> QED BY <1>1, InvHolds, PTL

(* At the head revision the servers' statements find what they name, and  *)
(* the names of tokens are constrained as the ORM says.                   *)
THEOREM SyncedAtHead == Spec => []Synced
<1>1. ASSUME Inv, version = Head PROVE Synced
  <2>1. /\ Made(version) \subseteq schema
        /\ schema \subseteq Made(version) \cup Strays(version)
    BY <1>1 DEF Inv, GoodInv, Good, Told, World, Head
  <2>2. /\ OrmNames \subseteq Made(version) /\ Wide \in Made(version)
        /\ Narrow \notin Made(version) /\ "user_duid_key" \notin Made(version)
    BY <1>1 DEF Made, If, OrmNames, OrmTables, BaseTables, BaseTypes, Narrow, Wide, Head
  <2>3. Narrow \notin Strays(version) /\ "user_duid_key" \notin Strays(version)
    BY DEF Strays, If, Narrow
  <2> QED BY <2>1, <2>2, <2>3 DEF Synced
<1>2. Inv => Synced
  BY <1>1 DEF Synced
<1> QED BY <1>2, InvHolds, PTL

(* Tokens never share name and parent, whatever is migrated meanwhile.    *)
THEOREM RowsStayApart == Spec => []RowsApart
<1>1. Inv => RowsApart
  BY DEF Inv, GoodInv, Good, World, RowsApart
<1> QED BY <1>1, InvHolds, PTL

(* A clean database takes every revision up.                              *)
LEMMA UpAccepted ==
    ASSUME NEW w, WorldOK(w), Good(w), Clean(w), Empty(w), NEW v \in 0..9, w.version = v
    PROVE  Accepts(Chain[v + 1].up, w)
<1>1. CASE v = 0
  BY <1>1 DEF Accepts, Empty, Chain, R0c222da05aac, Alter, BaseTables, BaseTypes, Narrow, Wide
<1>2. CASE v \in 1..4
  <2>1. w.schema = Made(v) /\ NamesApart(w.rows) /\ KeysApart(w.rows)
    BY <1>2 DEF Clean, NamesApart, KeysApart
  <2>2. CASE v = 1
    BY <2>1, <2>2 DEF Accepts, Chain, R50db14aea8e8, Alter, Made, If, BaseTables, BaseTypes, Narrow, Wide
  <2>3. CASE v = 2
    BY <2>1, <2>3 DEF Accepts, Chain, Rdb5ff1ca50e2, Alter, Made, If, BaseTables, BaseTypes, Narrow, Wide
  <2>4. CASE v = 3
    BY <2>1, <2>4 DEF Accepts, Chain, R0e1ef5458f74, Alter, Made, If, BaseTables, BaseTypes, Narrow, Wide
  <2>5. CASE v = 4
    BY <2>1, <2>5 DEF Accepts, Chain, R8823466cec2e, Alter, Made, If, BaseTables, BaseTypes, Narrow, Wide
  <2> QED BY <1>2, <2>2, <2>3, <2>4, <2>5
<1>3. CASE v \in 5..9
  <2>1. /\ Made(v) \subseteq w.schema /\ w.schema \subseteq Made(v) \cup {"adminrole"}
        /\ KeysApart(w.rows)
    BY <1>3 DEF Good, Told, Strays, If
  <2>2. CASE v = 5
    BY <2>1, <2>2 DEF Accepts, Chain, R445b74e0a999, Alter, Made, If, BaseTables, BaseTypes, Narrow, Wide
  <2>3. CASE v = 6
    BY <2>1, <2>3 DEF Accepts, Chain, Rfb5b063e37a1, Alter, Made, If, BaseTables, BaseTypes, Narrow, Wide
  <2>4. CASE v = 7
    BY <2>1, <2>4 DEF Accepts, Chain, R237acb29e460, Alter, Made, If, BaseTables, BaseTypes, Narrow, Wide
  <2>5. CASE v = 8
    BY <2>1, <2>5 DEF Accepts, Chain, R450dd1ce1ff1, Alter, Made, If, BaseTables, BaseTypes, Narrow, Wide
  <2>6. CASE v = 9
    BY <2>1, <2>6 DEF Accepts, Chain, Rbc91b45c54bf, Alter, Made, If, BaseTables, BaseTypes, Narrow, Wide
  <2> QED BY <1>3, <2>2, <2>3, <2>4, <2>5, <2>6
<1> QED BY <1>1, <1>2, <1>3

(* No upgrade is refused, after any downgrades and whatever was written,  *)
(* unless create_all came too early or `downgrade base' was run.          *)
THEOREM UpgradesAccepted == Spec => []UpgradeAccepted
<1>1. ASSUME Inv, owner # None, work.version < cmd[owner].target, ~spoilt
      PROVE  Accepts(Chain[work.version + 1].up, work)
  <2>1. cmd[owner].target \in 0..10 /\ work.version \in 0..10
    BY <1>1 DEF Inv, TypeOK, CommandOK, Head
  <2>2. work.version \in 0..9 /\ cmd[owner].target > 0
    BY <1>1, <2>1
  <2>3. WorldOK(work) /\ Good(work) /\ Clean(work) /\ Empty(work)
    BY <1>1, <2>2 DEF Inv, GoodInv, CleanInv
  <2> QED BY <2>2, <2>3, UpAccepted
<1>2. Inv => UpgradeAccepted
  BY <1>1 DEF UpgradeAccepted
<1> QED BY <1>2, InvHolds, PTL

-----------------------------------------------------------------------------
(* What becomes of the tokens. *)

(* A table of tokens with no more than its version has columns for: all   *)
(* but those that create_all made too early, which stop every command.    *)
Bare(w) == w.version >= 1 \/ "token" \notin w.schema => w.rows = Portion(w.version, w.rows)

(* A command is on its way from the version it found to its target, and   *)
(* has lost of the tokens what the lowest version so far cannot hold.     *)
OnItsWay ==
    owner # None =>
        /\ Bare(work)
        /\ \/ version <= work.version /\ work.version <= cmd[owner].target
           \/ cmd[owner].target <= work.version /\ work.version <= version
        /\ IF version >= 1 \/ "token" \notin schema
           THEN work.rows = Portion(Lower(version, work.version), rows)
           ELSE work.version = 0 /\ "token" \in work.schema

BareInv == Bare(World) /\ OnItsWay

LEMMA PortionPortion ==
    ASSUME NEW a \in Nat, NEW b \in Nat, NEW r
    PROVE  Portion(a, Portion(b, r)) = Portion(Lower(a, b), r)
<1>1. ASSUME NEW row
      PROVE  Projected(a, Projected(b, row)) = Projected(Lower(a, b), row)
  <2>1. /\ Projected(b, row).name = row.name
        /\ Projected(b, row).parent = IF b >= 7 THEN row.parent ELSE None
        /\ Projected(b, row).session = IF b >= 8 THEN row.session ELSE FALSE
    BY DEF Projected
  <2>2. /\ Lower(a, b) >= 7 <=> a >= 7 /\ b >= 7
        /\ Lower(a, b) >= 8 <=> a >= 8 /\ b >= 8
    BY DEF Lower
  <2>3. CASE a >= 8
    BY <2>1, <2>2, <2>3 DEF Projected
  <2>4. CASE a < 8 /\ a >= 7
    BY <2>1, <2>2, <2>4 DEF Projected
  <2>5. CASE a < 7
    BY <2>1, <2>2, <2>5 DEF Projected
  <2> QED BY <2>3, <2>4, <2>5
<1>2. /\ DOMAIN Portion(b, r) = {j \in DOMAIN r : b >= 1}
      /\ \A i \in DOMAIN Portion(b, r) : Portion(b, r)[i] = Projected(b, r[i])
  BY DEF Portion
<1>3. {j \in DOMAIN Portion(b, r) : a >= 1} = {j \in DOMAIN r : Lower(a, b) >= 1}
  BY <1>2 DEF Lower
<1>4. ASSUME NEW i \in {j \in DOMAIN r : Lower(a, b) >= 1}
      PROVE  Projected(a, Portion(b, r)[i]) = Projected(Lower(a, b), r[i])
  BY <1>1, <1>2, <1>3, <1>4
<1>5. Portion(a, Portion(b, r)) =
          [i \in {j \in DOMAIN Portion(b, r) : a >= 1} |-> Projected(a, Portion(b, r)[i])]
  BY DEF Portion
<1>6. Portion(Lower(a, b), r) =
          [i \in {j \in DOMAIN r : Lower(a, b) >= 1} |-> Projected(Lower(a, b), r[i])]
  BY DEF Portion
<1> QED BY <1>3, <1>4, <1>5, <1>6

LEMMA ProjectedWhole ==
    ASSUME NEW v \in Nat, v >= 8, NEW row
    PROVE  Projected(v, row) =
               [name |-> row.name, parent |-> row.parent, session |-> row.session]
<1>1. v >= 7
  OBVIOUS
<1> QED BY <1>1 DEF Projected

LEMMA ProjectedUnmarked ==
    ASSUME NEW row
    PROVE  Projected(7, row) =
               [name |-> row.name, parent |-> row.parent, session |-> FALSE]
BY DEF Projected

LEMMA ProjectedAlone ==
    ASSUME NEW v \in Nat, v < 7, NEW row
    PROVE  Projected(v, row) = [name |-> row.name, parent |-> None, session |-> FALSE]
<1>1. ~(v >= 7) /\ ~(v >= 8)
  OBVIOUS
<1> QED BY <1>1 DEF Projected

(* What a revision forgets of a token, by the columns it drops.           *)
LEMMA ForgottenIs ==
    ASSUME NEW row \in Rows, NEW drops
    PROVE  /\ "token.parent_id" \notin drops /\ "token.session" \notin drops =>
                Forgotten(row, drops) = row
           /\ "token.parent_id" \in drops /\ "token.session" \notin drops =>
                Forgotten(row, drops) =
                    [name |-> row.name, parent |-> None, session |-> row.session]
           /\ "token.parent_id" \notin drops /\ "token.session" \in drops =>
                Forgotten(row, drops) =
                    [name |-> row.name, parent |-> row.parent, session |-> FALSE]
<1> DEFINE p == IF "token.parent_id" \in drops THEN None ELSE row.parent
           s == row.session /\ "token.session" \notin drops
           g == [name |-> row.name, parent |-> row.parent, session |-> row.session]
<1>1. row = g /\ row.session \in BOOLEAN
  BY DEF Rows
<1>2. /\ "token.session" \notin drops => s = row.session
      /\ "token.session" \in drops => s = FALSE
  BY <1>1
<1>3. Forgotten(row, drops) = [row EXCEPT !.parent = p, !.session = s]
  BY DEF Forgotten
<1>p. /\ "token.parent_id" \notin drops => p = row.parent
      /\ "token.parent_id" \in drops => p = None
  OBVIOUS
<1> HIDE DEF p, s
<1>4. ASSUME NEW n, NEW o, NEW z
      PROVE  [[name |-> n, parent |-> o, session |-> z] EXCEPT !.parent = p, !.session = s]
                 = [name |-> n, parent |-> p, session |-> s]
  <2>1. [[name |-> n, parent |-> o, session |-> z] EXCEPT !.parent = p]
            = [name |-> n, parent |-> p, session |-> z]
    OBVIOUS
  <2> DEFINE h == [[name |-> n, parent |-> o, session |-> z] EXCEPT !.parent = p]
  <2> HIDE DEF h
  <2>2. h = [name |-> n, parent |-> p, session |-> z]
    BY <2>1 DEF h
  <2>3. [h EXCEPT !.session = s] = [name |-> n, parent |-> p, session |-> s]
    BY <2>2
  <2> QED BY <2>3 DEF h
<1>5. [g EXCEPT !.parent = p, !.session = s] = [name |-> row.name, parent |-> p, session |-> s]
  BY <1>4
<1> HIDE DEF g
<1>6. Forgotten(row, drops) = [name |-> row.name, parent |-> p, session |-> s]
  BY <1>1, <1>3, <1>5
<1>7. row = [name |-> row.name, parent |-> row.parent, session |-> row.session]
  BY <1>1 DEF g
<1> QED BY <1>2, <1>6, <1>7, <1>p

LEMMA SessionField ==
    ASSUME NEW row, NEW n, NEW o, NEW x, row = [name |-> n, parent |-> o, session |-> x]
    PROVE  /\ row = [name |-> row.name, parent |-> row.parent, session |-> row.session]
           /\ [name |-> n, parent |-> None, session |-> row.session] =
                  [name |-> n, parent |-> None, session |-> x]
OBVIOUS

LEMMA Onward ==
    ASSUME NEW v \in Nat, NEW row, row = Projected(v, row)
    PROVE  row = Projected(v + 1, row)
<1>1. CASE v >= 8
  <2>1. v + 1 \in Nat /\ v + 1 >= 8
    BY <1>1
  <2>2. Projected(v + 1, row) = Projected(v, row)
    BY <1>1, <2>1, ProjectedWhole
  <2> QED BY <2>2
<1>2. CASE v = 7
  <2>1. row = [name |-> row.name, parent |-> row.parent, session |-> FALSE]
    BY <1>2, ProjectedUnmarked
  <2>2. Projected(8, row) = [name |-> row.name, parent |-> row.parent, session |-> row.session]
    BY ProjectedWhole
  <2>3. row = [name |-> row.name, parent |-> row.parent, session |-> row.session]
    BY <2>1, SessionField, Zenon
  <2> QED BY <1>2, <2>2, <2>3
<1>3. CASE v = 6
  <2>1. Projected(6, row) = [name |-> row.name, parent |-> None, session |-> FALSE]
    <3>1. 6 \in Nat /\ 6 < 7
      OBVIOUS
    <3> QED BY <3>1, ProjectedAlone, Zenon
  <2>0. row = Projected(6, row)
    BY <1>3
  <2>2. row = [name |-> row.name, parent |-> None, session |-> FALSE]
    BY <2>0, <2>1, Zenon
  <2>3. Projected(7, row) = [name |-> row.name, parent |-> row.parent, session |-> FALSE]
    BY ProjectedUnmarked
  <2>4. row.parent = None
    BY <2>2
  <2>5. Projected(7, row) = Projected(6, row)
    BY <2>1, <2>3, <2>4
  <2>6. v + 1 = 7
    BY <1>3
  <2> QED BY <2>0, <2>5, <2>6
<1>4. CASE v < 6
  <2>1. v + 1 \in Nat /\ v + 1 < 7 /\ v < 7
    BY <1>4
  <2>2. Projected(v + 1, row) = Projected(v, row)
    BY <2>1, ProjectedAlone
  <2> QED BY <2>2
<1> QED BY <1>1, <1>2, <1>3, <1>4

(* No upgrade drops a column of the tokens; a downgrade drops what its    *)
(* upgrade has added.                                                     *)
LEMMA UpDrops ==
    ASSUME NEW v \in 0..9
    PROVE  {"token", "token.parent_id", "token.session"} \cap Chain[v + 1].up.drops = {}
<1>1. CASE v = 0
  BY <1>1 DEF Chain, R0c222da05aac, Alter
<1>2. CASE v = 1
  BY <1>2 DEF Chain, R50db14aea8e8, Alter
<1>3. CASE v = 2
  BY <1>3 DEF Chain, Rdb5ff1ca50e2, Alter
<1>4. CASE v = 3
  BY <1>4 DEF Chain, R0e1ef5458f74, Alter
<1>5. CASE v = 4
  BY <1>5 DEF Chain, R8823466cec2e, Alter
<1>6. CASE v = 5
  BY <1>6 DEF Chain, R445b74e0a999, Alter
<1>7. CASE v = 6
  BY <1>7 DEF Chain, Rfb5b063e37a1, Alter
<1>8. CASE v = 7
  BY <1>8 DEF Chain, R237acb29e460, Alter
<1>9. CASE v = 8
  BY <1>9 DEF Chain, R450dd1ce1ff1, Alter, Narrow
<1>10. CASE v = 9
  BY <1>10 DEF Chain, Rbc91b45c54bf, Alter
<1> QED BY <1>1, <1>2, <1>3, <1>4, <1>5, <1>6, <1>7, <1>8, <1>9, <1>10

LEMMA DownDrops ==
    ASSUME NEW v \in 1..10
    PROVE  LET drops == Chain[v].down.drops
           IN  /\ "token" \in drops <=> v = 1
               /\ "token.parent_id" \in drops <=> v = 7
               /\ "token.session" \in drops <=> v = 8
<1>1. CASE v = 1
  BY <1>1 DEF Chain, R0c222da05aac, Alter, BaseTables
<1>2. CASE v = 2
  BY <1>2 DEF Chain, R50db14aea8e8, Alter, Narrow
<1>3. CASE v = 3
  BY <1>3 DEF Chain, Rdb5ff1ca50e2, Alter
<1>4. CASE v = 4
  BY <1>4 DEF Chain, R0e1ef5458f74, Alter
<1>5. CASE v = 5
  BY <1>5 DEF Chain, R8823466cec2e, Alter
<1>6. CASE v = 6
  BY <1>6 DEF Chain, R445b74e0a999, Alter
<1>7. CASE v = 7
  BY <1>7 DEF Chain, Rfb5b063e37a1, Alter
<1>8. CASE v = 8
  BY <1>8 DEF Chain, R237acb29e460, Alter
<1>9. CASE v = 9
  BY <1>9 DEF Chain, R450dd1ce1ff1, Alter, Wide
<1>10. CASE v = 10
  BY <1>10 DEF Chain, Rbc91b45c54bf, Alter
<1> QED BY <1>1, <1>2, <1>3, <1>4, <1>5, <1>6, <1>7, <1>8, <1>9, <1>10

(* A revision up leaves the tokens alone ... *)
LEMMA UpRows ==
    ASSUME NEW w, WorldOK(w), Bare(w), NEW v \in 0..9, w.version = v,
           Accepts(Chain[v + 1].up, w)
    PROVE  LET q == Changed(Chain[v + 1].up, w, v + 1).rows
           IN  q = w.rows /\ q = Portion(v + 1, q)
<1> DEFINE drops == Chain[v + 1].up.drops
           r == w.rows
           q == Changed(Chain[v + 1].up, w, v + 1).rows
<1>1. q = [i \in {j \in DOMAIN r : "token" \notin drops} |-> Forgotten(r[i], drops)]
  BY DEF Changed
<1>2. {"token", "token.parent_id", "token.session"} \cap drops = {}
  BY UpDrops
<1>3. DOMAIN r = {j \in DOMAIN r : "token" \notin drops}
  BY <1>2
<1>r. /\ r = [i \in DOMAIN r |-> r[i]]
      /\ v >= 1 \/ DOMAIN r = {}
  <2>1. v >= 1 \/ "token" \notin w.schema
    <3>1. CASE v = 0
      <4>1. "token" \in Chain[v + 1].up.adds
        BY <3>1 DEF Chain, R0c222da05aac, Alter, BaseTables
      <4> QED BY <4>1 DEF Accepts
    <3> QED BY <3>1
  <2>2. r = Portion(v, r)
    BY <2>1 DEF Bare
  <2> QED BY <2>2 DEF Portion
<1>4. ASSUME NEW i \in DOMAIN r PROVE r[i] \in Rows
  BY <1>4 DEF WorldOK, RowsOK
<1> HIDE DEF drops, q
<1>5. ASSUME NEW i \in DOMAIN r PROVE Forgotten(r[i], drops) = r[i]
  BY <1>2, <1>4, ForgottenIs
<1>6. q = r
  BY <1>1, <1>3, <1>5, <1>r
<1>7. r = Portion(v + 1, r)
  <2>1. CASE DOMAIN r = {}
    BY <2>1, <1>r DEF Portion
  <2>2. CASE v >= 1
    <3>1. r = Portion(v, r)
      BY <2>2 DEF Bare
    <3>2. ASSUME NEW i \in DOMAIN r PROVE r[i] = Projected(v, r[i])
      BY <3>1, <2>2 DEF Portion
    <3>3. ASSUME NEW i \in DOMAIN r PROVE r[i] = Projected(v + 1, r[i])
      BY <3>2, Onward
    <3>4. DOMAIN r = {j \in DOMAIN r : v + 1 >= 1}
      OBVIOUS
    <3> QED BY <3>3, <3>4, <1>r DEF Portion
  <2> QED BY <2>1, <2>2, <1>r
<1> QED BY <1>6, <1>7 DEF q

(* ... and a revision down leaves what the version before has of them.    *)
LEMMA DownRows ==
    ASSUME NEW w, WorldOK(w), NEW v \in 1..10, w.rows = Portion(v, w.rows)
    PROVE  Changed(Chain[v].down, w, v - 1).rows = Portion(v - 1, w.rows)
<1> DEFINE drops == Chain[v].down.drops
           r == w.rows
           q == Changed(Chain[v].down, w, v - 1).rows
<1>1. q = [i \in {j \in DOMAIN r : "token" \notin drops} |-> Forgotten(r[i], drops)]
  BY DEF Changed
<1>2. /\ "token" \in drops <=> v = 1
      /\ "token.parent_id" \in drops <=> v = 7
      /\ "token.session" \in drops <=> v = 8
  BY DownDrops
<1>3. {j \in DOMAIN r : "token" \notin drops} = {j \in DOMAIN r : v - 1 >= 1}
  BY <1>2
<1>4. ASSUME NEW i \in DOMAIN r PROVE r[i] \in Rows /\ r[i] = Projected(v, r[i])
  <2>1. r[i] \in Rows
    BY <1>4 DEF WorldOK, RowsOK
  <2>2. Portion(v, r)[i] = Projected(v, r[i])
    BY <1>4 DEF Portion
  <2> QED BY <2>1, <2>2
<1> HIDE DEF drops, q
<1>5. ASSUME NEW row \in Rows, row = Projected(v, row)
      PROVE  Forgotten(row, drops) = Projected(v - 1, row)
  <2>1. CASE v >= 9
    <3>1. v - 1 \in Nat /\ v - 1 >= 8 /\ v \in Nat /\ v >= 8 /\ v # 7 /\ v # 8
      BY <2>1
    <3>2. Forgotten(row, drops) = row
      BY <1>2, <3>1, ForgottenIs
    <3>3. Projected(v - 1, row) = Projected(v, row)
      BY <3>1, ProjectedWhole
    <3> QED BY <3>2, <3>3, <1>5
  <2>2. CASE v = 8
    <3>1. Forgotten(row, drops) =
              [name |-> row.name, parent |-> row.parent, session |-> FALSE]
      BY <1>2, <2>2, ForgottenIs
    <3> QED BY <3>1, <2>2, ProjectedUnmarked
  <2>3. CASE v = 7
    <3>1. Forgotten(row, drops) =
              [name |-> row.name, parent |-> None, session |-> row.session]
      BY <1>2, <2>3, ForgottenIs
    <3>2. row = [name |-> row.name, parent |-> row.parent, session |-> FALSE]
      BY <1>5, <2>3, ProjectedUnmarked
    <3>3. [name |-> row.name, parent |-> None, session |-> row.session] =
              [name |-> row.name, parent |-> None, session |-> FALSE]
      BY <3>2, SessionField, Zenon
    <3>4. Projected(6, row) = [name |-> row.name, parent |-> None, session |-> FALSE]
      BY ProjectedAlone
    <3>5. v - 1 = 6
      BY <2>3
    <3>6. Forgotten(row, drops) = Projected(6, row)
      BY <3>1, <3>3, <3>4, Zenon
    <3> QED BY <3>5, <3>6
  <2>4. CASE v < 7
    <3>1. v - 1 \in Nat /\ v - 1 < 7 /\ v \in Nat /\ v # 7 /\ v # 8
      BY <2>4
    <3>2. Forgotten(row, drops) = row
      BY <1>2, <3>1, ForgottenIs
    <3>3. Projected(v - 1, row) = Projected(v, row)
      BY <3>1, <2>4, ProjectedAlone
    <3> QED BY <3>2, <3>3, <1>5
  <2> QED BY <2>1, <2>2, <2>3, <2>4
<1>6. ASSUME NEW i \in DOMAIN r PROVE Forgotten(r[i], drops) = Projected(v - 1, r[i])
  BY <1>4, <1>5
<1> QED BY <1>1, <1>3, <1>6 DEF Portion, q

LEMMA FirstNeedsNone ==
    ASSUME NEW w, Accepts(Chain[1].up, w) PROVE "token" \notin w.schema
<1>1. "token" \in Chain[1].up.adds
  BY DEF Chain, R0c222da05aac, Alter, BaseTables
<1> QED BY <1>1 DEF Accepts

LEMMA PortionWhole ==
    ASSUME NEW r, RowsOK(r), r = [i \in DOMAIN r |-> r[i]], NEW v \in Nat, v >= 8
    PROVE  r = Portion(v, r)
<1>1. ASSUME NEW i \in DOMAIN r PROVE r[i] = Projected(v, r[i])
  <2>1. r[i] = [name |-> r[i].name, parent |-> r[i].parent, session |-> r[i].session]
    BY <1>1 DEF RowsOK, Rows
  <2>2. Projected(v, r[i])
            = [name |-> r[i].name, parent |-> r[i].parent, session |-> r[i].session]
    BY ProjectedWhole
  <2> QED BY <2>1, <2>2, Zenon
<1>2. DOMAIN r = {j \in DOMAIN r : v >= 1}
  OBVIOUS
<1> QED BY <1>1, <1>2 DEF Portion

LEMMA UpgradeBare ==
    ASSUME Inv, BareInv, NEW c \in Commands, Upgrade(c) PROVE BareInv'
<1> DEFINE v == work.version
<1>1. /\ UNCHANGED <<schema, version, rows, cmd, owner, server, spoilt>>
      /\ owner = c /\ owner # None /\ v < cmd[c].target
      /\ Accepts(Chain[v + 1].up, work)
      /\ work' = Changed(Chain[v + 1].up, work, v + 1)
  BY MigrationAssumption DEF Upgrade
<1>2. v \in 0..9 /\ cmd[c].target \in 0..10 /\ version \in 0..10 /\ WorldOK(work)
  <2>1. cmd[c].target \in 0..10 /\ v \in 0..10 /\ version \in 0..10
    BY DEF Inv, TypeOK, CommandOK, Head
  <2> QED BY <1>1, <2>1 DEF Inv, GoodInv
<1>3. /\ Bare(work) /\ version <= v
      /\ IF version >= 1 \/ "token" \notin schema
         THEN work.rows = Portion(Lower(version, v), rows)
         ELSE v = 0 /\ "token" \in work.schema
  BY <1>1, <1>2 DEF BareInv, OnItsWay
<1>4. work'.version = v + 1 /\ work'.rows = work.rows /\ work.rows = Portion(v + 1, work.rows)
  <2>1. work'.version = v + 1 /\ work'.rows = Changed(Chain[v + 1].up, work, v + 1).rows
    BY <1>1 DEF Changed
  <2> QED BY <1>1, <1>2, <1>3, <2>1, UpRows
<1> HIDE DEF v
<1>5. Bare(work')
  BY <1>4 DEF Bare
<1>6. version >= 1 \/ "token" \notin schema
  <2>1. CASE v = 0
    <3>1. Accepts(Chain[1].up, work)
      BY <1>1, <2>1
    <3> QED BY <1>3, <3>1, FirstNeedsNone
  <2> QED BY <1>3, <2>1
<1>7. Lower(version, v + 1) = Lower(version, v)
  BY <1>2, <1>3 DEF Lower
<1>8. OnItsWay'
  BY <1>1, <1>2, <1>3, <1>4, <1>5, <1>6, <1>7 DEF OnItsWay
<1> QED BY <1>1, <1>8 DEF BareInv, World

LEMMA DowngradeBare ==
    ASSUME Inv, BareInv, NEW c \in Commands, Downgrade(c) PROVE BareInv'
<1> DEFINE v == work.version
<1>1. /\ UNCHANGED <<schema, version, rows, cmd, owner, server, spoilt>>
      /\ owner = c /\ owner # None /\ v > cmd[c].target
      /\ work' = Changed(Chain[v].down, work, v - 1)
  BY MigrationAssumption DEF Downgrade
<1>2. v \in 1..10 /\ cmd[c].target \in 0..10 /\ version \in 0..10 /\ WorldOK(work)
  <2>1. cmd[c].target \in 0..10 /\ v \in 0..10 /\ version \in 0..10
    BY DEF Inv, TypeOK, CommandOK, Head
  <2> QED BY <1>1, <2>1 DEF Inv, GoodInv
<1>3. /\ Bare(work) /\ v <= version
      /\ version >= 1 \/ "token" \notin schema
      /\ work.rows = Portion(Lower(version, v), rows)
  BY <1>1, <1>2 DEF BareInv, OnItsWay
<1>4. work'.version = v - 1 /\ work'.rows = Portion(v - 1, work.rows)
  <2>1. work'.version = v - 1 /\ work'.rows = Changed(Chain[v].down, work, v - 1).rows
    BY <1>1 DEF Changed
  <2>2. work.rows = Portion(v, work.rows)
    BY <1>2, <1>3 DEF Bare
  <2> QED BY <1>2, <2>1, <2>2, DownRows
<1> HIDE DEF v
<1>5. /\ v - 1 \in Nat /\ v \in Nat
      /\ Lower(version, v) = v /\ Lower(version, v - 1) = v - 1
      /\ Lower(v - 1, v) = v - 1 /\ Lower(v - 1, v - 1) = v - 1
  BY <1>2, <1>3 DEF Lower
<1>6. work'.rows = Portion(Lower(version, v - 1), rows)
  <2>1. Portion(v - 1, Portion(v, rows)) = Portion(v - 1, rows)
    BY <1>5, PortionPortion
  <2> QED BY <1>3, <1>4, <1>5, <2>1
<1>7. Bare(work')
  <2>1. Portion(v - 1, Portion(v - 1, work.rows)) = Portion(v - 1, work.rows)
    BY <1>5, PortionPortion
  <2> QED BY <1>4, <2>1 DEF Bare
<1>8. OnItsWay'
  BY <1>1, <1>2, <1>3, <1>4, <1>6, <1>7 DEF OnItsWay
<1> QED BY <1>1, <1>8 DEF BareInv, World

LEMMA LockBare ==
    ASSUME Inv, BareInv, NEW c \in Commands, Lock(c) PROVE BareInv'
<1>1. /\ UNCHANGED <<schema, version, rows, cmd, server, spoilt>>
      /\ owner' = c /\ work' = World
  BY DEF Lock, World
<1>2. version \in 0..10 /\ cmd[c].target \in 0..10
  BY DEF Inv, TypeOK, CommandOK, Head
<1>3. Bare(World) /\ World.version = version /\ World.rows = rows /\ World.schema = schema
  BY DEF BareInv, World
<1>4. Lower(version, version) = version
  BY DEF Lower
<1>5. version >= 1 \/ "token" \notin schema => rows = Portion(version, rows)
  BY <1>3 DEF Bare
<1>6. OnItsWay'
  BY <1>1, <1>2, <1>3, <1>4, <1>5 DEF OnItsWay
<1> QED BY <1>1, <1>3, <1>6 DEF BareInv, World

LEMMA CommitBare ==
    ASSUME Inv, BareInv, NEW c \in Commands, Commit(c)
    PROVE  /\ BareInv'
           /\ version' # version => rows' = Portion(Lower(version, version'), rows)
<1>1. /\ owner = c /\ owner # None /\ owner' = None
      /\ schema' = work.schema /\ version' = work.version /\ rows' = work.rows
  BY MigrationAssumption DEF Commit
<1>2. World' = work
  BY <1>1 DEF World, Inv, GoodInv, WorldOK
<1>3. BareInv'
  BY <1>1, <1>2 DEF BareInv, OnItsWay
<1>4. version \in 0..10
  BY DEF Inv, TypeOK, Head
<1>5. version' # version => version >= 1 \/ "token" \notin schema
  BY <1>1, <1>4 DEF BareInv, OnItsWay
<1> QED BY <1>1, <1>3, <1>5 DEF BareInv, OnItsWay

(* Steps that leave the commands' transaction and the version alone.      *)
LEMMA OthersBare ==
    ASSUME Inv, BareInv, UNCHANGED <<schema, version, rows, work>>,
           owner' # None => owner' = owner /\ cmd'[owner] = cmd[owner]
    PROVE  BareInv'
BY DEF BareInv, OnItsWay, World

(* The servers write tokens only where every column is there.             *)
LEMMA ServedWhole ==
    ASSUME Inv, OrmNames \subseteq schema PROVE version = 0 \/ version >= 8
<1>1. "token.rotatable" \in schema /\ version \in 0..10
  BY DEF OrmNames, Inv, TypeOK, Head
<1>2. ASSUME NEW v \in 1..9 PROVE "token.rotatable" \notin Made(v) \cup Strays(v)
  BY DEF Made, Strays, If, BaseTables, BaseTypes, Narrow, Wide
<1>3. version >= 1 => schema \subseteq Made(version) \cup Strays(version)
  BY DEF Inv, GoodInv, Good, Told, World
<1>4. version \notin 1..9
  BY <1>1, <1>2, <1>3
<1> QED BY <1>1, <1>4

LEMMA ServeBare ==
    ASSUME Inv, BareInv, Inv', OrmNames \subseteq schema, owner = None,
           UNCHANGED <<schema, version, owner>>, rows' = [i \in DOMAIN rows' |-> rows'[i]]
    PROVE  BareInv'
<1>1. "token" \in schema /\ version \in 0..10 /\ RowsOK(rows')
  BY DEF OrmNames, OrmTables, BaseTables, Inv, TypeOK, Head
<1>2. version >= 1 => rows' = Portion(version, rows')
  BY <1>1, ServedWhole, PortionWhole
<1>3. Bare(World)'
  BY <1>1, <1>2 DEF Bare, World
<1> QED BY <1>3 DEF BareInv, OnItsWay

LEMMA CreateAllBare ==
    ASSUME Inv, BareInv, NEW s \in Servers, CreateAll(s) PROVE BareInv'
<1>1. UNCHANGED <<version, rows, owner>> /\ owner = None /\ schema \subseteq schema'
  BY DEF CreateAll
<1>2. Bare(World)'
  BY <1>1 DEF BareInv, Bare, World
<1> QED BY <1>1, <1>2 DEF BareInv, OnItsWay

LEMMA NextBare ==
    ASSUME Inv, BareInv, [Next]_vars
    PROVE  /\ BareInv'
           /\ version' # version => rows' = Portion(Lower(version, version'), rows)
<1>0. Inv'
  BY NextInv
<1>1. CASE UNCHANGED vars
  BY <1>1, OthersBare DEF vars
<1>2. ASSUME NEW c \in Commands, NEW t \in Targets, Ask(c, t)
      PROVE  BareInv' /\ version' = version
  <2>1. owner # None => owner # c
    BY <1>2 DEF Ask, Inv, TypeOK, Idle
  <2>2. owner # None => cmd'[owner] = cmd[owner]
    BY <1>2, <2>1 DEF Ask, Inv, TypeOK
  <2> QED BY <1>2, <2>2, OthersBare DEF Ask
<1>3. ASSUME NEW c \in Commands, Lock(c) PROVE BareInv' /\ version' = version
  BY <1>3, LockBare DEF Lock
<1>4. ASSUME NEW c \in Commands, Upgrade(c) PROVE BareInv' /\ version' = version
  BY <1>4, UpgradeBare DEF Upgrade
<1>5. ASSUME NEW c \in Commands, Downgrade(c) PROVE BareInv' /\ version' = version
  BY <1>5, DowngradeBare DEF Downgrade
<1>6. ASSUME NEW c \in Commands, Abort(c) PROVE BareInv' /\ version' = version
  <2>1. UNCHANGED <<schema, version, rows>> /\ cmd' = [cmd EXCEPT ![c] = Idle]
    BY <1>6 DEF Abort
  <2>2. CASE owner = c
    BY <1>6, <2>1, <2>2 DEF Abort, BareInv, OnItsWay, World
  <2>3. CASE owner # c
    <3>1. UNCHANGED <<owner, work>>
      BY <1>6, <2>3 DEF Abort
    <3>2. owner # None => cmd'[owner] = cmd[owner]
      BY <2>1, <2>3 DEF Inv, TypeOK
    <3> QED BY <2>1, <3>1, <3>2, OthersBare
  <2> QED BY <2>2, <2>3
<1>7. ASSUME NEW s \in Servers, Look(s) \/ Stop(s) PROVE BareInv' /\ version' = version
  BY <1>7, OthersBare DEF Look, Stop
<1>8. ASSUME NEW s \in Servers, CreateAll(s) PROVE BareInv' /\ version' = version
  BY <1>8, CreateAllBare DEF CreateAll
<1>9. ASSUME NEW s \in Servers, NEW id \in Ids, NEW row \in Rows, Insert(s, id, row)
      PROVE  BareInv' /\ version' = version
  BY <1>0, <1>9, ServeBare DEF Insert
<1>10. ASSUME NEW s \in Servers, NEW id \in Ids, Delete(s, id)
       PROVE  BareInv' /\ version' = version
  BY <1>0, <1>10, ServeBare DEF Delete
<1> QED
  BY <1>1, <1>2, <1>3, <1>4, <1>5, <1>6, <1>7, <1>8, <1>9, <1>10, CommitBare
  DEF Next, Migrate, Serve, vars

(* Of the tokens a command keeps exactly what the lowest version on its   *)
(* way can hold, whatever other commands and servers do meanwhile.        *)
THEOREM TokensAreKept == Spec => TokensKept
<1>1. Init => BareInv
  BY DEF Init, BareInv, Bare, OnItsWay, World, Portion
<1>2. Inv /\ BareInv /\ [Next]_vars => BareInv'
  BY NextBare
<1>3. Inv /\ BareInv /\ [Next]_vars =>
          [version' # version => rows' = Portion(Lower(version, version'), rows)]_vars
  BY NextBare
<1> QED BY <1>1, <1>2, <1>3, InvHolds, PTL DEF Spec, TokensKept
=============================================================================
