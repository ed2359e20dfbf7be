--------------------------- MODULE DirectoryProofs ----------------------------
(***************************************************************************)
(* Theorems about Directory for any number of processes, users, groups and *)
(* names.                                                                  *)
(***************************************************************************)
EXTENDS DirectoryProperties, TLAPS

-----------------------------------------------------------------------------
(* Types. *)

LEMMA IdleOK == FrameOK(Idle)
BY DEF FrameOK, Idle, AllRoles, Pcs

(* One frame moves, the others stay. *)
LEMMA Moved ==
    ASSUME DOMAIN req = Workers, NEW w \in Workers, NEW f, Goto(w, f)
    PROVE  /\ DOMAIN req' = Workers /\ req'[w] = f
           /\ \A v \in Workers \ {w} : req'[v] = req[v]
BY DEF Goto

(* A new request's frame is of its type. *)
LEMMA BeginFrames ==
    ASSUME TypeOK, NEW w \in Workers, Arrive(w)
    PROVE  \E f : Step(w, f) /\ FrameOK(f)
<1> DEFINE Good == \E f : Step(w, f) /\ FrameOK(f)
<1>b. ASSUME NEW op, NEW f, Begin(w, op, f), FrameOK([f EXCEPT !.op = op]) PROVE Good
  BY <1>b DEF Begin
<1>o. \A op : op \in Ops => op \in AllOps
  BY DirectoryAssumption
<1>1. ASSUME NEW u \in Users, NEW flag \in BOOLEAN, NEW op \in AllOps, NEW pc \in Pcs
      PROVE  FrameOK([[Idle EXCEPT !.pc = pc, !.u = u, !.flag = flag] EXCEPT !.op = op])
  BY IdleOK DEF FrameOK, Idle
<1>2. ASSUME NEW u \in Users, NEW op \in AllOps, NEW pc \in Pcs
      PROVE  FrameOK([[Idle EXCEPT !.pc = pc, !.u = u] EXCEPT !.op = op])
  BY IdleOK DEF FrameOK, Idle
<1>3. ASSUME NEW g \in Groups, NEW op \in AllOps, NEW pc \in Pcs
      PROVE  FrameOK([[Idle EXCEPT !.pc = pc, !.g = g] EXCEPT !.op = op])
  BY IdleOK DEF FrameOK, Idle
<1>4. ASSUME NEW g \in Groups, NEW u \in Users, NEW op \in AllOps, NEW pc \in Pcs
      PROVE  FrameOK([[Idle EXCEPT !.pc = pc, !.g = g, !.u = u] EXCEPT !.op = op])
  BY IdleOK DEF FrameOK, Idle
<1>5. ASSUME NEW n \in Names, NEW r \in AllRoles, NEW op \in AllOps, NEW pc \in Pcs
      PROVE  FrameOK([[Idle EXCEPT !.pc = pc, !.key = [name |-> n, role |-> r]] EXCEPT !.op = op])
  BY IdleOK DEF FrameOK, Idle
<1>6. ASSUME NEW i \in Nat, NEW op \in AllOps, NEW pc \in Pcs
      PROVE  FrameOK([[Idle EXCEPT !.pc = pc, !.id = i] EXCEPT !.op = op])
  BY IdleOK DEF FrameOK, Idle
<1>p. /\ "create" \in Pcs /\ "user" \in Pcs /\ "group" \in Pcs /\ "token" \in Pcs
      /\ \A op, f : Begin(w, op, f) => op \in AllOps
  BY <1>o DEF Pcs, Begin
<1> HIDE DEF Good
<1>7. ASSUME NEW u \in Users, BeginUser(w, u) PROVE Good
  BY <1>7, <1>2, <1>b, <1>p DEF BeginUser
<1>8. ASSUME NEW u \in Users, BeginAdmin(w, u) PROVE Good
  BY <1>8, <1>1, <1>2, <1>b, <1>p DEF BeginAdmin
<1>9. ASSUME NEW u \in Users, NEW flag \in BOOLEAN, BeginSeed(w, u, flag) PROVE Good
  BY <1>9, <1>1, <1>b, <1>p DEF BeginSeed
<1>10. ASSUME NEW g \in Groups, BeginGroup(w, g) PROVE Good
  BY <1>10, <1>3, <1>b, <1>p DEF BeginGroup
<1>11. ASSUME NEW g \in Groups, NEW u \in Users, BeginMember(w, g, u) PROVE Good
  BY <1>11, <1>4, <1>b, <1>p DEF BeginMember
<1>12. ASSUME BeginToken(w) PROVE Good
  <2>1. CASE \E n \in Names, r \in Roles :
                 Begin(w, "create_admin_token",
                       [Idle EXCEPT !.pc = "create", !.key = [name |-> n, role |-> r]])
    BY <2>1, <1>5, <1>b, <1>p, DirectoryAssumption
  <2>2. CASE \E i \in 1..(fresh - 1) :
                 Begin(w, "remove_admin_token", [Idle EXCEPT !.pc = "token", !.id = i])
    <3>1. PICK i \in 1..(fresh - 1) :
                 Begin(w, "remove_admin_token", [Idle EXCEPT !.pc = "token", !.id = i])
      BY <2>2
    <3>2. i \in Nat
      BY DEF TypeOK
    <3> QED BY <3>1, <3>2, <1>6, <1>b, <1>p
  <2> QED BY <1>12, <2>1, <2>2 DEF BeginToken
<1> QED
  BY <1>7, <1>8, <1>9, <1>10, <1>11, <1>12 DEF Arrive, Good

(* Whatever a worker does, its frame stays of its type. *)
LEMMA FrameTypes ==
    ASSUME TypeOK, NEW w \in Workers, Serve(w)
    PROVE  \E f : Goto(w, f) /\ FrameOK(f)
<1> DEFINE f == req[w]
           Good == \E g : Goto(w, g) /\ FrameOK(g)
<1>f. FrameOK(f)
  BY DEF TypeOK
<1>p. ASSUME NEW pc \in Pcs PROVE FrameOK([f EXCEPT !.pc = pc])
  BY <1>f DEF FrameOK, Idle
<1>r. FrameOK(Reply(f))
  BY <1>p DEF Reply, Pcs
<1>h. Fail(w) \/ Respond(w) \/ Crash(w) => Good
  BY IdleOK DEF Fail, Respond, Crash, Step
<1>c. ASSUME NEW ops, NEW pc, Commit(w, ops, pc) PROVE Good
  BY <1>c, <1>r DEF Commit
<1>1. Arrive(w) => Good
  BY BeginFrames DEF Step
<1>2. Look(w) => Good
  BY <1>h, <1>r, <1>p DEF Look, Step, Pcs
<1>3. GetGroup(w) => Good
  BY <1>h, <1>p DEF GetGroup, Step, Pcs
<1>4. ASSUME GetUser(w) PROVE Good
  <2>1. ASSUME NEW pc \in Pcs, f.u \in DOMAIN users
        PROVE  FrameOK([f EXCEPT !.was = users[f.u], !.pc = pc])
    BY <2>1, <1>f DEF FrameOK, Idle, TypeOK
  <2> QED BY <1>4, <2>1, <1>h DEF GetUser, Step, Pcs
<1>5. GetToken(w) => Good
  BY <1>h, <1>p DEF GetToken, Step, Pcs
<1>6. ASSUME Load(w) PROVE Good
  <2>1. Collection(f) \subseteq Users \X Groups
    BY DEF Collection, TypeOK
  <2>2. FrameOK([f EXCEPT !.mark = Collection(f), !.pc = "save"])
    BY <2>1, <1>f DEF FrameOK, Idle, Pcs
  <2> QED BY <1>6, <2>2, <1>h DEF Load, Step
<1>7. ASSUME CreateToken(w) PROVE Good
  <2>1. FrameOK([f EXCEPT !.pc = "reply", !.id = fresh])
    BY <1>f DEF FrameOK, Idle, Pcs, TypeOK
  <2> QED BY <1>7, <2>1 DEF CreateToken
<1>8. ASSUME Refused(w) PROVE Good
  BY <1>8, <1>h, <1>p DEF Refused, Step, Pcs
<1>9. ASSUME Save(w), ~CreateToken(w), ~Refused(w) PROVE Good
  BY <1>9, <1>c
  DEF Save, CreateUser, CreateGroup, SaveFlag, SaveMember, RemoveMember, RemoveUser,
      RemoveGroup, RemoveToken
<1> QED
  BY <1>h, <1>1, <1>2, <1>3, <1>4, <1>5, <1>6, <1>7, <1>8, <1>9 DEF Serve, Read

(* What a worker does changes the tables in one of nine ways, or not.     *)
LEMMA StepKinds ==
    ASSUME NEW w \in Workers, Serve(w)
    PROVE  \/ UNCHANGED tables
           \/ CreateUser(w) \/ CreateGroup(w) \/ CreateToken(w)
           \/ SaveFlag(w) \/ SaveMember(w) \/ RemoveMember(w)
           \/ RemoveUser(w) \/ RemoveGroup(w) \/ RemoveToken(w)
<1>a. ASSUME NEW f, Step(w, f) PROVE UNCHANGED tables
  BY <1>a DEF Step
<1>b. ASSUME NEW op, NEW f, Begin(w, op, f) PROVE UNCHANGED tables
  BY <1>b, <1>a DEF Begin
<1>h. Fail(w) => UNCHANGED tables
  BY <1>a DEF Fail
<1>1. Arrive(w) => UNCHANGED tables
  BY <1>b DEF Arrive, BeginUser, BeginAdmin, BeginSeed, BeginGroup, BeginMember, BeginToken
<1>2. Read(w) => UNCHANGED tables
  BY <1>a, <1>h DEF Read, Look, GetGroup, GetUser, GetToken, Load
<1>3. Refused(w) \/ Respond(w) \/ Crash(w) => UNCHANGED tables
  BY <1>a, <1>h DEF Refused, Respond, Crash
<1> QED
  BY <1>1, <1>2, <1>3 DEF Serve, Save

TablesOK ==
    /\ DOMAIN users \subseteq Users /\ users \in [DOMAIN users -> BOOLEAN]
    /\ groups \subseteq Groups /\ members \subseteq Users \X Groups
    /\ fresh \in Nat
    /\ DOMAIN keys \subseteq {i \in Nat : i < fresh}
    /\ keys \in [DOMAIN keys -> [name : Names, role : AllRoles]]

(* The arguments that a commit writes are there: no other step reaches    *)
(* its program counter without them.                                      *)
ArgsOK(f) ==
    /\ f.op \in {"create_user", "seed_dev_user"} \cup FlagOps => f.u \in Users
    /\ f.op = "create_group" => f.g \in Groups
    /\ f.op \in {"add_user_to_group", "remove_user_from_group"} =>
           f.u \in Users /\ f.g \in Groups
    /\ f.op = "create_admin_token" => f.key \in [name : Names, role : AllRoles]

(* A step starts a request, or goes on with it, or ends it.               *)
LEMMA FrameKinds ==
    ASSUME TypeOK, NEW w \in Workers, Serve(w)
    PROVE  \/ Arrive(w)
           \/ req'[w] = Idle
           \/ /\ req'[w].op = req[w].op /\ req'[w].u = req[w].u /\ req'[w].g = req[w].g
              /\ req'[w].flag = req[w].flag /\ req'[w].key = req[w].key
<1> DEFINE f == req[w]
           Same(g) == g.op = f.op /\ g.u = f.u /\ g.g = f.g /\ g.flag = f.flag /\ g.key = f.key
           Good == req'[w] = Idle \/ Same(req'[w])
<1>f. DOMAIN f = DOMAIN Idle /\ DOMAIN req = Workers
  BY DEF TypeOK, FrameOK
<1>g. ASSUME NEW g, Goto(w, g) PROVE req'[w] = g
  BY <1>g, <1>f DEF Goto
<1>p. ASSUME NEW pc PROVE Same([f EXCEPT !.pc = pc])
  BY <1>f DEF Idle
<1>r. Same(Reply(f))
  BY <1>p DEF Reply
<1> HIDE DEF Same
<1>h. Fail(w) \/ Respond(w) \/ Crash(w) => Good
  BY <1>g DEF Fail, Respond, Crash, Step
<1>c. ASSUME NEW ops, NEW pc, Commit(w, ops, pc) PROVE Good
  BY <1>c, <1>r, <1>g DEF Commit
<1>2. Look(w) => Good
  BY <1>h, <1>r, <1>p, <1>g DEF Look, Step
<1>3. GetGroup(w) => Good
  BY <1>h, <1>p, <1>g DEF GetGroup, Step
<1>4. ASSUME GetUser(w) PROVE Good
  <2>1. ASSUME NEW was, NEW pc PROVE Same([f EXCEPT !.was = was, !.pc = pc])
    BY <1>f DEF Idle, Same
  <2>2. Fail(w) \/ \E was, pc : Goto(w, [f EXCEPT !.was = was, !.pc = pc])
    BY <1>4 DEF GetUser, Step
  <2>3. ASSUME NEW was, NEW pc, Goto(w, [f EXCEPT !.was = was, !.pc = pc]) PROVE Good
    <3>1. req'[w] = [f EXCEPT !.was = was, !.pc = pc]
      BY <2>3, <1>g
    <3> QED BY <3>1, <2>1 DEF Same
  <2> QED BY <2>2, <2>3, <1>h
<1>5. GetToken(w) => Good
  BY <1>h, <1>p, <1>g DEF GetToken, Step
<1>6. ASSUME Load(w) PROVE Good
  <2>1. ASSUME NEW mark PROVE Same([f EXCEPT !.mark = mark, !.pc = "save"])
    BY <1>f DEF Idle, Same
  <2> QED BY <1>6, <2>1, <1>h, <1>g DEF Load, Step
<1>7. ASSUME CreateToken(w) PROVE Good
  <2>1. Same([f EXCEPT !.pc = "reply", !.id = fresh])
    BY <1>f DEF Idle, Same
  <2> QED BY <1>7, <2>1, <1>g DEF CreateToken
<1>8. ASSUME Refused(w) PROVE Good
  BY <1>8, <1>h, <1>p, <1>g DEF Refused, Step
<1>9. ASSUME Save(w), ~CreateToken(w), ~Refused(w) PROVE Good
  BY <1>9, <1>c
  DEF Save, CreateUser, CreateGroup, SaveFlag, SaveMember, RemoveMember, RemoveUser,
      RemoveGroup, RemoveToken
<1> QED
  BY <1>h, <1>2, <1>3, <1>4, <1>5, <1>6, <1>7, <1>8, <1>9 DEF Serve, Read, Same

(* A request that arrives has the arguments of its service.               *)
LEMMA BeginArgs ==
    ASSUME TypeOK, NEW w \in Workers, Arrive(w)
    PROVE  ArgsOK(req'[w])
<1> DEFINE r == req'[w]
<1>f. DOMAIN req = Workers
  BY DEF TypeOK
<1>b. ASSUME NEW op, NEW f, Begin(w, op, f), DOMAIN f = DOMAIN Idle
      PROVE  r.op = op /\ r.u = f.u /\ r.g = f.g /\ r.key = f.key
  <2>1. r = [f EXCEPT !.op = op]
    BY <1>b, <1>f DEF Begin, Step, Goto
  <2> QED BY <2>1, <1>b DEF Idle
<1>u. ASSUME NEW op, NEW pc, NEW u \in Users, Begin(w, op, [Idle EXCEPT !.pc = pc, !.u = u])
      PROVE  r.op = op /\ r.u = u
  <2> DEFINE h == [Idle EXCEPT !.pc = pc, !.u = u]
  <2>1. DOMAIN h = DOMAIN Idle /\ h.u = u
    BY DEF Idle
  <2>2. Begin(w, op, h)
    BY <1>u
  <2> HIDE DEF h
  <2> QED BY <1>b, <2>1, <2>2
<1>v. ASSUME NEW op, NEW pc, NEW u \in Users, NEW flag,
             Begin(w, op, [Idle EXCEPT !.pc = pc, !.u = u, !.flag = flag])
      PROVE  r.op = op /\ r.u = u
  <2> DEFINE h == [Idle EXCEPT !.pc = pc, !.u = u, !.flag = flag]
  <2>1. DOMAIN h = DOMAIN Idle /\ h.u = u
    BY DEF Idle
  <2>2. Begin(w, op, h)
    BY <1>v
  <2> HIDE DEF h
  <2> QED BY <1>b, <2>1, <2>2
<1>g. ASSUME NEW op, NEW pc, NEW g \in Groups, Begin(w, op, [Idle EXCEPT !.pc = pc, !.g = g])
      PROVE  r.op = op /\ r.g = g
  <2> DEFINE h == [Idle EXCEPT !.pc = pc, !.g = g]
  <2>1. DOMAIN h = DOMAIN Idle /\ h.g = g
    BY DEF Idle
  <2>2. Begin(w, op, h)
    BY <1>g
  <2> HIDE DEF h
  <2> QED BY <1>b, <2>1, <2>2
<1>m. ASSUME NEW op, NEW pc, NEW g \in Groups, NEW u \in Users,
             Begin(w, op, [Idle EXCEPT !.pc = pc, !.g = g, !.u = u])
      PROVE  r.op = op /\ r.g = g /\ r.u = u
  <2> DEFINE h == [Idle EXCEPT !.pc = pc, !.g = g, !.u = u]
  <2>1. DOMAIN h = DOMAIN Idle /\ h.u = u /\ h.g = g
    BY DEF Idle
  <2>2. Begin(w, op, h)
    BY <1>m
  <2> HIDE DEF h
  <2> QED BY <1>b, <2>1, <2>2
<1>k. ASSUME NEW op, NEW pc, NEW key, Begin(w, op, [Idle EXCEPT !.pc = pc, !.key = key])
      PROVE  r.op = op /\ r.key = key
  <2> DEFINE h == [Idle EXCEPT !.pc = pc, !.key = key]
  <2>1. DOMAIN h = DOMAIN Idle /\ h.key = key
    BY DEF Idle
  <2>2. Begin(w, op, h)
    BY <1>k
  <2> HIDE DEF h
  <2> QED BY <1>b, <2>1, <2>2
<1>i. ASSUME NEW op, NEW pc, NEW i, Begin(w, op, [Idle EXCEPT !.pc = pc, !.id = i])
      PROVE  r.op = op
  <2> DEFINE h == [Idle EXCEPT !.pc = pc, !.id = i]
  <2>1. DOMAIN h = DOMAIN Idle
    BY DEF Idle
  <2>2. Begin(w, op, h)
    BY <1>i
  <2> HIDE DEF h
  <2> QED BY <1>b, <2>1, <2>2
<1> HIDE DEF r
<1>1. ASSUME NEW u \in Users, BeginUser(w, u) PROVE ArgsOK(r)
  <2>1. r.op \in {"create_user", "remove_user"} /\ r.u = u
    BY <1>1, <1>u DEF BeginUser
  <2> QED BY <2>1 DEF ArgsOK, FlagOps
<1>2. ASSUME NEW u \in Users, BeginAdmin(w, u) PROVE ArgsOK(r)
  <2>1. r.op \in {"add_admin", "remove_admin"} /\ r.u = u
    BY <1>2, <1>u, <1>v DEF BeginAdmin
  <2> QED BY <2>1 DEF ArgsOK, FlagOps
<1>3. ASSUME NEW u \in Users, NEW flag \in BOOLEAN, BeginSeed(w, u, flag) PROVE ArgsOK(r)
  <2>1. r.op = "seed_dev_user" /\ r.u = u
    BY <1>3, <1>v DEF BeginSeed
  <2> QED BY <2>1 DEF ArgsOK, FlagOps
<1>4. ASSUME NEW g \in Groups, BeginGroup(w, g) PROVE ArgsOK(r)
  <2>1. r.op \in {"create_group", "remove_group"} /\ r.g = g
    BY <1>4, <1>g DEF BeginGroup
  <2> QED BY <2>1 DEF ArgsOK, FlagOps
<1>5. ASSUME NEW g \in Groups, NEW u \in Users, BeginMember(w, g, u) PROVE ArgsOK(r)
  <2>1. r.op \in {"add_user_to_group", "remove_user_from_group"} /\ r.g = g /\ r.u = u
    BY <1>5, <1>m DEF BeginMember
  <2> QED BY <2>1 DEF ArgsOK, FlagOps
<1>6. ASSUME BeginToken(w) PROVE ArgsOK(r)
  <2>a. ASSUME NEW n \in Names, NEW x \in Roles,
               Begin(w, "create_admin_token",
                     [Idle EXCEPT !.pc = "create", !.key = [name |-> n, role |-> x]])
        PROVE  r.op = "create_admin_token" /\ r.key \in [name : Names, role : AllRoles]
    <3>1. [name |-> n, role |-> x] \in [name : Names, role : AllRoles]
      BY DirectoryAssumption
    <3> QED BY <2>a, <1>k, <3>1
  <2>1. \/ r.op = "create_admin_token" /\ r.key \in [name : Names, role : AllRoles]
        \/ r.op = "remove_admin_token"
    BY <1>6, <2>a, <1>i DEF BeginToken
  <2> QED BY <2>1 DEF ArgsOK, FlagOps
<1> QED
  BY <1>1, <1>2, <1>3, <1>4, <1>5, <1>6 DEF Arrive, r

-----------------------------------------------------------------------------
(* The type invariant. *)

ArgsKept == \A w \in Workers : ArgsOK(req[w])

(* What a worker does keeps the tables and the frames of their types.     *)
LEMMA TableTypes ==
    ASSUME TypeOK, ArgsKept, NEW w \in Workers, Serve(w)
    PROVE  TablesOK'
<1> DEFINE f == req[w]
<1>o. TablesOK /\ FrameOK(f) /\ ArgsOK(f)
  BY DEF TypeOK, TablesOK, ArgsKept
<1>k. f.flag \in BOOLEAN /\ f.mark \subseteq Users \X Groups
  BY <1>o DEF FrameOK
<1>1. CASE UNCHANGED tables
  BY <1>1, <1>o DEF tables, TablesOK
<1>2. CASE CreateUser(w)
  <2>1. f.u \in Users
    BY <1>2, <1>o DEF CreateUser, Commit, At, ArgsOK
  <2> QED BY <1>2, <1>o, <1>k, <2>1 DEF CreateUser, TablesOK
<1>3. CASE CreateGroup(w)
  <2>1. f.g \in Groups
    BY <1>3, <1>o DEF CreateGroup, Commit, At, ArgsOK
  <2> QED BY <1>3, <1>o, <2>1 DEF CreateGroup, TablesOK
<1>4. CASE CreateToken(w)
  <2>1. f.key \in [name : Names, role : AllRoles]
    BY <1>4, <1>o DEF CreateToken, At, ArgsOK
  <2> QED BY <1>4, <1>o, <2>1 DEF CreateToken, TablesOK
<1>5. CASE SaveFlag(w)
  BY <1>5, <1>o, <1>k DEF SaveFlag, TablesOK
<1>6. CASE SaveMember(w)
  <2>1. f.u \in Users /\ f.g \in Groups
    BY <1>6, <1>o DEF SaveMember, Commit, At, ArgsOK
  <2> QED BY <1>6, <1>o, <2>1 DEF SaveMember, TablesOK
<1>7. CASE RemoveMember(w)
  BY <1>7, <1>o DEF RemoveMember, TablesOK
<1>8. CASE RemoveUser(w)
  BY <1>8, <1>o DEF RemoveUser, TablesOK
<1>9. CASE RemoveGroup(w)
  BY <1>9, <1>o DEF RemoveGroup, TablesOK
<1>10. CASE RemoveToken(w)
  BY <1>10, <1>o DEF RemoveToken, TablesOK
<1> QED
  BY StepKinds, <1>1, <1>2, <1>3, <1>4, <1>5, <1>6, <1>7, <1>8, <1>9, <1>10

LEMMA TypeStep ==
    ASSUME TypeOK, ArgsKept, [Next]_vars
    PROVE  TypeOK' /\ ArgsKept'
<1>1. CASE UNCHANGED vars
  BY <1>1 DEF vars, TypeOK, ArgsKept
<1>2. ASSUME NEW w \in Workers, Serve(w), Observe PROVE TypeOK' /\ ArgsKept'
  <2>1. TablesOK'
    BY <1>2, TableTypes
  <2>2. DOMAIN req = Workers /\ \A v \in Workers : FrameOK(req[v])
    BY DEF TypeOK
  <2>3. DOMAIN req' = Workers /\ \A v \in Workers : FrameOK(req'[v])
    <3>1. PICK g : Goto(w, g) /\ FrameOK(g)
      BY <1>2, FrameTypes
    <3> QED BY <3>1, <2>2, Moved
  <2>4. held' \in [Workers -> BOOLEAN] /\ alone' \in [Workers -> BOOLEAN]
    <3>1. \A w2 \in Workers : alone[w2] \in BOOLEAN
      BY DEF TypeOK
    <3>2. held' \in [Workers -> BOOLEAN]
      BY <1>2 DEF Observe, TypeOK
    <3>3. alone' \in [Workers -> BOOLEAN]
      BY <1>2, <3>1 DEF Observe
    <3> QED BY <3>2, <3>3
  <2>5. ArgsOK(req'[w])
    <3>1. ArgsOK(Idle)
      BY DEF ArgsOK, Idle, FlagOps
    <3>2. ArgsOK(req[w])
      BY DEF ArgsKept
    <3>3. ASSUME req'[w].op = req[w].op, req'[w].u = req[w].u, req'[w].g = req[w].g,
                 req'[w].key = req[w].key
          PROVE  ArgsOK(req'[w])
      BY <3>2, <3>3 DEF ArgsOK
    <3>4. Arrive(w) \/ req'[w] = Idle \/ ArgsOK(req'[w])
      BY <1>2, <3>3, FrameKinds
    <3> QED BY <1>2, <3>1, <3>4, BeginArgs
  <2>6. ASSUME NEW v \in Workers \ {w} PROVE ArgsOK(req'[v])
    <3>1. PICK g : Goto(w, g)
      BY <1>2, FrameTypes
    <3>2. req'[v] = req[v]
      BY <3>1, <2>2, Moved
    <3> QED BY <3>2 DEF ArgsKept
  <2> QED
    BY <2>1, <2>3, <2>4, <2>5, <2>6 DEF TypeOK, TablesOK, ArgsKept
<1> QED
  BY <1>1, <1>2 DEF Next

(* Every variable of the directory keeps its type, and every request the  *)
(* arguments its service writes (services.py:350-495).                    *)
THEOREM DirectoryTypes == Spec => [](TypeOK /\ ArgsKept)
<1>1. Init => TypeOK /\ ArgsKept
  <2>1. ArgsOK(Idle)
    BY DEF ArgsOK, Idle, FlagOps
  <2> QED BY <2>1, IdleOK DEF Init, TypeOK, ArgsKept
<1> QED
  BY <1>1, TypeStep, PTL DEF Spec

-----------------------------------------------------------------------------
(* Memberships. *)

(* Whatever a worker writes, the database leaves no membership dangling.  *)
LEMMA DanglingStep ==
    ASSUME TypeOK, NoDanglingMember, NEW w \in Workers, Serve(w)
    PROVE  NoDanglingMember'
<1> DEFINE f == req[w]
<1>m. \A m \in members : m[1] \in DOMAIN users /\ m[2] \in groups
  BY DEF NoDanglingMember
<1>1. CASE UNCHANGED tables
  BY <1>1, <1>m DEF tables, NoDanglingMember
<1>2. CASE CreateUser(w)
  BY <1>2, <1>m DEF CreateUser, NoDanglingMember
<1>3. CASE CreateGroup(w)
  BY <1>3, <1>m DEF CreateGroup, NoDanglingMember
<1>4. CASE CreateToken(w)
  BY <1>4, <1>m DEF CreateToken, NoDanglingMember
<1>5. CASE SaveFlag(w)
  BY <1>5, <1>m DEF SaveFlag, NoDanglingMember
<1>6. CASE SaveMember(w)
  BY <1>6, <1>m DEF SaveMember, Commit, Accepts, Referred, NoDanglingMember
<1>7. CASE RemoveMember(w)
  BY <1>7, <1>m DEF RemoveMember, NoDanglingMember
<1>8. CASE RemoveUser(w)
  <2>1. \A m \in members : m[1] = f.u => m \in f.mark
    BY <1>8 DEF RemoveUser, Commit, At, Accepts, Referred, Collection
  <2> QED BY <1>8, <1>m, <2>1 DEF RemoveUser, NoDanglingMember
<1>9. CASE RemoveGroup(w)
  <2>1. \A m \in members : m[2] = f.g => m \in f.mark
    BY <1>9 DEF RemoveGroup, Commit, At, Accepts, Referred, Collection
  <2> QED BY <1>9, <1>m, <2>1 DEF RemoveGroup, NoDanglingMember
<1>10. CASE RemoveToken(w)
  BY <1>10, <1>m DEF RemoveToken, NoDanglingMember
<1> QED
  BY StepKinds, <1>1, <1>2, <1>3, <1>4, <1>5, <1>6, <1>7, <1>8, <1>9, <1>10

(* No membership outlives its user or its group, for any number of        *)
(* processes (services.py:406-411, 438-457).                              *)
THEOREM NoDangling == Spec => []NoDanglingMember
<1>1. Init => NoDanglingMember
  BY DEF Init, NoDanglingMember
<1>2. TypeOK /\ NoDanglingMember /\ [Next]_vars => NoDanglingMember'
  <2>1. ASSUME UNCHANGED vars, NoDanglingMember PROVE NoDanglingMember'
    BY <2>1 DEF vars, NoDanglingMember
  <2> QED BY <2>1, DanglingStep DEF Next
<1> QED
  BY <1>1, <1>2, DirectoryTypes, PTL DEF Spec

-----------------------------------------------------------------------------
(* Lockout. *)

(* A request that sets the flag is an admin's, or the command line's.     *)
LEMMA BeginFlag ==
    ASSUME TypeOK, NEW w \in Workers, Arrive(w)
    PROVE  \/ req'[w].flag = FALSE
           \/ req'[w].op = "add_admin" /\ Admins # {}
           \/ req'[w].op = "seed_dev_user" /\ \E u \in Users : BeginSeed(w, u, TRUE)
<1> DEFINE r == req'[w]
<1>f. DOMAIN req = Workers
  BY DEF TypeOK
<1>b. ASSUME NEW op, NEW f, Begin(w, op, f), DOMAIN f = DOMAIN Idle
      PROVE  r.op = op /\ r.flag = f.flag
  <2>1. r = [f EXCEPT !.op = op]
    BY <1>b, <1>f DEF Begin, Step, Goto
  <2> QED BY <2>1, <1>b DEF Idle
<1> HIDE DEF r
<1>1. ASSUME NEW u \in Users, BeginUser(w, u) PROVE r.flag = FALSE
  <2> DEFINE h(pc) == [Idle EXCEPT !.pc = pc, !.u = u]
  <2>1. \A pc : DOMAIN h(pc) = DOMAIN Idle /\ h(pc).flag = FALSE
    BY DEF Idle
  <2>2. \E op, pc : Begin(w, op, h(pc))
    BY <1>1 DEF BeginUser
  <2> HIDE DEF h
  <2> QED BY <2>1, <2>2, <1>b
<1>2. ASSUME NEW u \in Users, BeginAdmin(w, u)
      PROVE  r.flag = FALSE \/ (r.op = "add_admin" /\ Admins # {})
  <2> DEFINE h == [Idle EXCEPT !.pc = "user", !.u = u, !.flag = TRUE]
             k == [Idle EXCEPT !.pc = "user", !.u = u]
  <2>1. DOMAIN h = DOMAIN Idle /\ DOMAIN k = DOMAIN Idle /\ k.flag = FALSE
    BY DEF Idle
  <2>2. Admins # {} /\ (Begin(w, "add_admin", h) \/ Begin(w, "remove_admin", k))
    BY <1>2 DEF BeginAdmin
  <2> HIDE DEF h, k
  <2> QED BY <2>1, <2>2, <1>b
<1>3. ASSUME NEW u \in Users, NEW flag \in BOOLEAN, BeginSeed(w, u, flag)
      PROVE  r.flag = flag /\ r.op = "seed_dev_user"
  <2> DEFINE h == [Idle EXCEPT !.pc = "create", !.u = u, !.flag = flag]
  <2>1. DOMAIN h = DOMAIN Idle /\ h.flag = flag
    BY DEF Idle
  <2>2. Begin(w, "seed_dev_user", h)
    BY <1>3 DEF BeginSeed
  <2> HIDE DEF h
  <2> QED BY <2>1, <2>2, <1>b
<1>4. ASSUME NEW g \in Groups, BeginGroup(w, g) PROVE r.flag = FALSE
  <2> DEFINE h(pc) == [Idle EXCEPT !.pc = pc, !.g = g]
  <2>1. \A pc : DOMAIN h(pc) = DOMAIN Idle /\ h(pc).flag = FALSE
    BY DEF Idle
  <2>2. \E op, pc : Begin(w, op, h(pc))
    BY <1>4 DEF BeginGroup
  <2> HIDE DEF h
  <2> QED BY <2>1, <2>2, <1>b
<1>5. ASSUME NEW g \in Groups, NEW u \in Users, BeginMember(w, g, u) PROVE r.flag = FALSE
  <2> DEFINE h == [Idle EXCEPT !.pc = "group", !.g = g, !.u = u]
  <2>1. DOMAIN h = DOMAIN Idle /\ h.flag = FALSE
    BY DEF Idle
  <2>2. \E op : Begin(w, op, h)
    BY <1>5 DEF BeginMember
  <2> HIDE DEF h
  <2> QED BY <2>1, <2>2, <1>b
<1>6. ASSUME BeginToken(w) PROVE r.flag = FALSE
  <2>1. ASSUME NEW key PROVE LET h == [Idle EXCEPT !.pc = "create", !.key = key]
                             IN  DOMAIN h = DOMAIN Idle /\ h.flag = FALSE
    BY DEF Idle
  <2>2. ASSUME NEW i PROVE LET h == [Idle EXCEPT !.pc = "token", !.id = i]
                           IN  DOMAIN h = DOMAIN Idle /\ h.flag = FALSE
    BY DEF Idle
  <2> QED BY <1>6, <2>1, <2>2, <1>b DEF BeginToken
<1> QED
  BY <1>1, <1>2, <1>3, <1>4, <1>5, <1>6 DEF Arrive, r

(* These requests never set the flag. *)
FlagsKept ==
    \A w \in Workers : req[w].op \in {"create_user", "remove_admin"} => req[w].flag = FALSE

LEMMA FlagsStep ==
    ASSUME TypeOK, FlagsKept, NEW w \in Workers, Serve(w)
    PROVE  FlagsKept'
<1>1. req'[w].op \in {"create_user", "remove_admin"} => req'[w].flag = FALSE
  <2>1. req[w].op \in {"create_user", "remove_admin"} => req[w].flag = FALSE
    BY DEF FlagsKept
  <2>2. CASE Arrive(w)
    BY <2>2, BeginFlag
  <2>3. CASE req'[w] = Idle
    BY <2>3 DEF Idle
  <2> QED BY <2>1, <2>2, <2>3, FrameKinds
<1>2. ASSUME NEW v \in Workers \ {w} PROVE req'[v] = req[v]
  <2>1. PICK g : Goto(w, g)
    BY FrameTypes
  <2> QED BY <2>1, Moved DEF TypeOK
<1> QED BY <1>1, <1>2 DEF FlagsKept

LEMMA LockedStep ==
    ASSUME TypeOK, FlagsKept, Locked, NEW w \in Workers, Serve(w)
    PROVE  Locked' \/ \E u \in Users : BeginSeed(w, u, TRUE)
<1> DEFINE f == req[w]
<1>a. \A u \in DOMAIN users : ~users[u]
  BY DEF Locked, Admins
<1>f. f.op \in {"create_user"} \cup FlagOps => f.flag = FALSE
  BY DEF Locked, Granting, FlagsKept, FlagOps, TypeOK, FrameOK
<1>1. \A u \in DOMAIN users' : ~users'[u]
  <2>1. CASE CreateUser(w)
    <3>1. f.flag = FALSE
      BY <2>1, <1>f DEF CreateUser, Commit, At, FlagOps
    <3> QED BY <2>1, <3>1, <1>a DEF CreateUser
  <2>2. CASE SaveFlag(w)
    <3>1. f.flag = FALSE
      BY <2>2, <1>f DEF SaveFlag, Commit, At
    <3> QED BY <2>2, <3>1, <1>a DEF SaveFlag
  <2>3. CASE RemoveUser(w)
    BY <2>3, <1>a DEF RemoveUser
  <2>4. CASE users' = users
    BY <2>4, <1>a
  <2> QED
    BY StepKinds, <2>1, <2>2, <2>3, <2>4
    DEF tables, CreateGroup, CreateToken, SaveMember, RemoveMember, RemoveGroup, RemoveToken
<1>2. Granting(req'[w]) => \E u \in Users : BeginSeed(w, u, TRUE)
  <2>1. ~Granting(Idle) /\ ~Granting(req[w])
    BY DEF Granting, Idle, Locked
  <2> QED BY <2>1, <1>a, FrameKinds, BeginFlag DEF Granting, Admins
<1>3. ASSUME NEW v \in Workers \ {w} PROVE ~Granting(req'[v])
  <2>1. PICK g : Goto(w, g)
    BY FrameTypes
  <2>2. req'[v] = req[v]
    BY <2>1, Moved DEF TypeOK
  <2> QED BY <2>2 DEF Locked
<1> QED BY <1>1, <1>2, <1>3 DEF Locked, Admins

(* Without an admin, and without a grant under way, only seed-dev-user    *)
(* leads to one (dependencies.py:307-315, command.py:64-66).              *)
THEOREM LockedOut == Spec => LockedUntilSeeded
<1>1. Init => FlagsKept
  BY DEF Init, FlagsKept, Idle
<1>2. TypeOK /\ FlagsKept /\ [Next]_vars => FlagsKept'
  <2>1. ASSUME UNCHANGED vars, FlagsKept PROVE FlagsKept'
    BY <2>1 DEF vars, FlagsKept
  <2> QED BY <2>1, FlagsStep DEF Next
<1>3. TypeOK /\ FlagsKept /\ [Next]_vars =>
          [Locked => Locked' \/ \E w \in Workers, u \in Users : BeginSeed(w, u, TRUE)]_vars
  BY LockedStep DEF Next
<1> QED
  BY <1>1, <1>2, <1>3, DirectoryTypes, PTL DEF Spec, LockedUntilSeeded

-----------------------------------------------------------------------------
(* Answers. *)

(* A request that arrives has read nothing of what it is about.           *)
LEMMA BeginPc ==
    ASSUME TypeOK, NEW w \in Workers, Arrive(w)
    PROVE  /\ req'[w].pc \in {"create", "user", "group", "token"}
           /\ req'[w].op = "add_user_to_group" => req'[w].pc = "group"
<1> DEFINE r == req'[w]
           Good == /\ r.pc \in {"create", "user", "group", "token"}
                   /\ r.op = "add_user_to_group" => r.pc = "group"
<1>f. DOMAIN req = Workers
  BY DEF TypeOK
<1>b. ASSUME NEW op, NEW f, Begin(w, op, f), DOMAIN f = DOMAIN Idle PROVE r.pc = f.pc /\ r.op = op
  <2>1. r = [f EXCEPT !.op = op]
    BY <1>b, <1>f DEF Begin, Step, Goto
  <2> QED BY <2>1, <1>b DEF Idle
<1> HIDE DEF r
<1>1. ASSUME NEW u \in Users, BeginUser(w, u) \/ BeginAdmin(w, u) PROVE Good
  <2> DEFINE h(pc) == [Idle EXCEPT !.pc = pc, !.u = u]
             k(pc) == [Idle EXCEPT !.pc = pc, !.u = u, !.flag = TRUE]
  <2>1. \A pc : DOMAIN h(pc) = DOMAIN Idle /\ h(pc).pc = pc
    BY DEF Idle
  <2>2. \A pc : DOMAIN k(pc) = DOMAIN Idle /\ k(pc).pc = pc
    BY DEF Idle
  <2>3. \E op, pc : /\ op # "add_user_to_group" /\ pc \in {"create", "user"}
                    /\ Begin(w, op, h(pc)) \/ Begin(w, op, k(pc))
    BY <1>1 DEF BeginUser, BeginAdmin
  <2> HIDE DEF h, k
  <2> QED BY <2>1, <2>2, <2>3, <1>b
<1>2. ASSUME NEW u \in Users, NEW flag \in BOOLEAN, BeginSeed(w, u, flag) PROVE Good
  <2> DEFINE h == [Idle EXCEPT !.pc = "create", !.u = u, !.flag = flag]
  <2>1. DOMAIN h = DOMAIN Idle /\ h.pc = "create"
    BY DEF Idle
  <2>2. Begin(w, "seed_dev_user", h)
    BY <1>2 DEF BeginSeed
  <2> HIDE DEF h
  <2> QED BY <2>1, <2>2, <1>b
<1>3. ASSUME NEW g \in Groups, BeginGroup(w, g) PROVE Good
  <2> DEFINE h(pc) == [Idle EXCEPT !.pc = pc, !.g = g]
  <2>1. \A pc : DOMAIN h(pc) = DOMAIN Idle /\ h(pc).pc = pc
    BY DEF Idle
  <2>2. \E op, pc : /\ op # "add_user_to_group" /\ pc \in {"create", "group"}
                    /\ Begin(w, op, h(pc))
    BY <1>3 DEF BeginGroup
  <2> HIDE DEF h
  <2> QED BY <2>1, <2>2, <1>b
<1>4. ASSUME NEW g \in Groups, NEW u \in Users, BeginMember(w, g, u) PROVE Good
  <2> DEFINE h == [Idle EXCEPT !.pc = "group", !.g = g, !.u = u]
  <2>1. DOMAIN h = DOMAIN Idle /\ h.pc = "group"
    BY DEF Idle
  <2>2. \E op : Begin(w, op, h)
    BY <1>4 DEF BeginMember
  <2> HIDE DEF h
  <2> QED BY <2>1, <2>2, <1>b
<1>5. ASSUME BeginToken(w) PROVE Good
  <2> DEFINE h(key) == [Idle EXCEPT !.pc = "create", !.key = key]
             k(i) == [Idle EXCEPT !.pc = "token", !.id = i]
  <2>1. \A key : DOMAIN h(key) = DOMAIN Idle /\ h(key).pc = "create"
    BY DEF Idle
  <2>2. \A i : DOMAIN k(i) = DOMAIN Idle /\ k(i).pc = "token"
    BY DEF Idle
  <2>3. \E op, x : /\ op # "add_user_to_group"
                   /\ Begin(w, op, h(x)) \/ Begin(w, op, k(x))
    BY <1>5 DEF BeginToken
  <2> HIDE DEF h, k
  <2> QED BY <2>1, <2>2, <2>3, <1>b
<1> QED
  BY <1>1, <1>2, <1>3, <1>4, <1>5 DEF Arrive, r

(* A handler that is about to answer, or to answer without a write, has   *)
(* seen what it will claim.                                               *)
Seen(f, h) ==
    /\ f.pc = "reply" => h
    /\ f.pc = "save" /\ f.op \in FlagOps /\ f.flag = f.was => h
    /\ f.pc = "save" /\ f.op = "add_user_to_group" /\ <<f.u, f.g>> \in f.mark => h

AllSeen == \A w \in Workers : Seen(req[w], held[w])

(* A commit makes its claim true, or it was seen before.                  *)
LEMMA CommitClaims ==
    ASSUME TypeOK, ArgsKept, AllSeen, NEW w \in Workers, Save(w), ~Refused(w)
    PROVE  req'[w].pc = "reply" /\ (held[w] \/ Claim(req[w])')
<1> DEFINE f == req[w]
<1>f. DOMAIN f = DOMAIN Idle /\ DOMAIN req = Workers /\ Seen(f, held[w])
  BY DEF TypeOK, FrameOK, AllSeen
<1>c. ASSUME NEW ops, NEW pc, Commit(w, ops, pc)
      PROVE  /\ req'[w] = Reply(f) /\ f.op \in ops /\ f.pc = pc /\ Accepts(f)
             /\ req'[w].pc = "reply"
             /\ req'[w].op = f.op /\ req'[w].u = f.u /\ req'[w].g = f.g
             /\ req'[w].flag = f.flag /\ req'[w].id = f.id
  <2>1. req'[w] = [f EXCEPT !.pc = "reply"]
    BY <1>c, <1>f DEF Commit, Goto, Reply
  <2> QED BY <2>1, <1>c, <1>f DEF Commit, At, Idle, Reply
<1>1. CASE CreateUser(w)
  <2>1. Commit(w, {"create_user", "seed_dev_user"}, "create")
    BY <1>1 DEF CreateUser
  <2>2. f.u \in DOMAIN users' /\ users'[f.u] = f.flag
    BY <1>1 DEF CreateUser
  <2> QED BY <2>1, <2>2, <1>c DEF Claim, FlagOps
<1>2. CASE CreateGroup(w)
  <2>1. Commit(w, {"create_group"}, "create")
    BY <1>2 DEF CreateGroup
  <2>2. f.g \in groups'
    BY <1>2 DEF CreateGroup
  <2> QED BY <2>1, <2>2, <1>c DEF Claim, FlagOps
<1>3. CASE CreateToken(w)
  <2>1. req'[w] = [f EXCEPT !.pc = "reply", !.id = fresh] /\ f.op = "create_admin_token"
    BY <1>3, <1>f DEF CreateToken, Goto, At
  <2>2. /\ req'[w].pc = "reply" /\ req'[w].op = "create_admin_token"
        /\ req'[w].id = fresh /\ req'[w].key = f.key
    BY <2>1, <1>f DEF Idle
  <2>3. fresh \in DOMAIN keys' /\ keys'[fresh] = f.key
    BY <1>3 DEF CreateToken
  <2> QED BY <2>2, <2>3 DEF Claim, FlagOps
<1>4. CASE SaveFlag(w)
  <2>1. Commit(w, FlagOps, "save")
    BY <1>4 DEF SaveFlag
  <2>2. CASE f.flag = f.was
    BY <2>1, <2>2, <1>c, <1>f DEF Seen
  <2>3. CASE f.flag # f.was
    <3>1. f.u \in DOMAIN users
      BY <2>1, <2>3, <1>c DEF Accepts, Matched
    <3>2. f.u \in DOMAIN users' /\ users'[f.u] = f.flag
      BY <1>4, <2>3, <3>1 DEF SaveFlag
    <3> QED BY <2>1, <3>2, <1>c DEF Claim, FlagOps
  <2> QED BY <2>2, <2>3
<1>5. CASE SaveMember(w)
  <2>1. Commit(w, {"add_user_to_group"}, "save")
    BY <1>5 DEF SaveMember
  <2>2. CASE <<f.u, f.g>> \in f.mark
    BY <2>1, <2>2, <1>c, <1>f DEF Seen
  <2>3. CASE <<f.u, f.g>> \notin f.mark
    <3>1. <<f.u, f.g>> \in members'
      BY <1>5, <2>1, <2>3, <1>c DEF SaveMember, Associated
    <3> QED BY <2>1, <3>1, <1>c DEF Claim, FlagOps
  <2> QED BY <2>2, <2>3
<1>6. CASE RemoveMember(w)
  <2>1. Commit(w, {"remove_user_from_group"}, "save")
    BY <1>6 DEF RemoveMember
  <2>2. <<f.u, f.g>> \notin members'
    BY <1>6 DEF RemoveMember
  <2> QED BY <2>1, <2>2, <1>c DEF Claim, FlagOps
<1>7. CASE RemoveUser(w)
  <2>1. Commit(w, {"remove_user"}, "save")
    BY <1>7 DEF RemoveUser
  <2>2. f.u \notin DOMAIN users'
    BY <1>7 DEF RemoveUser
  <2> QED BY <2>1, <2>2, <1>c DEF Claim, FlagOps
<1>8. CASE RemoveGroup(w)
  <2>1. Commit(w, {"remove_group"}, "save")
    BY <1>8 DEF RemoveGroup
  <2>2. f.g \notin groups'
    BY <1>8 DEF RemoveGroup
  <2> QED BY <2>1, <2>2, <1>c DEF Claim, FlagOps
<1>9. CASE RemoveToken(w)
  <2>1. Commit(w, {"remove_admin_token"}, "save")
    BY <1>9 DEF RemoveToken
  <2>2. f.id \notin DOMAIN keys'
    BY <1>9 DEF RemoveToken
  <2> QED BY <2>1, <2>2, <1>c DEF Claim, FlagOps
<1> QED
  BY <1>1, <1>2, <1>3, <1>4, <1>5, <1>6, <1>7, <1>8, <1>9 DEF Save

(* A read that will make a write needless sees the claim.                 *)
LEMMA ReadClaims ==
    ASSUME TypeOK, NEW w \in Workers, Read(w)
    PROVE  Seen(req'[w], Claim(req[w])')
<1> DEFINE f == req[w]
           r == req'[w]
<1>f. DOMAIN f = DOMAIN Idle /\ DOMAIN req = Workers
  BY DEF TypeOK, FrameOK
<1>s. ASSUME NEW g, Step(w, g) PROVE r = g /\ UNCHANGED tables
  BY <1>s, <1>f DEF Step, Goto
<1>p. ASSUME NEW pc, Step(w, [f EXCEPT !.pc = pc])
      PROVE  r.pc = pc /\ r.op = f.op /\ r.u = f.u /\ r.flag = f.flag
  BY <1>p, <1>s, <1>f DEF Idle
<1>h. Fail(w) => Seen(r, Claim(req[w])')
  BY <1>s DEF Fail, Seen, Idle
<1>1. ASSUME Look(w), ~Fail(w) PROVE Seen(r, Claim(req[w])')
  <2>1. CASE users[f.u] = f.flag
    <3>1. f.op = "seed_dev_user" /\ f.u \in DOMAIN users /\ Step(w, [f EXCEPT !.pc = "reply"])
      BY <1>1, <2>1 DEF Look, At, Reply
    <3>2. users' = users
      BY <3>1, <1>s DEF tables
    <3> QED BY <3>1, <3>2, <2>1, <1>p DEF Seen, Claim, FlagOps
  <2>2. CASE users[f.u] # f.flag
    <3>1. Step(w, [f EXCEPT !.pc = "user"])
      BY <1>1, <2>2 DEF Look
    <3> QED BY <3>1, <1>p DEF Seen
  <2> QED BY <2>1, <2>2
<1>2. ASSUME GetGroup(w), ~Fail(w) PROVE Seen(r, Claim(req[w])')
  <2>1. Step(w, [f EXCEPT !.pc = IF f.op = "remove_group" THEN "load" ELSE "user"])
    BY <1>2 DEF GetGroup
  <2> QED BY <2>1, <1>p DEF Seen
<1>3. ASSUME GetUser(w), ~Fail(w) PROVE Seen(r, Claim(req[w])')
  <2> DEFINE pc == IF f.op \in FlagOps THEN "save" ELSE "load"
  <2>1. f.u \in DOMAIN users /\ Step(w, [f EXCEPT !.was = users[f.u], !.pc = pc])
    BY <1>3 DEF GetUser
  <2>2. users' = users /\ r = [f EXCEPT !.was = users[f.u], !.pc = pc]
    BY <2>1, <1>s DEF tables
  <2>3. /\ r.pc = pc /\ r.op = f.op /\ r.u = f.u /\ r.flag = f.flag
        /\ r.was = users[f.u]
    BY <2>2, <1>f DEF Idle
  <2>4. CASE f.op \in FlagOps
    BY <2>1, <2>2, <2>3, <2>4 DEF Seen, Claim, FlagOps
  <2>5. CASE f.op \notin FlagOps
    BY <2>3, <2>5 DEF Seen
  <2> QED BY <2>4, <2>5
<1>4. ASSUME GetToken(w), ~Fail(w) PROVE Seen(r, Claim(req[w])')
  <2>1. Step(w, [f EXCEPT !.pc = "save"]) /\ f.op = "remove_admin_token"
    BY <1>4 DEF GetToken, At
  <2> QED BY <2>1, <1>p DEF Seen, FlagOps
<1>5. ASSUME Load(w), ~Fail(w) PROVE Seen(r, Claim(req[w])')
  <2>1. f.op \in CollectionOps /\ Step(w, [f EXCEPT !.mark = Collection(f), !.pc = "save"])
    BY <1>5 DEF Load, At
  <2>2. members' = members /\ r = [f EXCEPT !.mark = Collection(f), !.pc = "save"]
    BY <2>1, <1>s DEF tables
  <2>3. r.pc = "save" /\ r.op = f.op /\ r.u = f.u /\ r.g = f.g /\ r.mark = Collection(f)
    BY <2>2, <1>f DEF Idle
  <2>4. r.op = "add_user_to_group" /\ <<r.u, r.g>> \in r.mark => <<r.u, r.g>> \in members'
    BY <2>2, <2>3 DEF Collection
  <2> QED BY <2>1, <2>3, <2>4 DEF Seen, Claim, FlagOps, CollectionOps
<1> QED
  BY <1>h, <1>1, <1>2, <1>3, <1>4, <1>5 DEF Read

LEMMA SeenStep ==
    ASSUME TypeOK, ArgsKept, AllSeen, NEW w \in Workers, Serve(w), Observe
    PROVE  AllSeen'
<1>o. \A v \in Workers : held'[v] = (req'[v].pc # "idle" /\ (held[v] \/ Claim(req[v])'))
  BY DEF Observe
<1>i. ASSUME NEW h PROVE Seen(Idle, h)
  BY DEF Seen, Idle
<1>1. Seen(req'[w], held'[w])
  <2>1. CASE Arrive(w)
    BY <2>1, BeginPc DEF Seen
  <2>2. CASE Read(w)
    BY <2>2, <1>o, ReadClaims DEF Seen
  <2>3. CASE Save(w) /\ ~Refused(w)
    BY <2>3, <1>o, CommitClaims DEF Seen
  <2>4. CASE Refused(w)
    <3>1. req'[w] = Idle \/ req'[w] = [req[w] EXCEPT !.pc = "look"]
      BY <2>4, Moved DEF Refused, Fail, Step, TypeOK
    <3>2. [req[w] EXCEPT !.pc = "look"].pc = "look"
      BY DEF TypeOK, FrameOK, Idle
    <3> QED BY <3>1, <3>2, <1>i DEF Seen
  <2>5. CASE Respond(w) \/ Crash(w)
    BY <2>5, <1>i, Moved DEF Respond, Crash, Fail, Step, TypeOK
  <2> QED BY <2>1, <2>2, <2>3, <2>4, <2>5 DEF Serve
<1>2. ASSUME NEW v \in Workers \ {w} PROVE Seen(req'[v], held'[v])
  <2>1. PICK g : Goto(w, g)
    BY FrameTypes
  <2>2. req'[v] = req[v] /\ Seen(req[v], held[v])
    BY <2>1, Moved DEF TypeOK, AllSeen
  <2> QED BY <2>2, <1>o DEF Seen
<1> QED BY <1>1, <1>2 DEF AllSeen

(* A success is never a lie, whatever the other processes do              *)
(* (services.py:350-495, 572-614, command.py:64-81).                      *)
THEOREM AnswersTrue == Spec => []AnswersHeld
<1>1. Init => AllSeen
  <2>1. Seen(Idle, FALSE)
    BY DEF Seen, Idle
  <2> QED BY <2>1 DEF Init, AllSeen
<1>2. TypeOK /\ ArgsKept /\ AllSeen /\ [Next]_vars => AllSeen'
  <2>1. ASSUME UNCHANGED vars, AllSeen PROVE AllSeen'
    BY <2>1 DEF vars, AllSeen
  <2> QED BY <2>1, SeenStep DEF Next
<1>3. AllSeen => AnswersHeld
  BY DEF AllSeen, Seen, AnswersHeld
<1> QED
  BY <1>1, <1>2, <1>3, DirectoryTypes, PTL DEF Spec
-----------------------------------------------------------------------------
(* Flushes. *)

(* What a handler that nobody disturbed has read is still so.             *)
Ready(f) ==
    /\ f.pc = "user" /\ f.op = "add_user_to_group" => f.g \in groups
    /\ f.pc = "load" /\ f.op = "add_user_to_group" => f.u \in DOMAIN users /\ f.g \in groups
    /\ f.pc = "save" => Accepts(f)

AllReady == \A w \in Workers : alone[w] => Ready(req[w])

(* A read leaves the frame ready for the next step.                       *)
LEMMA ReadReady ==
    ASSUME TypeOK, NEW w \in Workers, Read(w), Ready(req[w])
    PROVE  Ready(req[w])'
<1> DEFINE f == req[w]
           r == req'[w]
<1>f. DOMAIN f = DOMAIN Idle /\ DOMAIN req = Workers
  BY DEF TypeOK, FrameOK
<1>s. ASSUME NEW g, Step(w, g)
      PROVE  r = g /\ users' = users /\ groups' = groups /\ members' = members
  BY <1>s, <1>f DEF Step, Goto, tables
<1>p. ASSUME NEW pc, Step(w, [f EXCEPT !.pc = pc])
      PROVE  r.pc = pc /\ r.op = f.op /\ r.u = f.u /\ r.g = f.g
  BY <1>p, <1>s, <1>f DEF Idle
<1>h. Fail(w) => Ready(req[w])'
  BY <1>s DEF Fail, Ready, Idle
<1>1. ASSUME Look(w), ~Fail(w) PROVE Ready(req[w])'
  <2>1. /\ f.op = "seed_dev_user"
        /\ Step(w, [f EXCEPT !.pc = "reply"]) \/ Step(w, [f EXCEPT !.pc = "user"])
    BY <1>1 DEF Look, At, Reply
  <2> QED BY <2>1, <1>p DEF Ready
<1>2. ASSUME GetGroup(w), ~Fail(w) PROVE Ready(req[w])'
  <2>1. f.g \in groups /\ Step(w, [f EXCEPT !.pc = IF f.op = "remove_group" THEN "load" ELSE "user"])
    BY <1>2 DEF GetGroup
  <2>2. groups' = groups
    BY <2>1, <1>s
  <2> QED BY <2>1, <2>2, <1>p DEF Ready
<1>3. ASSUME GetUser(w), ~Fail(w) PROVE Ready(req[w])'
  <2> DEFINE pc == IF f.op \in FlagOps THEN "save" ELSE "load"
  <2>1. f.pc = "user" /\ f.u \in DOMAIN users /\ Step(w, [f EXCEPT !.was = users[f.u], !.pc = pc])
    BY <1>3 DEF GetUser
  <2>2. users' = users /\ groups' = groups /\ r = [f EXCEPT !.was = users[f.u], !.pc = pc]
    BY <2>1, <1>s
  <2>3. r.pc = pc /\ r.op = f.op /\ r.u = f.u /\ r.g = f.g
    BY <2>2, <1>f DEF Idle
  <2>4. CASE f.op \in FlagOps
    BY <2>1, <2>2, <2>3, <2>4
    DEF Ready, Accepts, UniqueKept, Matched, Referred, Associated, FlagOps
  <2>5. CASE f.op \notin FlagOps
    BY <2>1, <2>2, <2>3, <2>5 DEF Ready
  <2> QED BY <2>4, <2>5
<1>4. ASSUME GetToken(w), ~Fail(w) PROVE Ready(req[w])'
  <2>1. Step(w, [f EXCEPT !.pc = "save"]) /\ f.op = "remove_admin_token"
    BY <1>4 DEF GetToken, At
  <2>2. r.pc = "save" /\ r.op = "remove_admin_token"
    BY <2>1, <1>p
  <2> QED
    BY <2>2 DEF Ready, Accepts, UniqueKept, Matched, Referred, Associated, FlagOps
<1>5. ASSUME Load(w), ~Fail(w) PROVE Ready(req[w])'
  <2>1. /\ f.op \in CollectionOps /\ f.pc = "load"
        /\ f.op = "remove_user_from_group" => <<f.u, f.g>> \in members
        /\ Step(w, [f EXCEPT !.mark = Collection(f), !.pc = "save"])
    BY <1>5 DEF Load, At
  <2>2. /\ members' = members /\ users' = users /\ groups' = groups
        /\ r = [f EXCEPT !.mark = Collection(f), !.pc = "save"]
    BY <2>1, <1>s
  <2>3. r.pc = "save" /\ r.op = f.op /\ r.u = f.u /\ r.g = f.g /\ r.mark = Collection(f)
    BY <2>2, <1>f DEF Idle
  <2>4. Collection(req[w])' = Collection(f)
    BY <2>2, <2>3 DEF Collection
  <2>5. f.op = "add_user_to_group" => f.u \in DOMAIN users /\ f.g \in groups
    BY <2>1 DEF Ready
  <2>6. f.op = "add_user_to_group" /\ <<f.u, f.g>> \in members => <<f.u, f.g>> \in Collection(f)
    BY DEF Collection
  <2>7. Collection(f) \subseteq members
    BY DEF Collection
  <2> HIDE DEF f
  <2>8. UniqueKept(req[w])'
    BY <2>1, <2>2, <2>3, <2>6 DEF UniqueKept, Associated, CollectionOps
  <2>9. Matched(req[w])'
    BY <2>1, <2>2, <2>3, <2>7 DEF Matched, FlagOps, CollectionOps
  <2>10. Referred(req[w])'
    BY <2>2, <2>3, <2>4, <2>5 DEF Referred, Associated
  <2> QED BY <2>3, <2>8, <2>9, <2>10 DEF Ready, Accepts
<1> QED
  BY <1>h, <1>1, <1>2, <1>3, <1>4, <1>5 DEF Read

LEMMA ReadyStep ==
    ASSUME TypeOK, ArgsKept, AllSeen, AllReady, NEW w \in Workers, Serve(w), Observe
    PROVE  AllReady'
<1>o. \A v \in Workers : alone'[v] =>
          \/ req'[v].pc = "idle"
          \/ alone[v] /\ (tables' = tables \/ req'[v] # req[v])
  BY DEF Observe
<1>i. \A v \in Workers : req'[v].pc \in {"idle", "reply", "look"} => Ready(req[v])'
  BY DEF Ready
<1>1. ASSUME alone'[w] PROVE Ready(req[w])'
  <2>1. CASE Arrive(w)
    BY <2>1, BeginPc DEF Ready
  <2>2. CASE Read(w)
    BY <2>2, <1>1, <1>o, <1>i, ReadReady DEF AllReady
  <2>3. CASE Save(w) /\ ~Refused(w)
    BY <2>3, <1>i, CommitClaims
  <2>4. CASE Refused(w)
    <3>1. req'[w] = Idle \/ req'[w] = [req[w] EXCEPT !.pc = "look"]
      BY <2>4, Moved DEF Refused, Fail, Step, TypeOK
    <3>2. [req[w] EXCEPT !.pc = "look"].pc = "look"
      BY DEF TypeOK, FrameOK, Idle
    <3>3. Idle.pc = "idle"
      BY DEF Idle
    <3>4. req'[w].pc \in {"idle", "look"}
      BY <3>1, <3>2, <3>3
    <3> QED BY <3>4, <1>i
  <2>5. CASE Respond(w) \/ Crash(w)
    <3>1. req'[w] = Idle
      BY <2>5, Moved DEF Respond, Crash, Fail, Step, TypeOK
    <3> QED BY <3>1, <1>i DEF Idle
  <2> QED BY <2>1, <2>2, <2>3, <2>4, <2>5 DEF Serve
<1>2. ASSUME NEW v \in Workers \ {w}, alone'[v] PROVE Ready(req[v])'
  <2>1. PICK g : Goto(w, g)
    BY FrameTypes
  <2>2. req'[v] = req[v]
    BY <2>1, Moved DEF TypeOK
  <2>3. CASE req'[v].pc = "idle"
    BY <2>3, <1>i
  <2>4. CASE alone[v] /\ tables' = tables
    <3>1. Ready(req[v])
      BY <2>4 DEF AllReady
    <3> QED
      BY <3>1, <2>2, <2>4
      DEF tables, Ready, Accepts, UniqueKept, Matched, Referred, Associated, Collection
  <2> QED BY <2>2, <2>3, <2>4, <1>o, <1>2
<1> QED BY <1>1, <1>2 DEF AllReady

(* A handler that passed its checks while nobody else wrote is accepted   *)
(* by the database (orm.py:175-200, services.py:350-495).                 *)
THEOREM SavesGoThrough == Spec => []SavesAccepted
<1>1. Init => AllSeen /\ AllReady
  <2>1. Seen(Idle, FALSE) /\ Ready(Idle)
    BY DEF Seen, Ready, Idle
  <2> QED BY <2>1 DEF Init, AllSeen, AllReady
<1>2. TypeOK /\ ArgsKept /\ AllSeen /\ AllReady /\ [Next]_vars => AllSeen' /\ AllReady'
  <2>1. ASSUME UNCHANGED vars, AllSeen, AllReady PROVE AllSeen' /\ AllReady'
    <3>1. AllSeen'
      BY <2>1 DEF vars, AllSeen
    <3>2. AllReady'
      BY <2>1 DEF vars, AllReady, Ready, Accepts, UniqueKept, Matched, Referred,
                  Associated, Collection
    <3> QED BY <3>1, <3>2
  <2> QED BY <2>1, SeenStep, ReadyStep DEF Next
<1>3. AllReady => SavesAccepted
  BY DEF AllReady, Ready, SavesAccepted
<1> QED
  BY <1>1, <1>2, <1>3, DirectoryTypes, PTL DEF Spec

-----------------------------------------------------------------------------
(* Each commit is one service. *)

(* A request arrives with nothing loaded.                                 *)
LEMMA BeginMarks ==
    ASSUME TypeOK, NEW w \in Workers, Arrive(w)
    PROVE  req'[w].mark = {}
<1>f. DOMAIN req = Workers
  BY DEF TypeOK
<1>b. ASSUME NEW op, NEW f, Begin(w, op, f), DOMAIN f = DOMAIN Idle, f.mark = {}
      PROVE  req'[w].mark = {}
  <2>1. req'[w] = [f EXCEPT !.op = op]
    BY <1>b, <1>f DEF Begin, Step, Goto
  <2> QED BY <2>1, <1>b DEF Idle
<1>1. ASSUME NEW u, BeginUser(w, u) PROVE req'[w].mark = {}
  BY <1>1, <1>b DEF BeginUser, Idle
<1>2. ASSUME NEW g, BeginGroup(w, g) PROVE req'[w].mark = {}
  BY <1>2, <1>b DEF BeginGroup, Idle
<1>3. ASSUME NEW g, NEW u, BeginMember(w, g, u) PROVE req'[w].mark = {}
  BY <1>3, <1>b DEF BeginMember, Idle
<1>4. ASSUME NEW u, BeginAdmin(w, u) PROVE req'[w].mark = {}
  BY <1>4, <1>b DEF BeginAdmin, Idle
<1>5. ASSUME NEW u, NEW flag, BeginSeed(w, u, flag) PROVE req'[w].mark = {}
  BY <1>5, <1>b DEF BeginSeed, Idle
<1>6. ASSUME BeginToken(w) PROVE req'[w].mark = {}
  <2>1. ASSUME NEW key
        PROVE  LET f == [Idle EXCEPT !.pc = "create", !.key = key]
               IN  DOMAIN f = DOMAIN Idle /\ f.mark = {}
    BY DEF Idle
  <2>2. ASSUME NEW i
        PROVE  LET f == [Idle EXCEPT !.pc = "token", !.id = i]
               IN  DOMAIN f = DOMAIN Idle /\ f.mark = {}
    BY DEF Idle
  <2> QED BY <1>6, <1>b, <2>1, <2>2 DEF BeginToken
<1> QED
  BY <1>1, <1>2, <1>3, <1>4, <1>5, <1>6 DEF Arrive

(* What a deletion has loaded are memberships of what it deletes.         *)
MarkOK(f) ==
    /\ f.op = "remove_user" => \A m \in f.mark : m[1] = f.u
    /\ f.op = "remove_group" => \A m \in f.mark : m[2] = f.g

MarksOwn == \A w \in Workers : MarkOK(req[w])

LEMMA MarkFrames ==
    ASSUME TypeOK, MarksOwn, NEW w \in Workers, Serve(w)
    PROVE  MarkOK(req'[w])
<1> DEFINE f == req[w]
<1>f. DOMAIN f = DOMAIN Idle /\ DOMAIN req = Workers /\ MarkOK(f)
  BY DEF TypeOK, FrameOK, MarksOwn
<1>g. ASSUME NEW g, Goto(w, g), g.op = f.op, g.u = f.u, g.g = f.g, g.mark = f.mark
      PROVE  MarkOK(req'[w])
  <2>1. req'[w] = g
    BY <1>g, <1>f DEF Goto
  <2> QED BY <2>1, <1>g, <1>f DEF MarkOK
<1>p. ASSUME NEW pc, Goto(w, [f EXCEPT !.pc = pc]) PROVE MarkOK(req'[w])
  BY <1>p, <1>g, <1>f DEF Idle
<1>h. ASSUME Goto(w, Idle) PROVE MarkOK(req'[w])
  BY <1>h, <1>f DEF Goto, MarkOK, Idle
<1>1. CASE Arrive(w)
  BY <1>1, BeginMarks DEF MarkOK
<1>2. CASE Look(w) \/ GetGroup(w) \/ GetToken(w)
  BY <1>2, <1>p, <1>h DEF Look, GetGroup, GetToken, Reply, Step, Fail
<1>3. CASE GetUser(w)
  <2>1. ASSUME NEW was, NEW pc, Goto(w, [f EXCEPT !.was = was, !.pc = pc])
        PROVE  MarkOK(req'[w])
    BY <2>1, <1>g, <1>f DEF Idle
  <2> QED BY <1>3, <2>1, <1>h DEF GetUser, Step, Fail
<1>4. CASE Load(w)
  <2>1. ASSUME Goto(w, [f EXCEPT !.mark = Collection(f), !.pc = "save"])
        PROVE  MarkOK(req'[w])
    <3> DEFINE g == [f EXCEPT !.mark = Collection(f), !.pc = "save"]
    <3>1. g.op = f.op /\ g.u = f.u /\ g.g = f.g /\ g.mark = Collection(f)
      BY <1>f DEF Idle
    <3>2. req'[w] = g
      BY <2>1, <1>f DEF Goto
    <3> QED BY <3>1, <3>2 DEF MarkOK, Collection
  <2> QED BY <1>4, <2>1, <1>h DEF Load, Step, Fail
<1>5. CASE CreateToken(w)
  <2>1. ASSUME NEW i, Goto(w, [f EXCEPT !.pc = "reply", !.id = i])
        PROVE  MarkOK(req'[w])
    BY <2>1, <1>g, <1>f DEF Idle
  <2> QED BY <1>5, <2>1 DEF CreateToken
<1>6. CASE Refused(w)
  BY <1>6, <1>p, <1>h DEF Refused, Step, Fail
<1>7. CASE Save(w) /\ ~CreateToken(w) /\ ~Refused(w)
  BY <1>7, <1>p
  DEF Save, Commit, Reply, CreateUser, CreateGroup, SaveFlag, SaveMember, RemoveMember,
      RemoveUser, RemoveGroup, RemoveToken
<1>8. CASE Respond(w) \/ Crash(w)
  BY <1>8, <1>h DEF Respond, Crash, Step, Fail
<1> QED
  BY <1>1, <1>2, <1>3, <1>4, <1>5, <1>6, <1>7, <1>8 DEF Serve, Read

LEMMA MarksStep ==
    ASSUME TypeOK, MarksOwn, [Next]_vars
    PROVE  MarksOwn'
<1>1. CASE UNCHANGED vars
  BY <1>1 DEF vars, MarksOwn
<1>2. ASSUME NEW w \in Workers, Serve(w) PROVE MarksOwn'
  <2>1. \A v \in Workers \ {w} : req'[v] = req[v]
    BY <1>2, FrameTypes, Moved DEF TypeOK
  <2>2. MarkOK(req'[w])
    BY <1>2, MarkFrames
  <2> QED BY <2>1, <2>2 DEF MarksOwn
<1> QED
  BY <1>1, <1>2 DEF Next

(* Whatever the other processes did since the reads, a commit takes       *)
(* exactly the memberships of what it removes.                            *)
LEMMA WholeCollections ==
    ASSUME MarksOwn, NEW w \in Workers, Accepts(req[w])
    PROVE  /\ req[w].op = "remove_user" =>
                  members \ req[w].mark = {m \in members : m[1] # req[w].u}
           /\ req[w].op = "remove_group" =>
                  members \ req[w].mark = {m \in members : m[2] # req[w].g}
BY DEF MarksOwn, MarkOK, Accepts, Referred, Collection

LEMMA AtomicStep ==
    ASSUME TypeOK, ArgsKept, MarksOwn, [Next]_vars
    PROVE  [Serial!Next]_(Serial!vars)
<1>1. CASE UNCHANGED vars
  BY <1>1 DEF vars, Serial!vars
<1>2. ASSUME NEW w \in Workers, Serve(w)
      PROVE  [Serial!Next]_(Serial!vars)
  <2> DEFINE f == req[w]
  <2>a. ArgsOK(f) /\ f.flag \in BOOLEAN
    BY DEF ArgsKept, TypeOK, FrameOK
  <2>1. CASE UNCHANGED tables
    BY <2>1 DEF tables, Serial!vars
  <2>2. CASE CreateUser(w)
    <3>1. f.u \in Users /\ Serial!CreateUser(f.u, f.flag)
      BY <2>2, <2>a DEF CreateUser, Commit, At, ArgsOK, Accepts, UniqueKept, Serial!CreateUser
    <3> QED BY <3>1, <2>a DEF Serial!Next
  <2>3. CASE CreateGroup(w)
    <3>1. f.g \in Groups /\ Serial!CreateGroup(f.g)
      BY <2>3, <2>a
      DEF CreateGroup, Commit, At, ArgsOK, Accepts, UniqueKept, Serial!CreateGroup
    <3> QED BY <3>1 DEF Serial!Next
  <2>4. CASE CreateToken(w)
    <3>1. /\ f.key.name \in Names /\ f.key.role \in AllRoles
          /\ f.key = [name |-> f.key.name, role |-> f.key.role]
      BY <2>4, <2>a DEF CreateToken, At, ArgsOK
    <3>2. Serial!CreateToken(f.key.name, f.key.role)
      BY <2>4, <3>1 DEF CreateToken, At, Accepts, UniqueKept, Serial!CreateToken
    <3> QED BY <3>1, <3>2 DEF Serial!Next
  <2>5. CASE SaveFlag(w)
    <3>1. f.op \in FlagOps /\ f.pc = "save" /\ f.u \in Users /\ Matched(f)
      BY <2>5, <2>a DEF SaveFlag, Commit, At, ArgsOK, Accepts
    <3>2. CASE f.flag = f.was
      BY <2>5, <3>2 DEF SaveFlag, Serial!vars
    <3>3. CASE f.flag # f.was
      <4>1. f.u \in DOMAIN users
        BY <3>1, <3>3 DEF Matched
      <4>2. users' = [v \in DOMAIN users |-> IF v = f.u THEN f.flag ELSE users[v]]
        BY <2>5, <3>3 DEF SaveFlag
      <4>3. users' = [users EXCEPT ![f.u] = f.flag]
        BY <4>1, <4>2
      <4>4. Serial!SetFlag(f.u, f.flag)
        BY <2>5, <4>1, <4>3 DEF SaveFlag, Serial!SetFlag
      <4> QED BY <3>1, <4>4, <2>a DEF Serial!Next
    <3> QED BY <3>2, <3>3
  <2>6. CASE SaveMember(w)
    <3>1. f.u \in Users /\ f.g \in Groups
      BY <2>6, <2>a DEF SaveMember, Commit, At, ArgsOK
    <3>2. CASE Associated(f)
      <4>1. Serial!Join(f.u, f.g)
        BY <2>6, <3>2 DEF SaveMember, Commit, Accepts, Referred, Serial!Join
      <4> QED BY <3>1, <4>1 DEF Serial!Next
    <3>3. CASE ~Associated(f)
      BY <2>6, <3>3 DEF SaveMember, Serial!vars
    <3> QED BY <3>2, <3>3
  <2>7. CASE RemoveMember(w)
    <3>1. f.u \in Users /\ f.g \in Groups
      BY <2>7, <2>a DEF RemoveMember, Commit, At, ArgsOK
    <3>2. Serial!Leave(f.u, f.g)
      BY <2>7 DEF RemoveMember, Commit, At, Accepts, Matched, Serial!Leave
    <3> QED BY <3>1, <3>2 DEF Serial!Next
  <2>8. CASE RemoveUser(w)
    <3>1. Serial!RemoveUser(f.u)
      BY <2>8, WholeCollections DEF RemoveUser, Commit, At, Serial!RemoveUser
    <3>2. f.u \in Users \/ UNCHANGED Serial!vars
      <4>1. ASSUME f.u \notin Users PROVE UNCHANGED Serial!vars
        <5>1. f.u \notin DOMAIN users /\ \A m \in members : m[1] # f.u
          BY <4>1 DEF TypeOK
        <5>2. users' = users /\ members' = members
          BY <3>1, <5>1 DEF Serial!RemoveUser, TypeOK
        <5> QED BY <3>1, <5>2 DEF Serial!RemoveUser, Serial!vars
      <4> QED BY <4>1
    <3> QED BY <3>1, <3>2 DEF Serial!Next
  <2>9. CASE RemoveGroup(w)
    <3>1. Serial!RemoveGroup(f.g)
      BY <2>9, WholeCollections DEF RemoveGroup, Commit, At, Serial!RemoveGroup
    <3>2. f.g \in Groups \/ UNCHANGED Serial!vars
      <4>1. ASSUME f.g \notin Groups PROVE UNCHANGED Serial!vars
        <5>1. f.g \notin groups /\ \A m \in members : m[2] # f.g
          BY <4>1 DEF TypeOK
        <5>2. groups' = groups /\ members' = members
          BY <3>1, <5>1 DEF Serial!RemoveGroup
        <5> QED BY <3>1, <5>2 DEF Serial!RemoveGroup, Serial!vars
      <4> QED BY <4>1
    <3> QED BY <3>1, <3>2 DEF Serial!Next
  <2>10. CASE RemoveToken(w)
    <3>1. CASE f.id \in DOMAIN keys
      <4>1. Serial!RemoveToken(f.id)
        BY <2>10 DEF RemoveToken, Serial!RemoveToken
      <4> QED BY <3>1, <4>1 DEF Serial!Next
    <3>2. CASE f.id \notin DOMAIN keys
      <4>1. keys' = keys
        <5>1. keys = [i \in DOMAIN keys |-> keys[i]]
          BY DEF TypeOK
        <5> QED BY <2>10, <3>2, <5>1 DEF RemoveToken
      <4> QED BY <2>10, <4>1 DEF RemoveToken, Serial!vars
    <3> QED BY <3>1, <3>2
  <2> QED
    BY <1>2, StepKinds, <2>1, <2>2, <2>3, <2>4, <2>5, <2>6, <2>7, <2>8, <2>9, <2>10
<1> QED
  BY <1>1, <1>2 DEF Next

(* However many processes serve, every commit to the directory is one     *)
(* whole service, applied to the tables as they are at that moment        *)
(* (services.py:350-463, 572-614).                                        *)
THEOREM DirectoryAtomic == Spec => ServicesAtomic
<1>1. Init => Serial!Init /\ MarksOwn
  <2>1. MarkOK(Idle)
    BY DEF MarkOK, Idle
  <2> QED BY <2>1 DEF Init, Serial!Init, MarksOwn
<1>2. TypeOK /\ MarksOwn /\ [Next]_vars => MarksOwn'
  BY MarksStep
<1>3. TypeOK /\ ArgsKept /\ MarksOwn /\ [Next]_vars => [Serial!Next]_(Serial!vars)
  BY AtomicStep
<1> QED
  BY <1>1, <1>2, <1>3, DirectoryTypes, PTL DEF Spec, ServicesAtomic, Serial!Spec
=============================================================================
