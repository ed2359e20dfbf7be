----------------------------- MODULE SerialProofs ------------------------------
(***************************************************************************)
(* What the rows of "token" are to each other however many processes       *)
(* serve: keys are unique, so that a user has one session; what a request  *)
(* has marked for deletion is a family, or what others have left of one;   *)
(* and every commit is a step of AtomicTokens.                             *)
(***************************************************************************)
EXTENDS TokenProofs, FiniteSetTheorems, WellFoundedInduction

-----------------------------------------------------------------------------
(* What a session looks like.                                             *)

SessionShape(r) == r.session => r.parent = None /\ r.ext = None /\ r.name = SessionName

FrameShape(f) == SessionShape(f.row) /\ (f.op = "mfa" => f.row.session /\ ~f.row.rotatable)

Shaped ==
    /\ \A i \in DOMAIN tokens : SessionShape(tokens[i])
    /\ \A w \in Workers : FrameShape(req[w])

(* Only GET /mfa/jwt builds a row that is a session, and it is one for a  *)
(* whole user: no parent, no external id, the configured name.            *)
LEMMA FrameShapes ==
    ASSUME TypeOK, Shaped, NEW w \in Workers, Serve(w)
    PROVE  FrameShape(req'[w])
<1> DEFINE f == req[w]
<1>f. FrameOK(f) /\ DOMAIN f = DOMAIN Idle /\ DOMAIN req = Workers /\ FrameShape(f)
  BY DEF TypeOK, FrameOK, Shaped
<1>g. ASSUME NEW g, Goto(w, g) PROVE req'[w] = g
  BY <1>g, <1>f DEF Goto
<1>0. ASSUME NEW g, Goto(w, g), g.row = f.row, g.op = f.op PROVE FrameShape(req'[w])
  <2>1. req'[w] = g
    BY <1>0, <1>g
  <2> QED BY <1>0, <1>f, <2>1 DEF FrameShape
<1>b. ASSUME NEW g, Goto(w, g), SessionShape(g.row), g.op # "mfa" PROVE FrameShape(req'[w])
  <2>1. req'[w] = g
    BY <1>b, <1>g
  <2> QED BY <1>b, <2>1 DEF FrameShape
<1>n. SessionShape(NoRow)
  BY DEF SessionShape, NoRow
<1>i. ASSUME Goto(w, Idle) PROVE FrameShape(req'[w])
  BY <1>i, <1>b, <1>n DEF Idle
<1>h. ASSUME Fail(w) PROVE FrameShape(req'[w])
  BY <1>h, <1>i DEF Fail
<1>1. CASE AdminNext(w)
  <2>1. ASSUME NEW u, NEW p, NEW n, NEW x, NEW life, NEW rot, BeginAdmin(w, u, p, n, x, life, rot)
        PROVE  FrameShape(req'[w])
    <3> DEFINE r == NewRow(u, IF p = Blank THEN None ELSE p, n, x, life, FALSE, rot)
    <3>1. SessionShape(r)
      BY DEF SessionShape, NewRow
    <3> HIDE DEF r
    <3> QED BY <2>1, <3>1, <1>b DEF BeginAdmin, Step, Idle, r
  <2>2. ASSUME NEW c, Goto(w, [f EXCEPT !.pc = "reply", !.cred = c])
        PROVE  FrameShape(req'[w])
    BY <2>2, <1>0, <1>f DEF Idle
  <2>3. CASE InsertToken(w) \/ RetryLookup(w)
    BY <2>3, <2>2, <1>h DEF InsertToken, RetryLookup, Step
  <2>4. CASE InsertRefused(w)
    BY <2>4, <1>0, <1>f, <1>h DEF InsertRefused, Step, Idle
  <2> QED BY <1>1, <2>1, <2>3, <2>4 DEF AdminNext
<1>2. CASE UserNext(w)
  <2>1. ASSUME NEW u, NEW n, NEW life, NEW rot, BeginCreate(w, u, n, life, rot)
        PROVE  FrameShape(req'[w])
    <3> DEFINE r == NewRow(u, None, n, None, life, FALSE, rot)
    <3>1. SessionShape(r)
      BY DEF SessionShape, NewRow
    <3> HIDE DEF r
    <3> QED BY <2>1, <3>1, <1>b DEF BeginCreate, Step, Idle, r
  <2>2. ASSUME NEW u, NEW S, BeginAttest(w, u, S)
        PROVE  FrameShape(req'[w])
    BY <2>2, <1>b, <1>n DEF BeginAttest, Step, Idle
  <2>3. ASSUME NEW i, ReadAttested(w, i)
        PROVE  FrameShape(req'[w])
    BY <2>3, <1>0, <1>f, <1>h DEF ReadAttested, Step, Idle
  <2>4. ASSUME NEW i, CheckAttested(w, i)
        PROVE  FrameShape(req'[w])
    BY <2>4, <1>0, <1>f, <1>h DEF CheckAttested, Step, Idle
  <2> QED
    BY <1>2, <1>h, <1>i, <2>1, <2>2, <2>3, <2>4
    DEF UserNext, SaveAttestation, AttestationStale
<1>3. CASE AuthNext(w)
  <2>1. ASSUME NEW op \in {"jwt", "rotate"}, NEW c, ReadToken(w, op, c)
        PROVE  FrameShape(req'[w])
    <3>1. SessionShape(tokens[c.id])
      BY <2>1 DEF ReadToken, Shaped
    <3> QED BY <2>1, <3>1, <1>b DEF ReadToken, Step, Idle
  <2>2. CASE CheckWindow(w)
    BY <2>2, <1>0, <1>f, <1>h DEF CheckWindow, Step, Idle
  <2>3. CASE IssueJwt(w)
    BY <2>3, <1>0, <1>f, <1>h DEF IssueJwt, Step, Idle
  <2>4. ASSUME NEW d, LoadForRotation(w, d), ~Fail(w)
        PROVE  FrameShape(req'[w])
    <3> DEFINE r == [tokens[f.cred.id] EXCEPT !.exp = now + Days(d)]
    <3>1. f.cred.id \in DOMAIN tokens /\ f.op = "rotate"
      BY <2>4 DEF LoadForRotation, At
    <3>2. SessionShape(r)
      BY <3>1 DEF SessionShape, Shaped, TypeOK, Row
    <3>3. Goto(w, [f EXCEPT !.pc = "save", !.row = r])
      BY <2>4 DEF LoadForRotation, Step
    <3> HIDE DEF r
    <3> QED BY <3>1, <3>2, <3>3, <1>b, <1>f DEF Idle
  <2>5. CASE SaveRotation(w)
    <3>1. ASSUME NEW c, Goto(w, [f EXCEPT !.pc = "reply", !.cred = c])
          PROVE  FrameShape(req'[w])
      BY <3>1, <1>0, <1>f DEF Idle
    <3> QED BY <2>5, <3>1 DEF SaveRotation
  <2> QED
    BY <1>3, <1>h, <2>1, <2>2, <2>3, <2>4, <2>5 DEF AuthNext, RotationStale
<1>4. CASE DeleteNext(w)
  <2>1. ASSUME NEW u, NEW i, BeginDelete(w, u, i)
        PROVE  FrameShape(req'[w])
    BY <2>1, <1>b, <1>n DEF BeginDelete, Step, Idle
  <2>2. CASE RemoveToken(w)
    BY <2>2, <1>0, <1>f, <1>h DEF RemoveToken, Step, Idle
  <2>3. ASSUME NEW u, BeginRemoveUser(w, u)
        PROVE  FrameShape(req'[w])
    BY <2>3, <1>f, <1>n, RemovalFrame DEF FrameShape
  <2>4. ASSUME NEW u, AddUser(w, u)
        PROVE  FrameShape(req'[w])
    BY <2>4, <1>f DEF AddUser
  <2>5. ASSUME NEW i, Cascade(w, i)
        PROVE  FrameShape(req'[w])
    BY <2>5, <1>f, CascadeFrame DEF FrameShape
  <2> QED
    BY <1>4, <1>h, <1>i, <2>1, <2>2, <2>3, <2>4, <2>5
    DEF DeleteNext, DeleteMarked, DeleteRefused, RemoveUser, RemoveUserRefused
<1>5. CASE MfaNext(w)
  <2>1. ASSUME NEW u, BeginMfa(w, u)
        PROVE  FrameShape(req'[w])
    <3> DEFINE r == NewRow(u, None, SessionName, None, SessionLifetime, TRUE, FALSE)
    <3>1. SessionShape(r) /\ r.session /\ ~r.rotatable
      BY DEF SessionShape, NewRow
    <3> HIDE DEF r
    <3>2. req'[w].row = r
      BY <2>1, <1>g DEF BeginMfa, Step, Idle, r
    <3> QED BY <3>1, <3>2 DEF FrameShape
  <2>2. CASE ReadSession(w)
    BY <2>2, <1>0, <1>f, <1>h DEF ReadSession, Step, Idle
  <2>3. CASE ReplaceSession(w)
    BY <2>3, <1>0, <1>f DEF ReplaceSession, Idle
  <2>4. CASE IssueSessionJwt(w)
    BY <2>4, <1>0, <1>f, <1>h DEF IssueSessionJwt, Step, Idle
  <2> QED
    BY <1>5, <1>h, <2>1, <2>2, <2>3, <2>4 DEF MfaNext, SessionRefused
<1>6. CASE Reply(w) \/ Crash(w)
  BY <1>6, <1>i DEF Reply, Crash
<1> QED
  BY <1>1, <1>2, <1>3, <1>4, <1>5, <1>6 DEF Serve

-----------------------------------------------------------------------------
(* The constraint.                                                        *)

KeysUnique == \A i, j \in DOMAIN tokens : Key(tokens[i]) = Key(tokens[j]) => i = j

(* A row that is added has a key no row that stays has, and the shape of  *)
(* a session if it is one.                                                *)
LEMMA NewRows ==
    ASSUME TypeOK, Shaped, NEW w \in Workers, Serve(w),
           NEW i \in DOMAIN tokens' \ DOMAIN tokens
    PROVE  /\ SessionShape(tokens'[i])
           /\ \A j \in DOMAIN tokens \cap DOMAIN tokens' : Key(tokens'[i]) # Key(tokens[j])
<1> DEFINE f == req[w]
<1>f. f.row \in Row /\ SessionShape(f.row)
  BY DEF TypeOK, FrameOK, Shaped, FrameShape
<1>1. CASE InsertToken(w)
  <2> DEFINE r == Stored(f.row, fresh)
  <2>1. Key(r) = Key(f.row) /\ SessionShape(r)
    BY <1>f DEF Stored, Key, SessionShape, Row
  <2>2. tokens' = Insert(tokens, fresh, r) /\ Unique(tokens, f.row)
    BY <1>1 DEF InsertToken
  <2> HIDE DEF r
  <2>3. i = fresh /\ tokens'[i] = r
    BY <2>2 DEF Insert
  <2> QED BY <2>1, <2>2, <2>3 DEF Unique
<1>2. CASE ReplaceSession(w)
  <2> DEFINE r == [f.row EXCEPT !.value = Plain(fresh)]
             T == Delete(tokens, f.gone)
  <2>1. Key(r) = Key(f.row) /\ SessionShape(r)
    BY <1>f DEF Key, SessionShape, Row
  <2>2. tokens' = Insert(T, fresh, r) /\ Unique(T, f.row)
    BY <1>2 DEF ReplaceSession, SessionAccepted
  <2>3. fresh \notin DOMAIN tokens
    BY DEF TypeOK, Known
  <2>4. DOMAIN T \subseteq DOMAIN tokens /\ \A j \in DOMAIN T : T[j] = tokens[j]
    BY DEF Delete
  <2> HIDE DEF r, T
  <2>5. i = fresh /\ tokens'[i] = r
    BY <2>2, <2>4 DEF Insert
  <2>6. \A j \in DOMAIN tokens \cap DOMAIN tokens' : j \in DOMAIN T
    BY <2>2, <2>3 DEF Insert
  <2> QED BY <2>1, <2>2, <2>4, <2>5, <2>6 DEF Unique
<1>3. CASE SaveRotation(w) \/ SaveAttestation(w) \/ DeleteMarked(w) \/ RemoveUser(w)
  BY <1>3 DEF SaveRotation, SaveAttestation, DeleteMarked, RemoveUser, Delete
<1>4. CASE (\E u \in Users : AddUser(w, u)) \/ Reply(w) \/ Crash(w) \/ Quiet(w)
  BY <1>4 DEF AddUser, Reply, Crash, Quiet, Shared
<1> QED
  BY StepKinds, <1>1, <1>2, <1>3, <1>4

LEMMA UniqueStep ==
    ASSUME TypeOK, Shaped, KeysUnique, [Next]_vars
    PROVE  Shaped' /\ KeysUnique'
<1>1. CASE UNCHANGED vars \/ Tick
  BY <1>1 DEF vars, Tick, Shaped, KeysUnique
<1>2. ASSUME NEW w \in Workers, Serve(w)
      PROVE  Shaped' /\ KeysUnique'
  <2>1. ASSUME NEW i \in DOMAIN tokens \cap DOMAIN tokens'
        PROVE  Key(tokens'[i]) = Key(tokens[i]) /\ SessionShape(tokens'[i])
    <3>1. /\ Key(tokens'[i]) = Key(tokens[i]) /\ tokens'[i].session = tokens[i].session
      BY RowsKept
    <3>2. SessionShape(tokens[i])
      BY DEF Shaped
    <3> QED BY <3>1, <3>2 DEF SessionShape, Key
  <2>2. \A i \in DOMAIN tokens' : SessionShape(tokens'[i])
    BY <1>2, <2>1, NewRows
  <2>3. \A v \in Workers : FrameShape(req'[v])
    BY <1>2, FrameShapes, OtherFrames DEF Shaped
  <2>4. ASSUME NEW i \in DOMAIN tokens', NEW j \in DOMAIN tokens',
               Key(tokens'[i]) = Key(tokens'[j])
        PROVE  i = j
    <3>1. CASE i \in DOMAIN tokens /\ j \in DOMAIN tokens
      BY <2>1, <2>4, <3>1 DEF KeysUnique
    <3>2. CASE i \notin DOMAIN tokens /\ j \notin DOMAIN tokens
      BY <3>2, RowsKept
    <3>3. CASE i \notin DOMAIN tokens /\ j \in DOMAIN tokens
      BY <1>2, <2>1, <2>4, <3>3, NewRows
    <3>4. CASE i \in DOMAIN tokens /\ j \notin DOMAIN tokens
      BY <1>2, <2>1, <2>4, <3>4, NewRows
    <3> QED BY <3>1, <3>2, <3>3, <3>4
  <2> QED BY <2>2, <2>3, <2>4 DEF Shaped, KeysUnique
<1> QED
  BY <1>1, <1>2 DEF Next

(* Keys stay unique and sessions keep their shape.                        *)
THEOREM KeysAreUnique == Spec => [](Shaped /\ KeysUnique)
<1>1. Init => Shaped /\ KeysUnique
  BY DEF Init, Shaped, KeysUnique, FrameShape, SessionShape, Idle, NoRow
<1>2. TypeOK /\ Shaped /\ KeysUnique /\ [Next]_vars => Shaped' /\ KeysUnique'
  BY UniqueStep
<1> QED
  BY <1>1, <1>2, TypeCorrect, PTL DEF Spec

(* A user has at most one session, however many GET /mfa/jwt are served   *)
(* at once: get_session_token never finds two.                            *)
THEOREM OneSession == Spec => []OneSessionPerUser
<1>1. Shaped /\ KeysUnique => OneSessionPerUser
  <2> SUFFICES ASSUME Shaped, KeysUnique, NEW u \in Users
               PROVE  Cardinality(Sessions(tokens, u)) <= 1
    BY DEF OneSessionPerUser
  <2> DEFINE S == Sessions(tokens, u)
  <2>1. ASSUME NEW i \in S, NEW j \in S PROVE i = j
    <3>1. Key(tokens[i]) = Key(tokens[j])
      BY DEF Sessions, Shaped, SessionShape, Key
    <3> QED BY <3>1 DEF Sessions, KeysUnique
  <2>2. CASE S = {}
    BY <2>2, FS_EmptySet
  <2>3. CASE S # {}
    <3>1. PICK i \in S : S = {i}
      BY <2>1, <2>3
    <3> QED BY <3>1, FS_Singleton
  <2> QED BY <2>2, <2>3
<1> QED
  BY <1>1, KeysAreUnique, PTL

-----------------------------------------------------------------------------
(* What a request has marked, and what it has read of an attestation.     *)

(* Of the rows G those that are still there are roots or below a row of   *)
(* G.                                                                     *)
Kin(T, G, R) == \A i \in G \cap DOMAIN T : i \in R \/ T[i].parent \in G

Marking(T, n, f) ==
    /\ \A i \in f.gone : i < n
    /\ f.pc \in {"cascade", "delete", "deluser", "replace"} =>
          /\ f.op = "delete" => f.id \in f.gone /\ Kin(T, f.gone, {f.id})
          /\ f.op = "deluser" => Kin(T, f.gone, Owned(T, f.user))
          /\ f.op = "mfa" => Kin(T, f.gone, Sessions(T, f.user))
    /\ f.pc = "cascade" => f.todo \subseteq f.gone
    /\ f.pc = "session" => f.gone = {}
    /\ f.pc = "remove" /\ f.op = "mfa" =>
          f.id < n /\ (f.id \in DOMAIN T => f.id \in Sessions(T, f.user))

(* A row keeps the owner it was read with. *)
Attesting(T, n, f) ==
    /\ f.pc \in {"read", "check", "attest"} =>
          \A i \in DOMAIN f.snap : i < n /\ (i \in DOMAIN T => T[i].user = f.snap[i].user)
    /\ f.pc \in {"check", "attest"} => f.ids \subseteq DOMAIN f.snap
    /\ f.pc = "attest" => \A i \in f.ids : f.snap[i].user = f.user

(* What the row that is built will be, and whose token string was sent.   *)
Building(C, f) ==
    /\ f.op \in {"create", "admin"} => ~f.row.session
    /\ f.op = "mfa" => f.row.user = f.user
    /\ f.op = "rotate" /\ f.pc \in {"window", "issue", "load", "save"} => f.cred \in C

Lineage(T, C, n, f) == Marking(T, n, f) /\ Attesting(T, n, f) /\ Building(C, f)

(* Ids grow downwards: a parent was there before its subtokens. *)
Older(T) == \A i \in DOMAIN T : T[i].parent # None => T[i].parent < i

Lineal == Older(tokens) /\ \A w \in Workers : Lineage(tokens, creds, fresh, req[w])

(* What others do to the rows leaves kin kin. *)
LEMMA KinKept ==
    ASSUME TypeOK, [Next]_vars, NEW G, \A i \in G : i < fresh,
           NEW R, NEW Q, R \cap DOMAIN tokens' \subseteq Q, Kin(tokens, G, R)
    PROVE  Kin(tokens', G, Q)
<1> SUFFICES ASSUME NEW i \in G \cap DOMAIN tokens'
             PROVE  i \in Q \/ tokens'[i].parent \in G
  BY DEF Kin
<1>1. i \in DOMAIN tokens
  BY RowsKept DEF TypeOK
<1> QED BY <1>1, RowsKept DEF Kin

LEMMA LineageKept ==
    ASSUME TypeOK, [Next]_vars, fresh' >= fresh, fresh' \in Nat, creds \subseteq creds',
           NEW f, FrameOK(f), Lineage(tokens, creds, fresh, f)
    PROVE  Lineage(tokens', creds', fresh', f)
<1>0. /\ fresh \in Nat /\ f.gone \subseteq Nat /\ f.id \in Nat /\ f.ids \subseteq Nat
      /\ DOMAIN f.snap \subseteq f.ids
  BY DEF TypeOK, FrameOK
<1>1. \A i \in Nat : i < fresh => i < fresh' /\ (i \in DOMAIN tokens' => i \in DOMAIN tokens)
  BY <1>0, RowsKept
<1>2. \A i \in f.gone : i < fresh
  BY DEF Lineage, Marking
<1>3. \A u : /\ Owned(tokens, u) \cap DOMAIN tokens' \subseteq Owned(tokens', u)
             /\ Sessions(tokens, u) \cap DOMAIN tokens' \subseteq Sessions(tokens', u)
  BY RowsKept DEF Owned, Sessions, Key
<1>4. Marking(tokens', fresh', f)
  <2> DEFINE marked == f.pc \in {"cascade", "delete", "deluser", "replace"}
  <2>1. marked /\ f.op = "delete" => Kin(tokens', f.gone, {f.id})
    BY <1>2, KinKept DEF Lineage, Marking
  <2>2. marked /\ f.op = "deluser" => Kin(tokens', f.gone, Owned(tokens', f.user))
    BY <1>2, <1>3, KinKept DEF Lineage, Marking
  <2>3. marked /\ f.op = "mfa" => Kin(tokens', f.gone, Sessions(tokens', f.user))
    BY <1>2, <1>3, KinKept DEF Lineage, Marking
  <2>4. f.pc = "remove" /\ f.op = "mfa" =>
          f.id < fresh' /\ (f.id \in DOMAIN tokens' => f.id \in Sessions(tokens', f.user))
    BY <1>0, <1>1, <1>3 DEF Lineage, Marking
  <2> QED BY <1>0, <1>1, <1>2, <2>1, <2>2, <2>3, <2>4 DEF Lineage, Marking
<1>5. Attesting(tokens', fresh', f)
  BY <1>0, <1>1, RowsKept DEF Lineage, Attesting
<1>6. Building(creds', f)
  BY DEF Lineage, Building
<1> QED BY <1>4, <1>5, <1>6 DEF Lineage

(* What the handler has after its step, of the tables as they were before *)
(* it.                                                                    *)
LEMMA LineageFrames ==
    ASSUME TypeOK, Lineal, NEW w \in Workers, Serve(w)
    PROVE  Lineage(tokens, creds, fresh, req'[w])
<1> DEFINE f == req[w]
           r == req'[w]
           Good == Lineage(tokens, creds, fresh, r)
<1>f. /\ FrameOK(f) /\ DOMAIN f = DOMAIN Idle /\ DOMAIN req = Workers
      /\ Lineage(tokens, creds, fresh, f)
      /\ DOMAIN f.snap \subseteq f.ids /\ \A i \in DOMAIN tokens : i < fresh
  BY DEF TypeOK, FrameOK, Lineal, Known
<1>g. ASSUME NEW g, Goto(w, g) PROVE r = g
  BY <1>g, <1>f DEF Goto
(* Nothing is asked of a frame that goes on to the answer. *)
<1>0. ASSUME NEW g, Goto(w, g), g.op = f.op, g.row = f.row, g.user = f.user, g.gone = f.gone,
             g.pc \in {"retry", "reply", "jwt"}
      PROVE  Good
  <2>1. r = g
    BY <1>0, <1>g
  <2> QED BY <1>0, <1>f, <2>1 DEF Lineage, Marking, Attesting, Building
(* Nor of a new frame, but that it is built as it should be. *)
<1>b. ASSUME NEW g, Goto(w, g), g.gone = {}, g.snap = Idle.snap, Building(creds, g),
             g.pc \in {"insert", "window", "read", "session", "idle"}
      PROVE  Good
  <2>1. r = g
    BY <1>b, <1>g
  <2>2. DOMAIN g.snap = {}
    BY <1>b DEF Idle
  <2> QED BY <1>b, <2>1, <2>2 DEF Lineage, Marking, Attesting
<1>i. ASSUME Goto(w, Idle) PROVE Good
  BY <1>i, <1>b DEF Idle, Building
<1>h. ASSUME Fail(w) PROVE Good
  BY <1>h, <1>i DEF Fail
<1>1. CASE AdminNext(w)
  <2>1. ASSUME NEW u, NEW p, NEW n, NEW x, NEW life, NEW rot, BeginAdmin(w, u, p, n, x, life, rot)
        PROVE  Good
    <3> DEFINE row == NewRow(u, IF p = Blank THEN None ELSE p, n, x, life, FALSE, rot)
    <3>1. row.session = FALSE
      BY DEF NewRow
    <3> HIDE DEF row
    <3> DEFINE g == [Idle EXCEPT !.op = "admin", !.pc = "insert", !.user = u, !.asked = p,
                                 !.row = row]
    <3>2. /\ g.op = "admin" /\ g.pc = "insert" /\ g.row = row
          /\ g.gone = {} /\ g.snap = Idle.snap
      BY DEF Idle
    <3>3. Goto(w, g)
      BY <2>1 DEF BeginAdmin, Step, row
    <3> HIDE DEF g
    <3> QED BY <3>1, <3>2, <3>3, <1>b DEF Building
  <2>2. ASSUME NEW c, Goto(w, [f EXCEPT !.pc = "reply", !.cred = c])
        PROVE  Good
    BY <2>2, <1>0, <1>f DEF Idle
  <2>3. CASE InsertToken(w) \/ RetryLookup(w)
    BY <2>3, <2>2, <1>h DEF InsertToken, RetryLookup, Step
  <2>4. CASE InsertRefused(w)
    BY <2>4, <1>0, <1>f, <1>h DEF InsertRefused, Step, Idle
  <2> QED BY <1>1, <2>1, <2>3, <2>4 DEF AdminNext
<1>2. CASE UserNext(w)
  <2>1. ASSUME NEW u, NEW n, NEW life, NEW rot, BeginCreate(w, u, n, life, rot)
        PROVE  Good
    <3> DEFINE row == NewRow(u, None, n, None, life, FALSE, rot)
    <3>1. row.session = FALSE
      BY DEF NewRow
    <3> HIDE DEF row
    <3> DEFINE g == [Idle EXCEPT !.op = "create", !.pc = "insert", !.user = u, !.row = row]
    <3>2. /\ g.op = "create" /\ g.pc = "insert" /\ g.row = row
          /\ g.gone = {} /\ g.snap = Idle.snap
      BY DEF Idle
    <3>3. Goto(w, g)
      BY <2>1 DEF BeginCreate, Step, row
    <3> HIDE DEF g
    <3> QED BY <3>1, <3>2, <3>3, <1>b DEF Building
  <2>2. ASSUME NEW u, NEW S, BeginAttest(w, u, S)
        PROVE  Good
    BY <2>2, <1>b DEF BeginAttest, Step, Idle, Building
  <2>3. ASSUME NEW i, ReadAttested(w, i), ~Fail(w)
        PROVE  Good
    <3>1. /\ f.pc = "read" /\ f.op = "attest" /\ i \in DOMAIN tokens
          /\ r = [f EXCEPT !.snap = Insert(@, i, tokens[i]), !.todo = f.ids,
                           !.pc = IF f.ids \subseteq DOMAIN f.snap \cup {i}
                                  THEN "check" ELSE "read"]
      BY <2>3, <1>g DEF ReadAttested, At, Step
    <3>2. /\ r.op = "attest" /\ r.ids = f.ids /\ r.gone = f.gone /\ r.user = f.user
          /\ r.pc = (IF f.ids \subseteq DOMAIN f.snap \cup {i} THEN "check" ELSE "read")
          /\ r.snap = Insert(f.snap, i, tokens[i])
      BY <3>1, <1>f DEF Idle
    <3>3. /\ DOMAIN r.snap = DOMAIN f.snap \cup {i}
          /\ \A j \in DOMAIN r.snap : r.snap[j] = IF j = i THEN tokens[i] ELSE f.snap[j]
      BY <3>2 DEF Insert
    <3>4. Attesting(tokens, fresh, r)
      <4>1. \A j \in DOMAIN r.snap : j < fresh /\ (j \in DOMAIN tokens => tokens[j].user = r.snap[j].user)
        BY <3>1, <3>3, <1>f DEF Lineage, Attesting
      <4>2. r.pc = "check" => f.ids \subseteq DOMAIN r.snap
        BY <3>2, <3>3
      <4> QED BY <3>2, <4>1, <4>2 DEF Attesting
    <3> QED BY <3>2, <3>4, <1>f DEF Lineage, Marking, Building
  <2>4. ASSUME NEW i, CheckAttested(w, i), ~Fail(w)
        PROVE  Good
    <3> DEFINE pc == IF f.todo = {i} THEN "attest" ELSE "check"
    <3>1. /\ f.pc = "check" /\ f.op = "attest" /\ \A j \in f.ids : f.snap[j].user = f.user
          /\ r = [f EXCEPT !.todo = @ \ {i}, !.pc = pc] /\ pc \in {"attest", "check"}
      BY <2>4, <1>g DEF CheckAttested, At, Step
    <3> HIDE DEF pc
    <3>2. /\ r.op = "attest" /\ r.ids = f.ids /\ r.gone = f.gone /\ r.user = f.user
          /\ r.pc = pc /\ r.snap = f.snap
      BY <3>1, <1>f DEF Idle
    <3> QED BY <3>1, <3>2, <1>f DEF Lineage, Marking, Attesting, Building
  <2> QED
    BY <1>2, <1>h, <1>i, <2>1, <2>2, <2>3, <2>4
    DEF UserNext, SaveAttestation, AttestationStale
<1>3. CASE AuthNext(w)
  (* The token string stays the one that was sent. *)
  <2>0. ASSUME NEW g, Goto(w, g), g.op = f.op, f.op \in {"jwt", "rotate"}, g.cred = f.cred,
               g.gone = f.gone, f.pc \in {"window", "issue", "load"},
               g.pc \in {"issue", "load", "save", "reply"}
        PROVE  Good
    <3>1. r = g
      BY <2>0, <1>g
    <3> QED BY <2>0, <1>f, <3>1 DEF Lineage, Marking, Attesting, Building
  <2>1. ASSUME NEW op \in {"jwt", "rotate"}, NEW c \in creds, ReadToken(w, op, c)
        PROVE  Good
    BY <2>1, <1>b DEF ReadToken, Step, Idle, Building
  <2>2. CASE CheckWindow(w)
    BY <2>2, <2>0, <1>f, <1>h DEF CheckWindow, Step, Idle, At
  <2>3. CASE IssueJwt(w)
    BY <2>3, <2>0, <1>f, <1>h DEF IssueJwt, Step, Idle, At
  <2>4. ASSUME NEW d, LoadForRotation(w, d)
        PROVE  Good
    BY <2>4, <2>0, <1>f, <1>h DEF LoadForRotation, Step, Idle, At
  <2>5. CASE SaveRotation(w)
    <3>1. ASSUME NEW c, Goto(w, [f EXCEPT !.pc = "reply", !.cred = c])
          PROVE  Good
      BY <3>1, <1>0, <1>f DEF Idle
    <3> QED BY <2>5, <3>1 DEF SaveRotation
  <2> QED
    BY <1>3, <1>h, <2>1, <2>2, <2>3, <2>4, <2>5 DEF AuthNext, RotationStale
<1>4. CASE DeleteNext(w)
  <2>1. ASSUME NEW u, NEW i, BeginDelete(w, u, i)
        PROVE  Good
    <3>1. r = [Idle EXCEPT !.op = "delete", !.pc = "remove", !.user = u, !.id = i]
      BY <2>1, <1>g DEF BeginDelete, Step
    <3>2. r.op = "delete" /\ r.pc = "remove" /\ r.gone = {}
      BY <3>1 DEF Idle
    <3> QED BY <3>2 DEF Lineage, Marking, Attesting, Building
  <2>2. CASE RemoveToken(w) /\ ~Fail(w)
    <3>1. /\ f.pc = "remove" /\ f.op \in {"delete", "mfa"} /\ f.id \in DOMAIN tokens
          /\ r = [f EXCEPT !.gone = {f.id}, !.todo = {f.id}, !.pc = "cascade"]
      BY <2>2, <1>g DEF RemoveToken, At, Step
    <3>2. /\ r.op = f.op /\ r.pc = "cascade" /\ r.gone = {f.id} /\ r.todo = {f.id}
          /\ r.user = f.user /\ r.row = f.row /\ r.id = f.id
      BY <3>1, <1>f DEF Idle
    <3>3. Kin(tokens, {f.id}, {f.id})
      BY DEF Kin
    <3>4. f.op = "mfa" => Kin(tokens, {f.id}, Sessions(tokens, f.user))
      BY <3>1, <1>f DEF Lineage, Marking, Kin
    <3>5. Marking(tokens, fresh, r)
      BY <3>1, <3>2, <3>3, <3>4, <1>f DEF Marking
    <3> QED BY <3>1, <3>2, <3>5, <1>f DEF Lineage, Attesting, Building
  <2>3. ASSUME NEW u, BeginRemoveUser(w, u)
        PROVE  Good
    <3>1. /\ Kin(tokens, Owned(tokens, u), Owned(tokens, u))
          /\ \A i \in Owned(tokens, u) : i < fresh
      BY <1>f DEF Kin, Owned
    <3>2. /\ r.op = "deluser" /\ r.pc \in {"deluser", "cascade"} /\ r.user = u
          /\ r.gone = Owned(tokens, u) /\ r.todo = Owned(tokens, u)
      BY <2>3, <1>f, RemovalFrame DEF Entered
    <3>3. Marking(tokens, fresh, r)
      BY <3>1, <3>2 DEF Marking
    <3> QED BY <3>2, <3>3 DEF Lineage, Attesting, Building
  <2>4. ASSUME NEW u, AddUser(w, u)
        PROVE  Good
    BY <2>4, <1>f DEF AddUser
  <2>5. ASSUME NEW i, Cascade(w, i)
        PROVE  Good
    <3> DEFINE below == Children(tokens, {i})
    <3>1. /\ f.pc = "cascade" /\ f.op \in {"delete", "mfa", "deluser"} /\ i \in f.gone
          /\ Marking(tokens, fresh, f)
      BY <2>5, <1>f DEF Cascade, At, Lineage, Marking
    <3>2. /\ r.gone = f.gone \cup below /\ r.todo \subseteq r.gone
          /\ r.pc \in {"cascade", "delete", "deluser", "replace"}
          /\ r.op = f.op /\ r.user = f.user /\ r.id = f.id /\ r.row = f.row
      BY <2>5, <3>1, <1>f, CascadeFrame DEF Marking, Rest, Onward, Flush
    <3>3. \A R : Kin(tokens, f.gone, R) => Kin(tokens, r.gone, R)
      BY <3>1, <3>2 DEF Kin, Children
    <3>4. \A j \in r.gone : j < fresh
      BY <3>1, <3>2, <1>f DEF Marking, Children
    <3> HIDE DEF below
    <3>5. Marking(tokens, fresh, r)
      BY <3>1, <3>2, <3>3, <3>4 DEF Marking
    <3> QED BY <3>1, <3>2, <3>5, <1>f DEF Lineage, Attesting, Building
  <2> QED
    BY <1>4, <1>h, <1>i, <2>1, <2>2, <2>3, <2>4, <2>5
    DEF DeleteNext, DeleteMarked, DeleteRefused, RemoveUser, RemoveUserRefused
<1>5. CASE MfaNext(w)
  <2>1. ASSUME NEW u, BeginMfa(w, u)
        PROVE  Good
    <3> DEFINE row == NewRow(u, None, SessionName, None, SessionLifetime, TRUE, FALSE)
    <3>1. row.user = u
      BY DEF NewRow
    <3> HIDE DEF row
    <3> DEFINE g == [Idle EXCEPT !.op = "mfa", !.pc = "session", !.user = u, !.at = now,
                                 !.row = row]
    <3>2. /\ g.op = "mfa" /\ g.pc = "session" /\ g.row = row /\ g.user = u
          /\ g.gone = {} /\ g.snap = Idle.snap
      BY DEF Idle
    <3>3. Goto(w, g)
      BY <2>1 DEF BeginMfa, Step, row
    <3> HIDE DEF g
    <3> QED BY <3>1, <3>2, <3>3, <1>b DEF Building
  <2>2. CASE ReadSession(w) /\ ~Fail(w)
    <3>0. f.op = "mfa" /\ f.pc = "session" /\ f.gone = {} /\ f.row.user = f.user
      BY <2>2, <1>f DEF ReadSession, At, Lineage, Marking, Building
    <3>1. CASE r = [f EXCEPT !.pc = "replace"]
      <4>1. r.op = "mfa" /\ r.pc = "replace" /\ r.gone = {} /\ r.row.user = r.user
        BY <3>0, <3>1, <1>f DEF Idle
      <4> QED BY <4>1 DEF Lineage, Marking, Attesting, Building, Kin
    <3>2. ASSUME NEW i \in Sessions(tokens, f.user), NEW pc \in {"jwt", "remove"},
                 r = [f EXCEPT !.id = i, !.pc = pc]
          PROVE  Good
      <4>1. r.op = "mfa" /\ r.pc = pc /\ r.gone = {} /\ r.row.user = f.user /\ r.id = i /\ r.user = f.user
        BY <3>0, <3>2, <1>f DEF Idle
      <4>2. i < fresh
        BY <1>f DEF Sessions
      <4> QED BY <4>1, <4>2 DEF Lineage, Marking, Attesting, Building
    <3>3. \/ r = [f EXCEPT !.pc = "replace"]
          \/ \E i \in Sessions(tokens, f.user), pc \in {"jwt", "remove"} :
                r = [f EXCEPT !.id = i, !.pc = pc]
      BY <2>2, <1>g DEF ReadSession, Step
    <3> QED BY <3>1, <3>2, <3>3
  <2>3. CASE ReplaceSession(w)
    BY <2>3, <1>0, <1>f DEF ReplaceSession, Idle
  <2>4. CASE IssueSessionJwt(w)
    BY <2>4, <1>0, <1>f, <1>h DEF IssueSessionJwt, Step, Idle
  <2> QED
    BY <1>5, <1>h, <2>1, <2>2, <2>3, <2>4 DEF MfaNext, SessionRefused
<1>6. CASE Reply(w) \/ Crash(w)
  BY <1>6, <1>i DEF Reply, Crash
<1> QED
  BY <1>1, <1>2, <1>3, <1>4, <1>5, <1>6 DEF Serve

(* A parent is older than what is inserted below it. *)
LEMMA OlderStep ==
    ASSUME TypeOK, Older(tokens), NEW w \in Workers, Serve(w), [Next]_vars
    PROVE  Older(tokens')
<1> DEFINE f == req[w]
<1> SUFFICES ASSUME NEW i \in DOMAIN tokens', tokens'[i].parent # None
             PROVE  tokens'[i].parent < i
  BY DEF Older
<1>f. f.row \in Row /\ \A j \in DOMAIN tokens : j < fresh
  BY DEF TypeOK, FrameOK, Known
<1>1. CASE i \in DOMAIN tokens
  BY <1>1, RowsKept DEF Older
<1>2. CASE i \notin DOMAIN tokens
  <2>0. i = fresh
    BY <1>2, RowsKept
  <2>1. CASE InsertToken(w)
    <3> DEFINE s == Stored(f.row, fresh)
    <3>1. s.parent = f.row.parent
      BY <1>f DEF Stored, Row
    <3>2. tokens' = Insert(tokens, fresh, s) /\ f.row.parent \in DOMAIN tokens \cup {None}
      BY <2>1 DEF InsertToken, References
    <3> HIDE DEF s
    <3>3. tokens'[i] = s
      BY <2>0, <3>2 DEF Insert
    <3> QED BY <1>f, <2>0, <3>1, <3>2, <3>3
  <2>2. CASE ReplaceSession(w)
    <3> DEFINE s == [f.row EXCEPT !.value = Plain(fresh)]
               G == Delete(tokens, f.gone)
    <3>1. s.parent = f.row.parent
      BY <1>f DEF Row
    <3>2. tokens' = Insert(G, fresh, s) /\ f.row.parent \in DOMAIN G \cup {None}
      BY <2>2 DEF ReplaceSession, SessionAccepted, References
    <3>3. DOMAIN G \subseteq DOMAIN tokens
      BY DEF Delete
    <3> HIDE DEF s, G
    <3>4. tokens'[i] = s
      BY <2>0, <3>2 DEF Insert
    <3> QED BY <1>f, <2>0, <3>1, <3>2, <3>3, <3>4
  <2>3. CASE SaveRotation(w) \/ SaveAttestation(w) \/ DeleteMarked(w) \/ RemoveUser(w)
    BY <1>2, <2>3 DEF SaveRotation, SaveAttestation, DeleteMarked, RemoveUser, Delete
  <2>4. CASE (\E u \in Users : AddUser(w, u)) \/ Reply(w) \/ Crash(w) \/ Quiet(w)
    BY <1>2, <2>4 DEF AddUser, Reply, Crash, Quiet, Shared
  <2> QED BY <2>1, <2>2, <2>3, <2>4, StepKinds
<1> QED BY <1>1, <1>2

(* No number is drawn back and no token string forgotten. *)
LEMMA DrawnOnward ==
    ASSUME TypeOK, Drawn, [Next]_vars
    PROVE  fresh' \in Nat /\ fresh' >= fresh /\ creds \subseteq creds'
<1>0. fresh \in Nat
  BY DEF TypeOK
<1>1. CASE UNCHANGED vars \/ Tick
  BY <1>0, <1>1 DEF vars, Tick
<1>2. ASSUME NEW w \in Workers, Serve(w)
      PROVE  fresh' \in Nat /\ fresh' >= fresh /\ creds \subseteq creds'
  <2>1. fresh' \in {fresh, fresh + 1}
    BY <1>2, FrameNumbers
  <2>2. creds \subseteq creds'
    BY <1>2, StepKinds DEF InsertToken, SaveRotation, SaveAttestation, DeleteMarked,
       ReplaceSession, RemoveUser, AddUser, Reply, Crash, Quiet, Shared
  <2> QED BY <1>0, <2>1, <2>2
<1> QED BY <1>1, <1>2 DEF Next

LEMMA LinealStep ==
    ASSUME TypeOK, Drawn, Lineal, [Next]_vars, TypeOK'
    PROVE  Lineal'
<1>d. fresh' \in Nat /\ fresh' >= fresh /\ creds \subseteq creds'
  BY DrawnOnward
<1>1. CASE UNCHANGED vars \/ Tick
  <2>1. /\ tokens' = tokens /\ creds' = creds /\ fresh' = fresh /\ req' = req
    BY <1>1 DEF vars, Tick
  <2> QED BY <2>1 DEF Lineal
<1>2. ASSUME NEW w \in Workers, Serve(w)
      PROVE  Lineal'
  <2>1. ASSUME NEW v \in Workers
        PROVE  Lineage(tokens, creds, fresh, req'[v])
    <3>1. CASE v = w
      BY <1>2, <3>1, LineageFrames
    <3>2. CASE v # w
      BY <1>2, <3>2, OtherFrames DEF Lineal
    <3> QED BY <3>1, <3>2
  <2>2. \A v \in Workers : FrameOK(req'[v])
    BY DEF TypeOK
  <2>3. \A v \in Workers : Lineage(tokens', creds', fresh', req'[v])
    BY <1>d, <2>1, <2>2, LineageKept
  <2>4. Older(tokens')
    BY <1>2, OlderStep DEF Lineal
  <2> QED BY <2>3, <2>4 DEF Lineal
<1> QED BY <1>1, <1>2 DEF Next

LEMMA LinealAlways == Spec => []Lineal
<1>1. Init => Lineal
  BY DEF Init, Lineal, Older, Lineage, Marking, Attesting, Building, Idle
<1>2. TypeOK /\ Drawn /\ Lineal /\ [Next]_vars /\ TypeOK' => Lineal'
  BY LinealStep
<1> QED
  BY <1>1, <1>2, TypeCorrect, PTL DEF Spec

-----------------------------------------------------------------------------
(* The rows seen from above. *)

Seen(r) == [owner |-> r.user, parent |-> r.parent, secret |-> r.value.secret,
            permit |-> r.rotatable, session |-> r.session]

LEMMA AbstractedRows ==
    ASSUME NEW T
    PROVE  Abstracted(T) = [j \in DOMAIN T |-> Seen(T[j])]
BY DEF Abstracted, Seen

(* A deletion, of which some rows may have gone before. *)
LEMMA AbstractedDelete ==
    ASSUME NEW G
    PROVE  Abstracted(Delete(tokens, G)) = Crowd!Without(G \cap DOMAIN tokens)
<1> DEFINE T == Abstracted(tokens)
           D == Delete(tokens, G)
<1>1. T = [j \in DOMAIN tokens |-> Seen(tokens[j])]
  BY AbstractedRows
<1>2. Abstracted(D) = [j \in DOMAIN tokens \ G |-> Seen(tokens[j])]
  BY DEF Abstracted, Delete, Seen
<1> HIDE DEF T, D
<1>3. DOMAIN T \ (G \cap DOMAIN tokens) = DOMAIN tokens \ G
  BY <1>1
<1>4. \A j \in DOMAIN tokens \ G : T[j] = Seen(tokens[j])
  BY <1>1
<1>5. Abstracted(D) = [j \in DOMAIN T \ (G \cap DOMAIN tokens) |-> T[j]]
  BY <1>2, <1>3, <1>4
<1> QED BY <1>5 DEF Crowd!Without, T, D

(* A row added to what a table stands for. *)
Added(A, s) == [j \in DOMAIN A \cup {fresh} |-> IF j = fresh THEN Seen(s) ELSE A[j]]

LEMMA AbstractedInsert ==
    ASSUME NEW T, fresh \notin DOMAIN T, NEW s
    PROVE  Abstracted(Insert(T, fresh, s)) = Added(Abstracted(T), s)
<1> DEFINE X == Insert(T, fresh, s)
           A == Abstracted(T)
<1>1. /\ DOMAIN X = DOMAIN T \cup {fresh} /\ X[fresh] = s
      /\ \A j \in DOMAIN T : X[j] = T[j]
  BY DEF Insert
<1>2. A = [j \in DOMAIN T |-> Seen(T[j])] /\ Abstracted(X) = [j \in DOMAIN X |-> Seen(X[j])]
  BY AbstractedRows
<1> HIDE DEF X, A
<1>3. DOMAIN A = DOMAIN T /\ \A j \in DOMAIN T : A[j] = Seen(T[j])
  BY <1>2
<1>4. \A j \in DOMAIN X : Seen(X[j]) = IF j = fresh THEN Seen(s) ELSE A[j]
  BY <1>1, <1>3
<1>5. Abstracted(X) = [j \in DOMAIN A \cup {fresh} |-> IF j = fresh THEN Seen(s) ELSE A[j]]
  BY <1>1, <1>2, <1>3, <1>4
<1> QED BY <1>5 DEF Added, X, A

(* A row whose secret is traded, seen from above. *)
LEMMA SeenTraded ==
    ASSUME NEW x, NEW n
    PROVE  [Seen(x) EXCEPT !.secret = n, !.permit = FALSE] =
             [owner |-> x.user, parent |-> x.parent, secret |-> n,
              permit |-> FALSE, session |-> x.session]
<1> DEFINE F == {"owner", "parent", "secret", "permit", "session"}
           s == Seen(x)
           y == [s EXCEPT !.secret = n, !.permit = FALSE]
           r == [owner |-> x.user, parent |-> x.parent, secret |-> n,
                 permit |-> FALSE, session |-> x.session]
<1>1. DOMAIN s = F /\ s.owner = x.user /\ s.parent = x.parent /\ s.session = x.session
  BY DEF Seen
<1>2. /\ r = [f \in F |-> r[f]] /\ r.owner = x.user /\ r.parent = x.parent
      /\ r.session = x.session /\ r.secret = n /\ r.permit = FALSE
  OBVIOUS
<1> HIDE DEF s, r
<1>3. y = [f \in F |-> y[f]]
  BY <1>1
<1>4. \A f \in F : y[f] = r[f]
  BY <1>1, <1>2
<1>5. y = r
  BY <1>2, <1>3, <1>4
<1> QED BY <1>5 DEF r, s

(* What a rotation leaves of a row. *)
LEMMA AbstractedTrade ==
    ASSUME TypeOK, NEW w \in Workers, SaveRotation(w)
    PROVE  LET i == req[w].cred.id IN
           Abstracted(tokens') =
             [Abstracted(tokens) EXCEPT ![i].secret = fresh, ![i].permit = FALSE]
<1> DEFINE f == req[w]
           i == f.cred.id
           T == Abstracted(tokens)
<1>1. /\ i \in DOMAIN tokens /\ tokens[i] \in Row
      /\ tokens' = [tokens EXCEPT ![i].value = Hashed(fresh), ![i].exp = f.row.exp,
                                  ![i].rotatable = FALSE]
  BY DEF SaveRotation, TypeOK
<1>2. /\ DOMAIN tokens' = DOMAIN tokens
      /\ \A j \in DOMAIN tokens : j # i => tokens'[j] = tokens[j]
  BY <1>1
<1>3. Seen(tokens'[i]) = [Seen(tokens[i]) EXCEPT !.secret = fresh, !.permit = FALSE]
  <2>1. /\ tokens'[i].user = tokens[i].user /\ tokens'[i].parent = tokens[i].parent
        /\ tokens'[i].value = Hashed(fresh) /\ tokens'[i].rotatable = FALSE
        /\ tokens'[i].session = tokens[i].session
    BY <1>1 DEF Row
  <2>2. Hashed(fresh).secret = fresh
    BY DEF Hashed
  <2>3. Seen(tokens'[i]) =
          [owner |-> tokens[i].user, parent |-> tokens[i].parent, secret |-> fresh,
           permit |-> FALSE, session |-> tokens[i].session]
    BY <2>1, <2>2 DEF Seen
  <2> QED BY <2>3, SeenTraded
<1>4. /\ Abstracted(tokens') = [j \in DOMAIN tokens |-> Seen(tokens'[j])]
      /\ T = [j \in DOMAIN tokens |-> Seen(tokens[j])]
  BY <1>2, AbstractedRows
<1> HIDE DEF T
<1>5. Abstracted(tokens') = [T EXCEPT ![i].secret = fresh, ![i].permit = FALSE]
  BY <1>1, <1>2, <1>3, <1>4
<1> QED BY <1>5 DEF T

LEMMA ToldMore ==
    ASSUME NEW C, NEW c
    PROVE  Told(C \cup {c}) = Told(C) \cup {<<c.id, c.value.secret>>}
BY DEF Told

-----------------------------------------------------------------------------
(* Families. *)

(* What can be removed of kin is a family of what there is. *)
LEMMA KinIsFamily ==
    ASSUME TypeOK, NothingLeftBehind, NEW G, G \subseteq Nat, Removable(tokens, G),
           NEW R, R \subseteq G \cap DOMAIN tokens, Kin(tokens, G, R)
    PROVE  Crowd!Family(G \cap DOMAIN tokens, R)
<1> DEFINE T == Abstracted(tokens)
           S == G \cap DOMAIN tokens
<1>1. DOMAIN T = DOMAIN tokens /\ \A i \in DOMAIN tokens : T[i].parent = tokens[i].parent
  BY DEF Abstracted
<1>2. \A i \in DOMAIN tokens : tokens[i].parent \in S => i \in S
  BY DEF Removable, Children
<1>3. \A i \in S \ R : tokens[i].parent \in S
  <2> SUFFICES ASSUME NEW i \in S \ R PROVE tokens[i].parent \in S
    OBVIOUS
  <2>1. tokens[i].parent \in G
    BY DEF Kin
  <2>2. tokens[i].parent \in DOMAIN tokens
    BY <2>1, StoreAssumption DEF NothingLeftBehind, References
  <2> QED BY <2>1, <2>2
<1> HIDE DEF T
<1>4. \A i \in DOMAIN T : T[i].parent \in S => i \in S
  BY <1>1, <1>2
<1>5. \A i \in S \ R : T[i].parent \in S
  BY <1>1, <1>3
<1>6. R \subseteq S /\ S \subseteq DOMAIN T
  BY <1>1
<1> QED BY <1>4, <1>5, <1>6 DEF Crowd!Family, T

LEMMA Least ==
    ASSUME NEW S, S \subseteq Nat, S # {}
    PROVE  \E x \in S : \A y \in S : ~(y < x)
<1> DEFINE R == OpToRel(<, Nat)
<1>1. IsWellFoundedOn(R, Nat)
  BY NatLessThanWellFounded
<1>2. \A x, y \in Nat : y < x => <<y, x>> \in R
  BY DEF OpToRel
<1> HIDE DEF R
<1>3. \E x \in S : \A y \in S : ~ (<<y, x>> \in R)
  BY <1>1, WFMin
<1> QED BY <1>2, <1>3

(* Once the roots have gone, so has all their kin: the oldest of it would *)
(* have a parent still older.                                             *)
LEMMA NoOrphans ==
    ASSUME TypeOK, NothingLeftBehind, Older(tokens), NEW G, G \subseteq Nat,
           NEW R, R \cap DOMAIN tokens = {}, Kin(tokens, G, R)
    PROVE  G \cap DOMAIN tokens = {}
<1> DEFINE S == G \cap DOMAIN tokens
<1> SUFFICES ASSUME S # {} PROVE FALSE
  OBVIOUS
<1>1. PICK x \in S : \A y \in S : ~(y < x)
  BY Least
<1>2. tokens[x].parent \in G
  BY DEF Kin
<1>3. tokens[x].parent \in S /\ tokens[x].parent < x
  BY <1>2, StoreAssumption DEF NothingLeftBehind, References, Older
<1> QED BY <1>1, <1>3

-----------------------------------------------------------------------------
(* Every commit is one step of the service, on the rows as they are then. *)

LEMMA InsertSerial ==
    ASSUME TypeOK, Lineal, NEW w \in Workers, InsertToken(w)
    PROVE  Crowd!Manage
<1> DEFINE f == req[w]
           s == Stored(f.row, fresh)
           T == Abstracted(tokens)
<1>1. /\ tokens' = Insert(tokens, fresh, s) /\ f.op \in {"create", "admin"}
      /\ users' = users /\ creds' = creds /\ fresh' = fresh + 1
      /\ f.row.user \in users /\ f.row.parent \in DOMAIN tokens \cup {None}
  BY DEF InsertToken, At, References
<1>2. f.row \in Row /\ f.row.session = FALSE /\ f.row.rotatable \in BOOLEAN
  <2>1. f.row \in Row /\ ~f.row.session
    BY <1>1 DEF Lineal, Lineage, Building, TypeOK, FrameOK
  <2> QED BY <2>1 DEF Row
<1>3. Seen(s) = [owner |-> f.row.user, parent |-> f.row.parent, secret |-> fresh,
                 permit |-> f.row.rotatable, session |-> FALSE]
  BY <1>2 DEF Seen, Stored, Row, Plain, Hashed
<1>4. DOMAIN T = DOMAIN tokens /\ f.row.user \in Users /\ fresh \notin DOMAIN tokens
  BY <1>1 DEF Abstracted, TypeOK, Known
<1> HIDE DEF s
<1>5. Abstracted(tokens') = Crowd!With(T, f.row.user, f.row.parent, f.row.rotatable, FALSE)
  <2>1. Abstracted(tokens') = Added(T, s)
    BY <1>1, <1>4, AbstractedInsert
  <2> HIDE DEF T
  <2> QED BY <1>3, <2>1 DEF Added, Crowd!With
<1>6. Crowd!Create(f.row.user, f.row.parent, f.row.rotatable)
  BY <1>1, <1>5 DEF Crowd!Create
<1> QED
  BY <1>1, <1>2, <1>4, <1>6 DEF Crowd!Manage

LEMMA AttestationSerial ==
    ASSUME TypeOK, NothingLeftBehind, Lineal, NEW w \in Workers, SaveAttestation(w)
    PROVE  Crowd!Manage \/ UNCHANGED Crowd!vars
<1> DEFINE f == req[w]
           T == Abstracted(tokens)
           S == Dirty(f)
<1>1. /\ f.pc = "attest" /\ users' = users /\ creds' = creds /\ fresh' = fresh
      /\ S \subseteq DOMAIN tokens
      /\ tokens' = [i \in DOMAIN tokens |->
                      IF i \in S THEN [tokens[i] EXCEPT !.rotatable = TRUE] ELSE tokens[i]]
  BY DEF SaveAttestation, At
<1>2. \A i \in S : i \in DOMAIN tokens /\ tokens[i].user = f.user /\ tokens[i].user \in Users
  BY <1>1 DEF Lineal, Lineage, Attesting, Dirty, NothingLeftBehind, References, TypeOK
<1> HIDE DEF S
<1>3. T = [i \in DOMAIN tokens |-> Seen(tokens[i])]
  BY AbstractedRows
<1>4. \A i \in DOMAIN tokens :
        Seen(tokens'[i]) = IF i \in S THEN [Seen(tokens[i]) EXCEPT !.permit = TRUE]
                           ELSE Seen(tokens[i])
  <2> SUFFICES ASSUME NEW i \in DOMAIN tokens
               PROVE  Seen(tokens'[i]) = IF i \in S
                                         THEN [Seen(tokens[i]) EXCEPT !.permit = TRUE]
                                         ELSE Seen(tokens[i])
    OBVIOUS
  <2>1. tokens[i] \in Row
    BY DEF TypeOK
  <2> QED BY <1>1, <2>1 DEF Seen, Row
<1>5. Abstracted(tokens') = [i \in DOMAIN tokens |-> Seen(tokens'[i])]
  <2>1. DOMAIN tokens' = DOMAIN tokens
    BY <1>1
  <2> QED BY <2>1, AbstractedRows
<1>6. Abstracted(tokens') =
        [i \in DOMAIN T |-> IF i \in S THEN [T[i] EXCEPT !.permit = TRUE] ELSE T[i]]
  BY <1>3, <1>4, <1>5
<1>7. S \subseteq Crowd!Owned(f.user)
  BY <1>2, <1>3 DEF Crowd!Owned, Seen
<1>8. CASE S = {}
  BY <1>1, <1>3, <1>6, <1>8 DEF Crowd!vars
<1>9. CASE S # {}
  <2>1. f.user \in Users /\ S \in SUBSET DOMAIN T
    BY <1>2, <1>3, <1>9
  <2>2. Crowd!Attest(f.user, S)
    BY <1>1, <1>6, <1>7 DEF Crowd!Attest
  <2> QED BY <2>1, <2>2 DEF Crowd!Manage
<1> QED
  BY <1>8, <1>9

(* Nothing is left to delete: no step is seen from above. *)
LEMMA NothingDeleted ==
    ASSUME NEW G, G \cap DOMAIN tokens = {}, tokens' = Delete(tokens, G),
           users' = users, creds' = creds, fresh' = fresh
    PROVE  UNCHANGED Crowd!vars
<1> DEFINE T == Abstracted(tokens)
<1>1. Abstracted(tokens') = [j \in DOMAIN T |-> T[j]]
  BY AbstractedDelete DEF Crowd!Without
<1>2. T = [j \in DOMAIN tokens |-> Seen(tokens[j])]
  BY AbstractedRows
<1> HIDE DEF T
<1>3. Abstracted(tokens') = T
  BY <1>1, <1>2
<1> QED BY <1>3 DEF Crowd!vars, T

(* A deletion refused for nothing takes the family as it is now, though   *)
(* it was marked before; if somebody else took the root, nothing is left  *)
(* to take.                                                               *)
LEMMA DeletionSerial ==
    ASSUME TypeOK, NothingLeftBehind, Lineal, NEW w \in Workers, DeleteMarked(w) \/ RemoveUser(w)
    PROVE  Crowd!Manage \/ UNCHANGED Crowd!vars
<1> DEFINE f == req[w]
           T == Abstracted(tokens)
           S == f.gone \cap DOMAIN tokens
<1>1. /\ tokens' = Delete(tokens, f.gone) /\ creds' = creds /\ fresh' = fresh
      /\ Removable(tokens, f.gone) /\ Marking(tokens, fresh, f)
  BY DEF DeleteMarked, RemoveUser, UserRemovable, Lineal, Lineage
<1>2. /\ DOMAIN T = DOMAIN tokens /\ \A i \in DOMAIN tokens : T[i].owner = tokens[i].user
      /\ f.gone \subseteq Nat /\ S \in SUBSET DOMAIN T /\ Older(tokens)
  BY DEF Abstracted, TypeOK, FrameOK, Lineal
<1>3. Abstracted(tokens') = Crowd!Without(S)
  BY <1>1, AbstractedDelete
<1>4. CASE DeleteMarked(w)
  <2>1. f.id \in f.gone /\ Kin(tokens, f.gone, {f.id}) /\ users' = users
    BY <1>1, <1>4 DEF DeleteMarked, At, Marking
  <2>2. CASE f.id \in DOMAIN tokens
    <3>1. Crowd!Family(S, {f.id})
      BY <1>1, <1>2, <2>1, <2>2, KinIsFamily
    <3>2. Crowd!Remove(f.id, S)
      BY <1>1, <1>3, <2>1, <3>1 DEF Crowd!Remove
    <3> QED BY <1>2, <2>2, <3>2 DEF Crowd!Manage
  <2>3. CASE f.id \notin DOMAIN tokens
    <3>1. {f.id} \cap DOMAIN tokens = {}
      BY <2>3
    <3>2. S = {}
      BY <1>2, <2>1, <3>1, NoOrphans
    <3> QED BY <1>1, <2>1, <3>2, NothingDeleted
  <2> QED BY <2>2, <2>3
<1>5. CASE RemoveUser(w)
  <2> DEFINE own == Owned(tokens, f.user)
  <2>1. Kin(tokens, f.gone, own) /\ users' = users \ {f.user} /\ own \subseteq f.gone
    BY <1>1, <1>5 DEF RemoveUser, UserRemovable, At, Marking
  <2>2. own \subseteq DOMAIN tokens /\ Crowd!Owned(f.user) = own
    BY <1>2 DEF Owned, Crowd!Owned
  <2>3. CASE f.user \in users
    <3> HIDE DEF own
    <3>1. Crowd!Family(S, own)
      BY <1>1, <1>2, <2>1, <2>2, KinIsFamily
    <3>2. Crowd!Close(f.user, S)
      BY <1>1, <1>3, <2>1, <2>2, <2>3, <3>1 DEF Crowd!Close
    <3>3. f.user \in Users
      BY <2>3 DEF TypeOK
    <3> QED BY <1>2, <3>2, <3>3 DEF Crowd!Manage
  <2>4. CASE f.user \notin users
    <3>1. own = {}
      BY <2>4 DEF Owned, NothingLeftBehind, References
    <3> HIDE DEF own
    <3>2. S = {}
      BY <1>2, <2>1, <3>1, NoOrphans
    <3>3. users' = users
      BY <2>1, <2>4
    <3> QED BY <1>1, <3>2, <3>3, NothingDeleted
  <2> QED BY <2>3, <2>4
<1> QED
  BY <1>4, <1>5

(* A session that is accepted leaves no other: the UNIQUE constraint sees *)
(* to it that every session of the user had been marked.                  *)
LEMMA SessionSerial ==
    ASSUME TypeOK, Shaped, NothingLeftBehind, Lineal, NEW w \in Workers, ReplaceSession(w)
    PROVE  Crowd!Manage
<1> DEFINE f == req[w]
           s == [f.row EXCEPT !.value = Plain(fresh)]
           D == Delete(tokens, f.gone)
           T == Abstracted(tokens)
           R == Sessions(tokens, f.user)
           S == f.gone \cap DOMAIN tokens
<1>1. /\ tokens' = Insert(D, fresh, s) /\ f.op = "mfa" /\ f.pc = "replace"
      /\ users' = users /\ creds' = creds /\ fresh' = fresh + 1
      /\ f.row.user \in users /\ Removable(tokens, f.gone) /\ Unique(D, f.row)
  BY DEF ReplaceSession, At, SessionAccepted, References
<1>2. f.row \in Row /\ SessionShape(f.row) /\ f.row.session /\ ~f.row.rotatable
  BY <1>1 DEF TypeOK, FrameOK, Shaped, FrameShape
<1>3. f.row.user = f.user /\ Kin(tokens, f.gone, R) /\ f.gone \subseteq Nat
  BY <1>1 DEF Lineal, Lineage, Marking, Building, TypeOK, FrameOK
<1>4. Seen(s) = [owner |-> f.user, parent |-> None, secret |-> fresh,
                 permit |-> FALSE, session |-> TRUE]
  <2>1. /\ s.user = f.user /\ s.parent = None /\ s.value = Plain(fresh)
        /\ s.rotatable = FALSE /\ s.session = TRUE
    BY <1>2, <1>3 DEF Row, SessionShape
  <2>2. Plain(fresh).secret = fresh
    BY DEF Plain
  <2> HIDE DEF s
  <2> QED BY <2>1, <2>2 DEF Seen
<1>5. \A i \in DOMAIN tokens : tokens[i].session => SessionShape(tokens[i])
  BY DEF Shaped
<1>6. R \subseteq DOMAIN tokens /\ Crowd!Session(f.user) = R /\ DOMAIN T = DOMAIN tokens
  <2>1. /\ DOMAIN T = DOMAIN tokens
        /\ \A i \in DOMAIN tokens : /\ T[i].owner = tokens[i].user
                                    /\ T[i].session = tokens[i].session
    BY DEF Abstracted
  <2> QED BY <1>5, <2>1 DEF SessionShape, Sessions, Crowd!Session, Crowd!Owned
<1>7. R \subseteq f.gone
  <2> SUFFICES ASSUME NEW i \in R, i \notin f.gone PROVE FALSE
    OBVIOUS
  <2>1. i \in DOMAIN D /\ D[i] = tokens[i]
    BY DEF Sessions, Delete
  <2>2. Key(tokens[i]) = Key(f.row)
    BY <1>2, <1>3, <1>5 DEF Sessions, SessionShape, Key
  <2> QED BY <1>1, <2>1, <2>2 DEF Unique
<1> HIDE DEF R
<1>8. Crowd!Family(S, R) /\ S \in SUBSET DOMAIN T
  BY <1>1, <1>3, <1>6, <1>7, KinIsFamily
<1>9. Abstracted(tokens') = Crowd!With(Crowd!Without(S), f.user, None, FALSE, TRUE)
  <2>1. Abstracted(D) = Crowd!Without(S)
    BY AbstractedDelete
  <2>2. fresh \notin DOMAIN D
    BY DEF Delete, TypeOK, Known
  <2> HIDE DEF D, s
  <2>3. Abstracted(tokens') = Added(Abstracted(D), s)
    <3>1. tokens' = Insert(D, fresh, s)
      BY <1>1
    <3>2. Abstracted(Insert(D, fresh, s)) = Added(Abstracted(D), s)
      BY <2>2, AbstractedInsert
    <3> QED BY <3>1, <3>2
  <2> DEFINE A == Abstracted(D)
  <2> HIDE DEF A
  <2>4. Abstracted(tokens') = Crowd!With(A, f.user, None, FALSE, TRUE)
    BY <1>4, <2>3 DEF Added, Crowd!With, A
  <2> QED BY <2>1, <2>4 DEF A
<1>10. Crowd!Renew(f.user, S)
  BY <1>1, <1>3, <1>6, <1>8, <1>9 DEF Crowd!Renew
<1> QED
  BY <1>1, <1>3, <1>8, <1>10 DEF Crowd!Manage, TypeOK

(* What a worker does to the tables, but for a rotation. *)
LEMMA ManageSerial ==
    ASSUME TypeOK, Shaped, NothingLeftBehind, Lineal, NEW w \in Workers, Serve(w)
    PROVE  Crowd!Manage \/ UNCHANGED Crowd!vars \/ SaveRotation(w) \/ Reply(w)
<1>1. CASE InsertToken(w) \/ SaveAttestation(w) \/ DeleteMarked(w)
           \/ ReplaceSession(w) \/ RemoveUser(w)
  BY <1>1, InsertSerial, AttestationSerial, DeletionSerial, SessionSerial
<1>2. CASE \E u \in Users : AddUser(w, u)
  <2>1. PICK u \in Users : AddUser(w, u)
    BY <1>2
  <2>2. Crowd!Open(u)
    BY <2>1 DEF AddUser, Crowd!Open
  <2> QED BY <2>2 DEF Crowd!Manage
<1>3. CASE Crash(w) \/ Quiet(w)
  BY <1>3 DEF Crash, Quiet, Shared, Crowd!vars
<1> QED BY <1>1, <1>2, <1>3, StepKinds

(* A response brings its token string to the client. *)
LEMMA ReplyTells ==
    ASSUME TypeOK, Drawn, NEW w \in Workers, Reply(w)
    PROVE  LET c == req[w].cred IN
           /\ c.id \in 0 .. fresh - 1 /\ c.value.secret \in 0 .. fresh - 1
           /\ UNCHANGED <<users, tokens, fresh>>
           /\ IF req[w].op \in Issuing
              THEN Told(creds') = Told(creds) \cup {<<c.id, c.value.secret>>}
              ELSE creds' = creds
<1> DEFINE f == req[w]
<1>1. f.cred.id \in 0 .. fresh - 1 /\ f.cred.value.secret \in 0 .. fresh - 1
  BY DEF TypeOK, FrameOK, Cred, Value, Drawn, FrameDrawn
<1>2. /\ UNCHANGED <<users, tokens, fresh>>
      /\ creds' = IF f.op \in Issuing THEN creds \cup {f.cred} ELSE creds
  BY DEF Reply
<1>3. Told(creds \cup {f.cred}) = Told(creds) \cup {<<f.cred.id, f.cred.value.secret>>}
  BY ToldMore, Zenon
<1> QED BY <1>1, <1>2, <1>3

LEMMA StepSerial ==
    ASSUME TypeOK, Drawn, Shaped, NothingLeftBehind, Lineal, [Next]_vars
    PROVE  [Crowd!Next]_(Crowd!vars)
<1>1. CASE UNCHANGED vars \/ Tick
  BY <1>1 DEF vars, Tick, Crowd!vars
<1>2. ASSUME NEW w \in Workers, Serve(w)
      PROVE  [Crowd!Next]_(Crowd!vars)
  <2> DEFINE f == req[w]
  <2>1. CASE SaveRotation(w)
    <3>1. /\ f.cred.id \in DOMAIN tokens /\ users' = users /\ creds' = creds
          /\ fresh' = fresh + 1 /\ f.cred \in creds
      BY <2>1 DEF SaveRotation, At, Lineal, Lineage, Building
    <3>2. \E k \in Told(creds) : k[1] = f.cred.id
      <4>1. <<f.cred.id, f.cred.value.secret>> \in Told(creds)
        BY <3>1, Zenon DEF Told
      <4> QED BY <4>1
    <3>3. Crowd!Rotate(f.cred.id)
      BY <2>1, <3>1, <3>2, AbstractedTrade DEF Crowd!Rotate
    <3>4. f.cred.id \in DOMAIN Abstracted(tokens)
      BY <3>1 DEF Abstracted
    <3> QED BY <3>3, <3>4 DEF Crowd!Next
  <2>2. CASE Reply(w)
    <3>1. CASE f.op \in Issuing
      <4>1. Crowd!Tell(f.cred.id, f.cred.value.secret)
        BY <2>2, <3>1, ReplyTells DEF Crowd!Tell
      <4> QED BY <2>2, <4>1, ReplyTells DEF Crowd!Next
    <3>2. CASE f.op \notin Issuing
      BY <2>2, <3>2, ReplyTells DEF Crowd!vars
    <3> QED BY <3>1, <3>2
  <2> QED BY <1>2, <2>1, <2>2, ManageSerial DEF Crowd!Next
<1> QED
  BY <1>1, <1>2 DEF Next

(* However many processes serve, the handlers implement the service whose *)
(* every commit is one promise kept on the rows as they are.              *)
THEOREM SerialRefinement == Spec => HandlersSerial
<1>1. Init => Crowd!Init
  <2> SUFFICES ASSUME Init PROVE Crowd!Init
    OBVIOUS
  <2>1. Abstracted(tokens) = [i \in {} |-> None]
    BY DEF Init, Abstracted
  <2> QED BY <2>1 DEF Init, Crowd!Init, Told
<1>2. TypeOK /\ Drawn /\ Shaped /\ NothingLeftBehind /\ Lineal /\ [Next]_vars =>
         [Crowd!Next]_(Crowd!vars)
  BY StepSerial
<1> QED
  BY <1>1, <1>2, TypeCorrect, KeysAreUnique, NothingIsLeftBehind, LinealAlways, PTL
  DEF Spec, HandlersSerial, Crowd!Spec
=============================================================================
