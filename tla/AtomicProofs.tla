----------------------------- MODULE AtomicProofs ------------------------------
(***************************************************************************)
(* With one process, TokenLifecycle implements AtomicTokens, and every     *)
(* answer is sound: what the one request under way has read is what the    *)
(* tables hold when it commits and when it answers.                        *)
(***************************************************************************)
EXTENDS RotationProofs

-----------------------------------------------------------------------------
(* What the one frame says of the tables.  Each part is about one kind of *)
(* request.                                                               *)

(* The credential of the request is one a client holds, of a row that is  *)
(* there, and once checked it carries the row's secret.                   *)
Presented(T, C, f) ==
    f.pc \in {"window", "issue", "load", "save"} =>
        /\ f.cred \in C /\ f.cred.id \in DOMAIN T
        /\ T[f.cred.id].parent = f.row.parent
        /\ f.pc = "window" => f.row = T[f.cred.id]
        /\ f.pc # "window" => T[f.cred.id].value.secret = f.cred.value.secret

(* A token string about to be answered carries the row's secret. *)
Answered(T, f) ==
    f.pc = "reply" /\ f.op \in Issuing =>
        /\ f.cred.id \in DOMAIN T
        /\ T[f.cred.id].value.secret = f.cred.value.secret
        /\ f.op = "rotate" => /\ T[f.cred.id].parent = f.row.parent
                              /\ T[f.cred.id].value = Hashed(f.cred.value.secret)
                              /\ f.cred.value = Plain(f.cred.value.secret)

(* A token built on request is no session; a refused insert found the row *)
(* it was refused for.                                                    *)
Administered(T, f) ==
    /\ f.op = "create" /\ f.pc = "insert" => f.row.session = FALSE
    /\ f.op = "admin" =>
        /\ f.pc \in {"insert", "retry"} =>
              f.row.session = FALSE /\ f.row.parent = IF f.asked = Blank THEN None ELSE f.asked
        /\ f.pc = "retry" => \E j \in DOMAIN T : Key(T[j]) = Key(f.row)
        /\ f.pc = "reply" => /\ Key(T[f.cred.id]) = Key(f.row)
                             /\ f.row.parent # None => f.cred.value = T[f.cred.id].value

Attested(f) == f.pc = "attest" => \A i \in f.ids : f.snap[i].user = f.user

(* The cascade has marked what is below the rows it has looked below, and *)
(* in the end what is below any that it marked.                           *)
Marked(T, f) ==
    /\ f.pc = "cascade" =>
          /\ f.op \in {"delete", "mfa", "deluser"}
          /\ Children(T, f.gone \ f.todo) \subseteq f.gone
    /\ f.pc \in {"delete", "deluser", "replace"} => Removable(T, f.gone)
    /\ f.pc = "session" => f.gone = {}
    /\ f.op = "deluser" /\ f.pc \in {"cascade", "deluser"} => Owned(T, f.user) \subseteq f.gone

Renewing(T, f) ==
    /\ f.pc \in {"session", "remove", "cascade", "replace"} /\ f.op = "mfa" =>
          /\ f.row.user = f.user /\ f.row.nbf = f.at /\ f.row.exp = f.at + SessionLifetime
          /\ \A i \in Sessions(T, f.user) :
                T[i].nbf <= f.at /\ (f.pc = "session" \/ ~Live(T[i], f.at))
    /\ f.pc \in {"session", "replace"} => f.op = "mfa"
    /\ f.pc = "jwt" => f.op = "mfa"
    /\ f.pc \in {"jwt", "reply"} /\ f.op = "mfa" =>
          f.id \in Sessions(T, f.user) /\ (SessionLifetime > 0 => f.at < T[f.id].exp)

Faithful(T, C, f) ==
    /\ Presented(T, C, f) /\ Answered(T, f) /\ Administered(T, f)
    /\ Attested(f) /\ Marked(T, f) /\ Renewing(T, f)

AllFaithful == \A w \in Workers : Faithful(tokens, creds, req[w])

(* No clock reading and no session is of the future. *)
Past ==
    /\ \A w \in Workers : req[w].at <= now
    /\ \A i \in DOMAIN tokens : tokens[i].session => tokens[i].nbf <= now

-----------------------------------------------------------------------------
(* The frame after each step.                                             *)

(* The frames of which nothing is asked. *)
LEMMA FreeFrame ==
    ASSUME NEW T, NEW C, NEW f,
           \/ f.pc = "idle" /\ f.op \notin {"admin", "mfa"}
           \/ f.pc = "insert" /\ f.op = "create" /\ f.row.session = FALSE
           \/ f.pc \in {"read", "check"} /\ f.op = "attest"
           \/ f.pc = "remove" /\ f.op = "delete"
           \/ f.pc = "reply" /\ f.op = "jwt"
    PROVE  Faithful(T, C, f)
BY DEF Faithful, Presented, Answered, Administered, Attested, Marked, Renewing, Issuing

LEMMA FaithfulAdmin ==
    ASSUME TypeOK, AllFaithful, NEW w \in Workers, AdminNext(w)
    PROVE  Faithful(tokens', creds', req'[w])
<1> DEFINE f == req[w]
           r == req'[w]
           Good == Faithful(tokens', creds', r)
<1>f. /\ FrameOK(f) /\ DOMAIN f = DOMAIN Idle /\ DOMAIN req = Workers
      /\ Faithful(tokens, creds, f)
  BY DEF TypeOK, FrameOK, AllFaithful
<1>g. ASSUME NEW g, Goto(w, g) PROVE r = g
  BY <1>g, <1>f DEF Goto
<1>h. ASSUME Fail(w) PROVE Good
  <2>1. r = Idle
    BY <1>h, <1>g DEF Fail
  <2> QED BY <2>1, FreeFrame DEF Idle
<1>1. ASSUME NEW u \in Users, NEW p \in Known \cup {None, Blank}, NEW n, NEW x, NEW life, NEW rot,
             BeginAdmin(w, u, p, n, x, life, rot)
      PROVE  Good
  <2> DEFINE row == NewRow(u, IF p = Blank THEN None ELSE p, n, x, life, FALSE, rot)
  <2>1. row.parent = (IF p = Blank THEN None ELSE p) /\ row.session = FALSE
    BY DEF NewRow
  <2>2. r = [Idle EXCEPT !.op = "admin", !.pc = "insert", !.user = u, !.asked = p, !.row = row]
    BY <1>1, <1>g DEF BeginAdmin, Step
  <2> HIDE DEF row
  <2>3. r.op = "admin" /\ r.pc = "insert" /\ r.asked = p /\ r.row = row
    BY <2>2 DEF Idle
  <2> QED
    BY <2>1, <2>3
    DEF Faithful, Presented, Answered, Administered, Attested, Marked, Renewing
<1>2. CASE InsertToken(w)
  <2> DEFINE s == Stored(f.row, fresh)
  <2>1. /\ tokens' = Insert(tokens, fresh, s)
        /\ r = [f EXCEPT !.pc = "reply", !.cred = [id |-> fresh, value |-> Plain(fresh)]]
        /\ f.op \in {"create", "admin"} /\ f.pc = "insert"
    BY <1>2, <1>g DEF InsertToken, At
  <2>2. /\ r.op = f.op /\ r.pc = "reply" /\ r.row = f.row
        /\ r.cred = [id |-> fresh, value |-> Plain(fresh)]
    BY <2>1, <1>f DEF Idle
  <2>3. /\ s.value.secret = fresh /\ Key(s) = Key(f.row)
        /\ f.row.parent # None => s.value = Plain(fresh)
    BY <1>f DEF Stored, FrameOK, Row, Key, Plain, Hashed
  <2> HIDE DEF s
  <2>4. fresh \in DOMAIN tokens' /\ tokens'[fresh] = s
    BY <2>1 DEF Insert
  <2>5. r.cred.id = fresh /\ r.cred.value = Plain(fresh) /\ r.cred.value.secret = fresh
    BY <2>2 DEF Plain
  <2>6. Answered(tokens', r)
    BY <2>1, <2>2, <2>3, <2>4, <2>5 DEF Answered
  <2>7. Administered(tokens', r)
    BY <2>2, <2>3, <2>4, <2>5 DEF Administered
  <2> QED
    BY <2>1, <2>2, <2>6, <2>7 DEF Faithful, Presented, Attested, Marked, Renewing
<1>3. CASE InsertRefused(w)
  <2>1. CASE Fail(w)
    BY <2>1, <1>h
  <2>2. ASSUME ~Unique(tokens, f.row), f.op = "admin", f.pc = "insert",
               Step(w, [f EXCEPT !.pc = "retry"])
        PROVE  Good
    <3>1. r = [f EXCEPT !.pc = "retry"] /\ tokens' = tokens
      BY <2>2, <1>g DEF Step
    <3>2. r.op = f.op /\ r.pc = "retry" /\ r.row = f.row /\ r.asked = f.asked
      BY <3>1, <1>f DEF Idle
    <3>3. \E j \in DOMAIN tokens : Key(tokens[j]) = Key(f.row)
      BY <2>2 DEF Unique
    <3>4. f.row.session = FALSE /\ f.row.parent = IF f.asked = Blank THEN None ELSE f.asked
      BY <1>f, <2>2 DEF Faithful, Administered
    <3> QED
      BY <2>2, <3>1, <3>2, <3>3, <3>4
      DEF Faithful, Presented, Answered, Administered, Attested, Marked, Renewing
  <2> QED BY <1>3, <2>1, <2>2 DEF InsertRefused, At
<1>4. CASE RetryLookup(w)
  <2>1. CASE Fail(w)
    BY <2>1, <1>h
  <2>2. ASSUME NEW i, Subtokens(tokens, f.row.name, f.asked, f.row.ext) = {i},
               f.op = "admin", f.pc = "retry",
               Step(w, [f EXCEPT !.pc = "reply", !.cred = [id |-> i, value |-> tokens[i].value]])
        PROVE  Good
    <3>1. /\ r = [f EXCEPT !.pc = "reply", !.cred = [id |-> i, value |-> tokens[i].value]]
          /\ tokens' = tokens
      BY <2>2, <1>g DEF Step
    <3>2. /\ r.op = f.op /\ r.pc = "reply" /\ r.row = f.row
          /\ r.cred = [id |-> i, value |-> tokens[i].value]
      BY <3>1, <1>f DEF Idle
    <3>3. PICK j \in DOMAIN tokens : Key(tokens[j]) = Key(f.row)
      BY <1>f, <2>2 DEF Faithful, Administered
    <3>4. i \in DOMAIN tokens /\ tokens[i].parent = f.asked /\ tokens[i].parent \in Nat \cup {None}
      BY <2>2 DEF Subtokens, TypeOK, Row
    <3>5. f.row.parent = f.asked
      BY <3>4, <1>f, <2>2, StoreAssumption DEF Faithful, Administered
    <3>6. j = i
      BY <2>2, <3>3, <3>5 DEF Subtokens, Key
    <3>7. r.cred.id = i /\ r.cred.value = tokens[i].value
      BY <3>2
    <3> QED
      BY <2>2, <3>1, <3>2, <3>3, <3>4, <3>6, <3>7
      DEF Faithful, Presented, Answered, Administered, Attested, Marked, Renewing
  <2> QED BY <1>4, <2>1, <2>2 DEF RetryLookup, At
<1> QED
  BY <1>1, <1>2, <1>3, <1>4 DEF AdminNext

LEMMA FaithfulUser ==
    ASSUME TypeOK, AllFaithful, NEW w \in Workers, UserNext(w)
    PROVE  Faithful(tokens', creds', req'[w])
<1> DEFINE f == req[w]
           r == req'[w]
           Good == Faithful(tokens', creds', r)
<1>f. FrameOK(f) /\ DOMAIN f = DOMAIN Idle /\ DOMAIN req = Workers
  BY DEF TypeOK, FrameOK
<1>g. ASSUME NEW g, Goto(w, g) PROVE r = g
  BY <1>g, <1>f DEF Goto
<1>i. ASSUME Goto(w, Idle) PROVE Good
  <2>1. r = Idle
    BY <1>i, <1>g
  <2> QED BY <2>1, FreeFrame DEF Idle
<1>h. ASSUME Fail(w) PROVE Good
  BY <1>h, <1>i DEF Fail
<1>1. ASSUME NEW u, NEW n, NEW life, NEW rot, BeginCreate(w, u, n, life, rot)
      PROVE  Good
  <2> DEFINE row == NewRow(u, None, n, None, life, FALSE, rot)
  <2>0. row.session = FALSE
    BY DEF NewRow
  <2> HIDE DEF row
  <2>1. r = [Idle EXCEPT !.op = "create", !.pc = "insert", !.user = u, !.row = row]
    BY <1>1, <1>g DEF BeginCreate, Step, row
  <2>2. r.op = "create" /\ r.pc = "insert" /\ r.row.session = FALSE
    BY <2>0, <2>1 DEF Idle
  <2> QED BY <2>2, FreeFrame
<1>2. ASSUME NEW u, NEW S, BeginAttest(w, u, S)
      PROVE  Good
  <2>1. r = [Idle EXCEPT !.op = "attest", !.pc = "read", !.user = u, !.ids = S, !.at = now]
    BY <1>2, <1>g DEF BeginAttest, Step
  <2>2. r.op = "attest" /\ r.pc = "read"
    BY <2>1 DEF Idle
  <2> QED BY <2>2, FreeFrame
<1>3. ASSUME NEW i, ReadAttested(w, i), ~Fail(w)
      PROVE  Good
  <2> DEFINE snap == Insert(f.snap, i, tokens[i])
             pc == IF f.ids \subseteq DOMAIN f.snap \cup {i} THEN "check" ELSE "read"
  <2> HIDE DEF snap
  <2>1. r = [f EXCEPT !.snap = snap, !.todo = f.ids, !.pc = pc] /\ f.op = "attest"
    BY <1>3, <1>g DEF ReadAttested, Step, At, snap
  <2>2. r.op = "attest" /\ r.pc \in {"read", "check"}
    BY <2>1, <1>f DEF Idle
  <2> QED BY <2>2, FreeFrame
<1>4. ASSUME NEW i, CheckAttested(w, i), ~Fail(w)
      PROVE  Good
  <2> DEFINE pc == IF f.todo = {i} THEN "attest" ELSE "check"
  <2>1. /\ r = [f EXCEPT !.todo = @ \ {i}, !.pc = pc] /\ f.op = "attest"
        /\ \A j \in f.ids : f.snap[j].user = f.user
        /\ pc \in {"attest", "check"}
    BY <1>4, <1>g DEF CheckAttested, Step, At
  <2> HIDE DEF pc
  <2>2. /\ r.op = "attest" /\ r.pc = pc /\ r.ids = f.ids /\ r.snap = f.snap
        /\ r.user = f.user
    BY <2>1, <1>f DEF Idle
  <2> QED
    BY <2>1, <2>2
    DEF Faithful, Presented, Answered, Administered, Attested, Marked, Renewing, Issuing
<1> QED
  BY <1>1, <1>2, <1>3, <1>4, <1>h, <1>i DEF UserNext, SaveAttestation, AttestationStale

LEMMA FaithfulAuth ==
    ASSUME TypeOK, AllFaithful, NEW w \in Workers, AuthNext(w)
    PROVE  Faithful(tokens', creds', req'[w])
<1> DEFINE f == req[w]
           r == req'[w]
           Good == Faithful(tokens', creds', r)
<1>f. /\ FrameOK(f) /\ DOMAIN f = DOMAIN Idle /\ DOMAIN req = Workers
      /\ Presented(tokens, creds, f)
  BY DEF TypeOK, FrameOK, AllFaithful, Faithful
<1>g. ASSUME NEW g, Goto(w, g) PROVE r = g
  BY <1>g, <1>f DEF Goto
<1>h. ASSUME Fail(w) PROVE Good
  <2>1. r = Idle
    BY <1>h, <1>g DEF Fail
  <2> QED BY <2>1, FreeFrame DEF Idle
<1>p. ASSUME Presented(tokens', creds', r), r.pc \in {"window", "issue", "load", "save"},
             r.op \in {"jwt", "rotate"}
      PROVE  Good
  BY <1>p DEF Faithful, Answered, Administered, Attested, Marked, Renewing
<1>1. ASSUME NEW op \in {"jwt", "rotate"}, NEW c \in creds, ReadToken(w, op, c)
      PROVE  Good
  <2>1. /\ r = [Idle EXCEPT !.op = op, !.pc = "window", !.cred = c,
                            !.row = tokens[c.id], !.at = now]
        /\ tokens' = tokens /\ creds' = creds /\ c.id \in DOMAIN tokens
    BY <1>1, <1>g DEF ReadToken, Step
  <2>2. r.op = op /\ r.pc = "window" /\ r.cred = c /\ r.row = tokens[c.id]
    BY <2>1 DEF Idle
  <2> QED BY <2>1, <2>2, <1>p DEF Presented
<1>2. CASE CheckWindow(w)
  <2>1. ASSUME Matches(f.cred.value, f.row), NEW b, Step(w, [f EXCEPT !.pc = "issue", !.basis = b]),
               f.op \in {"jwt", "rotate"}, f.pc = "window"
        PROVE  Good
    <3>1. /\ r = [f EXCEPT !.pc = "issue", !.basis = b]
          /\ tokens' = tokens /\ creds' = creds
      BY <2>1, <1>g DEF Step
    <3>2. r.op = f.op /\ r.pc = "issue" /\ r.cred = f.cred /\ r.row = f.row
      BY <3>1, <1>f DEF Idle
    <3>3. tokens[f.cred.id].value.secret = f.cred.value.secret
      BY <2>1, <1>f DEF Matches, Plain, Presented
    <3> QED BY <2>1, <3>1, <3>2, <3>3, <1>f, <1>p DEF Presented
  <2> QED BY <1>2, <1>h, <2>1 DEF CheckWindow, At
<1>3. CASE IssueJwt(w)
  <2> DEFINE pc == IF f.op = "jwt" THEN "reply" ELSE "load"
  <2>1. ASSUME Step(w, [f EXCEPT !.pc = pc]), f.pc = "issue", f.op \in {"jwt", "rotate"}
        PROVE  Good
    <3>1. r = [f EXCEPT !.pc = pc] /\ tokens' = tokens /\ creds' = creds
      BY <2>1, <1>g DEF Step
    <3>2. r.op = f.op /\ r.pc = pc /\ r.cred = f.cred /\ r.row = f.row
      BY <3>1, <1>f DEF Idle
    <3> QED BY <2>1, <3>1, <3>2, <1>f, <1>p, FreeFrame DEF Presented
  <2> QED BY <1>3, <1>h, <2>1 DEF IssueJwt, At
<1>4. ASSUME NEW d, LoadForRotation(w, d), ~Fail(w)
      PROVE  Good
  <2> DEFINE i == f.cred.id
             row == [tokens[i] EXCEPT !.exp = now + Days(d)]
  <2>1. /\ i \in DOMAIN tokens /\ tokens' = tokens /\ creds' = creds
        /\ f.op = "rotate" /\ f.pc = "load"
    BY <1>4 DEF LoadForRotation, Step, At
  <2>2. row.parent = tokens[i].parent
    BY <2>1 DEF TypeOK, Row
  <2> HIDE DEF row
  <2>3. r = [f EXCEPT !.pc = "save", !.row = row]
    BY <1>4, <1>g DEF LoadForRotation, Step, row
  <2>4. r.op = f.op /\ r.pc = "save" /\ r.cred = f.cred /\ r.row = row
    BY <2>3, <1>f DEF Idle
  <2> QED BY <2>1, <2>2, <2>4, <1>f, <1>p DEF Presented
<1>5. CASE SaveRotation(w)
  <2> DEFINE i == f.cred.id
             c == [id |-> i, value |-> Plain(fresh)]
  <2>1. /\ i \in DOMAIN tokens /\ f.op = "rotate" /\ f.pc = "save"
        /\ tokens' = [tokens EXCEPT ![i].value = Hashed(fresh), ![i].exp = f.row.exp,
                                    ![i].rotatable = FALSE]
    BY <1>5 DEF SaveRotation, At
  <2>2. /\ i \in DOMAIN tokens' /\ tokens'[i].value = Hashed(fresh)
        /\ tokens'[i].parent = tokens[i].parent
    BY <2>1 DEF TypeOK, Row
  <2>3. r = [f EXCEPT !.pc = "reply", !.cred = c]
    BY <1>5, <1>g DEF SaveRotation
  <2>4. c.id = i /\ c.value = Plain(fresh) /\ c.value.secret = fresh
    BY DEF Plain
  <2> HIDE DEF c
  <2>5. r.op = "rotate" /\ r.pc = "reply" /\ r.cred = c /\ r.row = f.row
    BY <2>1, <2>3, <1>f DEF Idle
  <2>6. tokens[i].parent = f.row.parent
    BY <2>1, <1>f DEF Presented
  <2>7. r.cred.id = i /\ r.cred.value = Plain(fresh) /\ r.cred.value.secret = fresh
    BY <2>4, <2>5
  <2>8. tokens'[i].value.secret = fresh
    BY <2>2 DEF Hashed
  <2>9. Answered(tokens', r)
    BY <2>2, <2>5, <2>6, <2>7, <2>8 DEF Answered
  <2> QED
    BY <2>5, <2>9 DEF Faithful, Presented, Administered, Attested, Marked, Renewing
<1> QED
  BY <1>1, <1>2, <1>3, <1>4, <1>5, <1>h DEF AuthNext, RotationStale

LEMMA FaithfulDelete ==
    ASSUME TypeOK, AllFaithful, NEW w \in Workers, DeleteNext(w)
    PROVE  Faithful(tokens', creds', req'[w])
<1> DEFINE f == req[w]
           r == req'[w]
           Good == Faithful(tokens', creds', r)
<1>f. /\ FrameOK(f) /\ DOMAIN f = DOMAIN Idle /\ DOMAIN req = Workers
      /\ Faithful(tokens, creds, f)
  BY DEF TypeOK, FrameOK, AllFaithful
<1>g. ASSUME NEW g, Goto(w, g) PROVE r = g
  BY <1>g, <1>f DEF Goto
<1>i. ASSUME Goto(w, Idle) PROVE Good
  <2>1. r = Idle
    BY <1>i, <1>g
  <2> QED BY <2>1, FreeFrame DEF Idle
<1>h. ASSUME Fail(w) PROVE Good
  BY <1>h, <1>i DEF Fail
<1>1. ASSUME NEW u, NEW i, BeginDelete(w, u, i)
      PROVE  Good
  <2>1. r = [Idle EXCEPT !.op = "delete", !.pc = "remove", !.user = u, !.id = i]
    BY <1>1, <1>g DEF BeginDelete, Step
  <2>2. r.op = "delete" /\ r.pc = "remove"
    BY <2>1 DEF Idle
  <2> QED BY <2>2, FreeFrame
<1>2. CASE RemoveToken(w)
  <2>1. ASSUME Step(w, [f EXCEPT !.gone = {f.id}, !.todo = {f.id}, !.pc = "cascade"]),
               f.op \in {"delete", "mfa"}, f.pc = "remove"
        PROVE  Good
    <3>1. /\ r = [f EXCEPT !.gone = {f.id}, !.todo = {f.id}, !.pc = "cascade"]
          /\ tokens' = tokens
      BY <2>1, <1>g DEF Step
    <3>2. /\ r.op = f.op /\ r.pc = "cascade" /\ r.gone = {f.id} /\ r.todo = {f.id}
          /\ r.user = f.user /\ r.row = f.row /\ r.at = f.at
      BY <3>1, <1>f DEF Idle
    <3>3. Renewing(tokens', r)
      BY <2>1, <3>1, <3>2, <1>f DEF Faithful, Renewing
    <3>4. Marked(tokens', r)
      BY <2>1, <3>2 DEF Marked, Children
    <3> QED
      BY <2>1, <3>2, <3>3, <3>4 DEF Faithful, Presented, Answered, Administered, Attested
  <2> QED BY <1>2, <1>h, <2>1 DEF RemoveToken, At
<1>3. ASSUME NEW u, BeginRemoveUser(w, u)
      PROVE  Good
  <2> DEFINE own == Owned(tokens, u)
  <2>1. /\ r.op = "deluser" /\ r.pc = Entered(tokens, u) /\ r.user = u
        /\ r.gone = own /\ r.todo = own /\ tokens' = tokens
    BY <1>3, <1>f, RemovalFrame DEF BeginRemoveUser, Step
  <2>2. r.pc \in {"deluser", "cascade"} /\ (r.pc = "deluser" => own = {})
    BY <2>1 DEF Entered
  <2>3. Marked(tokens', r)
    BY <2>1, <2>2 DEF Marked, Children, Removable
  <2> QED
    BY <2>1, <2>2, <2>3 DEF Faithful, Presented, Answered, Administered, Attested, Renewing
<1>4. ASSUME NEW u, AddUser(w, u)
      PROVE  Good
  <2>1. r = f /\ f.pc = "idle" /\ tokens' = tokens /\ creds' = creds /\ users \subseteq users'
    BY <1>4 DEF AddUser, Begin
  <2> QED
    BY <2>1, <1>f
    DEF Faithful, Presented, Answered, Administered, Attested, Marked, Renewing
<1>5. ASSUME NEW i, Cascade(w, i)
      PROVE  Good
  <2> DEFINE below == Children(tokens, {i})
  <2>1. /\ r.gone = f.gone \cup below /\ r.todo = (f.todo \ {i}) \cup (below \ f.gone)
        /\ r.pc = Onward(tokens, f, i) /\ r.op = f.op /\ r.user = f.user
        /\ r.row = f.row /\ r.at = f.at /\ tokens' = tokens
    BY <1>5, <1>f, CascadeFrame DEF Cascade, Step, Rest
  <2>2. /\ f.pc = "cascade" /\ f.op \in {"delete", "mfa", "deluser"}
        /\ Marked(tokens, f) /\ Renewing(tokens, f)
    BY <1>5, <1>f DEF Cascade, At, Faithful
  <2>3. Children(tokens, r.gone \ r.todo) \subseteq r.gone
    BY <2>1, <2>2 DEF Marked, Children
  <2>4. /\ r.pc \in {"cascade", Flush(f)} /\ (r.pc # "cascade" => r.todo = {})
        /\ Flush(f) = IF f.op = "mfa" THEN "replace" ELSE f.op
    BY <2>1 DEF Onward, Rest, Flush
  <2> HIDE DEF below
  <2>5. Marked(tokens', r)
    BY <2>1, <2>2, <2>3, <2>4 DEF Marked, Removable
  <2>6. Renewing(tokens', r)
    BY <2>1, <2>2, <2>4 DEF Renewing
  <2> QED
    BY <2>1, <2>2, <2>4, <2>5, <2>6
    DEF Faithful, Presented, Answered, Administered, Attested
<1> QED
  BY <1>1, <1>2, <1>3, <1>4, <1>5, <1>h, <1>i
  DEF DeleteNext, DeleteMarked, DeleteRefused, RemoveUser, RemoveUserRefused

LEMMA FaithfulMfa ==
    ASSUME TypeOK, Shaped, AllFaithful, Past, NEW w \in Workers, MfaNext(w)
    PROVE  Faithful(tokens', creds', req'[w])
<1> DEFINE f == req[w]
           r == req'[w]
           Good == Faithful(tokens', creds', r)
<1>f. /\ FrameOK(f) /\ DOMAIN f = DOMAIN Idle /\ DOMAIN req = Workers
      /\ Renewing(tokens, f) /\ Marked(tokens, f) /\ FrameShape(f)
  BY DEF TypeOK, FrameOK, AllFaithful, Faithful, Shaped
<1>n. now \in Int /\ SessionLifetime \in Nat /\ f.at \in Int /\ f.row.exp \in Int /\ f.row \in Row
  BY <1>f, LifecycleAssumption DEF TypeOK, FrameOK, Row
<1>g. ASSUME NEW g, Goto(w, g) PROVE r = g
  BY <1>g, <1>f DEF Goto
<1>h. ASSUME Fail(w) PROVE Good
  <2>1. r = Idle
    BY <1>h, <1>g DEF Fail
  <2> QED BY <2>1, FreeFrame DEF Idle
<1>m. ASSUME Renewing(tokens', r), r.op = "mfa",
             r.pc \in {"session", "remove", "replace", "jwt", "reply"},
             r.pc \in {"session", "replace"} => Marked(tokens', r)
      PROVE  Good
  BY <1>m DEF Faithful, Presented, Answered, Administered, Attested, Marked, Issuing
<1>1. ASSUME NEW u, BeginMfa(w, u)
      PROVE  Good
  <2> DEFINE row == NewRow(u, None, SessionName, None, SessionLifetime, TRUE, FALSE)
  <2>1. row.user = u /\ row.nbf = now /\ row.exp = now + SessionLifetime
    BY DEF NewRow
  <2> HIDE DEF row
  <2>2. r = [Idle EXCEPT !.op = "mfa", !.pc = "session", !.user = u, !.at = now, !.row = row]
    BY <1>1, <1>g DEF BeginMfa, Step, row
  <2>3. /\ r.op = "mfa" /\ r.pc = "session" /\ r.user = u /\ r.at = now /\ r.row = row
        /\ r.gone = {}
    BY <2>2 DEF Idle
  <2>4. \A i \in Sessions(tokens', u) : tokens'[i].nbf <= now
    BY <1>1 DEF BeginMfa, Step, Past, Sessions
  <2> QED BY <2>1, <2>3, <2>4, <1>m DEF Renewing, Marked
<1>2. CASE ReadSession(w)
  <2> DEFINE S == Sessions(tokens, f.user)
  <2>1. ASSUME S = {}, f.op = "mfa", f.pc = "session", Step(w, [f EXCEPT !.pc = "replace"])
        PROVE  Good
    <3>1. r = [f EXCEPT !.pc = "replace"] /\ tokens' = tokens
      BY <2>1, <1>g DEF Step
    <3>2. /\ r.op = "mfa" /\ r.pc = "replace" /\ r.user = f.user /\ r.at = f.at
          /\ r.row = f.row /\ r.gone = f.gone
      BY <2>1, <3>1, <1>f DEF Idle
    <3>3. Marked(tokens', r)
      BY <2>1, <3>2, <1>f DEF Marked, Removable, Children
    <3> QED BY <2>1, <3>1, <3>2, <3>3, <1>f, <1>m DEF Renewing
  <2>2. ASSUME NEW i, S = {i}, f.op = "mfa", f.pc = "session",
               Step(w, [f EXCEPT !.id = i,
                                 !.pc = IF Live(tokens[i], f.at) THEN "jwt" ELSE "remove"])
        PROVE  Good
    <3> DEFINE pc == IF Live(tokens[i], f.at) THEN "jwt" ELSE "remove"
    <3>1. r = [f EXCEPT !.id = i, !.pc = pc] /\ tokens' = tokens
      BY <2>2, <1>g DEF Step
    <3>p. /\ pc \in {"jwt", "remove"}
          /\ pc = "jwt" => f.at < tokens[i].exp
          /\ pc = "remove" => ~Live(tokens[i], f.at)
      BY DEF Live
    <3> HIDE DEF pc
    <3>2. /\ r.op = "mfa" /\ r.pc = pc /\ r.user = f.user /\ r.at = f.at
          /\ r.row = f.row /\ r.id = i
      BY <2>2, <3>1, <1>f DEF Idle
    <3> QED BY <2>2, <3>p, <3>1, <3>2, <1>f, <1>m DEF Renewing
  <2> QED BY <1>2, <1>h, <2>1, <2>2 DEF ReadSession, At
<1>3. CASE ReplaceSession(w)
  <2> DEFINE row == [f.row EXCEPT !.value = Plain(fresh)]
             T == Delete(tokens, f.gone)
  <2>1. /\ row.user = f.row.user /\ row.exp = f.row.exp /\ row.session = f.row.session
        /\ row.name = f.row.name
    BY <1>n DEF Row
  <2>2. /\ tokens' = Insert(T, fresh, row) /\ f.op = "mfa" /\ f.pc = "replace"
        /\ r = [f EXCEPT !.pc = "jwt", !.id = fresh]
    BY <1>3, <1>g DEF ReplaceSession, At
  <2> HIDE DEF row, T
  <2>3. /\ r.op = "mfa" /\ r.pc = "jwt" /\ r.user = f.user /\ r.at = f.at /\ r.id = fresh
    BY <2>2, <1>f DEF Idle
  <2>4. fresh \in DOMAIN tokens' /\ tokens'[fresh] = row
    BY <2>2 DEF Insert
  <2>5. fresh \in Sessions(tokens', f.user)
    BY <2>1, <2>2, <2>4, <1>f DEF Sessions, Renewing, FrameShape, SessionShape
  <2>6. SessionLifetime > 0 => f.at < tokens'[fresh].exp
    BY <2>1, <2>2, <2>4, <1>f, <1>n DEF Renewing
  <2> QED BY <2>3, <2>5, <2>6, <1>m DEF Renewing
<1>4. CASE IssueSessionJwt(w)
  <2>1. ASSUME Step(w, [f EXCEPT !.pc = "reply"]), f.op = "mfa", f.pc = "jwt"
        PROVE  Good
    <3>1. r = [f EXCEPT !.pc = "reply"] /\ tokens' = tokens
      BY <2>1, <1>g DEF Step
    <3>2. /\ r.op = "mfa" /\ r.pc = "reply" /\ r.user = f.user /\ r.at = f.at /\ r.id = f.id
      BY <2>1, <3>1, <1>f DEF Idle
    <3> QED BY <2>1, <3>1, <3>2, <1>f, <1>m DEF Renewing
  <2> QED BY <1>4, <1>h, <2>1 DEF IssueSessionJwt, At
<1> QED
  BY <1>1, <1>2, <1>3, <1>4, <1>h DEF MfaNext, SessionRefused

(* A clock reading is the one taken now or an earlier one. *)
Clocked(w) == req'[w].at \in {0, now, req[w].at}

LEMMA FrameClock ==
    ASSUME TypeOK, NEW w \in Workers, Serve(w)
    PROVE  Clocked(w)
<1> DEFINE f == req[w]
<1>f. FrameOK(f) /\ DOMAIN f = DOMAIN Idle /\ DOMAIN req = Workers
  BY DEF TypeOK, FrameOK
<1>g. ASSUME NEW g, Goto(w, g) PROVE req'[w] = g
  BY <1>g, <1>f DEF Goto
<1>0. ASSUME NEW g, Goto(w, g), g.at \in {0, now, f.at} PROVE Clocked(w)
  BY <1>0, <1>g DEF Clocked
<1>i. ASSUME Goto(w, Idle) PROVE Clocked(w)
  BY <1>i, <1>0 DEF Idle
<1>h. ASSUME Fail(w) PROVE Clocked(w)
  BY <1>h, <1>i DEF Fail
<1>1. CASE AdminNext(w)
  <2>1. ASSUME NEW u, NEW p, NEW n, NEW x, NEW life, NEW rot, BeginAdmin(w, u, p, n, x, life, rot)
        PROVE  Clocked(w)
    <3> DEFINE r == NewRow(u, IF p = Blank THEN None ELSE p, n, x, life, FALSE, rot)
    <3> HIDE DEF r
    <3> QED BY <2>1, <1>0 DEF BeginAdmin, Step, Idle, r
  <2>2. ASSUME NEW c, Goto(w, [f EXCEPT !.pc = "reply", !.cred = c])
        PROVE  Clocked(w)
    BY <2>2, <1>0, <1>f DEF Idle
  <2>3. CASE InsertToken(w) \/ RetryLookup(w)
    BY <2>3, <2>2, <1>h DEF InsertToken, RetryLookup, Step
  <2>4. CASE InsertRefused(w)
    BY <2>4, <1>0, <1>f, <1>h DEF InsertRefused, Step, Idle
  <2> QED BY <1>1, <2>1, <2>3, <2>4 DEF AdminNext
<1>2. CASE UserNext(w)
  <2>1. ASSUME NEW u, NEW n, NEW life, NEW rot, BeginCreate(w, u, n, life, rot)
        PROVE  Clocked(w)
    <3> DEFINE r == NewRow(u, None, n, None, life, FALSE, rot)
    <3> HIDE DEF r
    <3> QED BY <2>1, <1>0 DEF BeginCreate, Step, Idle, r
  <2>2. ASSUME NEW u, NEW S, BeginAttest(w, u, S)
        PROVE  Clocked(w)
    BY <2>2, <1>0 DEF BeginAttest, Step, Idle
  <2>3. ASSUME NEW i, ReadAttested(w, i)
        PROVE  Clocked(w)
    BY <2>3, <1>0, <1>f, <1>h DEF ReadAttested, Step, Idle
  <2>4. ASSUME NEW i, CheckAttested(w, i)
        PROVE  Clocked(w)
    BY <2>4, <1>0, <1>f, <1>h DEF CheckAttested, Step, Idle
  <2> QED
    BY <1>2, <1>h, <1>i, <2>1, <2>2, <2>3, <2>4
    DEF UserNext, SaveAttestation, AttestationStale
<1>3. CASE AuthNext(w)
  <2>1. ASSUME NEW op, NEW c, ReadToken(w, op, c)
        PROVE  Clocked(w)
    BY <2>1, <1>0 DEF ReadToken, Step, Idle
  <2>2. ASSUME NEW pc, NEW b, Goto(w, [f EXCEPT !.pc = pc, !.basis = b])
        PROVE  Clocked(w)
    BY <2>2, <1>0, <1>f DEF Idle
  <2>3. ASSUME NEW pc, Goto(w, [f EXCEPT !.pc = pc])
        PROVE  Clocked(w)
    BY <2>3, <1>0, <1>f DEF Idle
  <2>4. ASSUME NEW row, Goto(w, [f EXCEPT !.pc = "save", !.row = row])
        PROVE  Clocked(w)
    BY <2>4, <1>0, <1>f DEF Idle
  <2>5. ASSUME NEW c, Goto(w, [f EXCEPT !.pc = "reply", !.cred = c])
        PROVE  Clocked(w)
    BY <2>5, <1>0, <1>f DEF Idle
  <2>6. CASE CheckWindow(w) \/ IssueJwt(w)
    BY <2>6, <1>h, <2>2, <2>3 DEF CheckWindow, IssueJwt, Step
  <2>7. ASSUME NEW d, LoadForRotation(w, d)
        PROVE  Clocked(w)
    BY <2>7, <1>h, <2>4 DEF LoadForRotation, Step
  <2>8. CASE SaveRotation(w) \/ RotationStale(w)
    BY <2>8, <1>h, <2>5 DEF SaveRotation, RotationStale
  <2> QED BY <1>3, <2>1, <2>6, <2>7, <2>8 DEF AuthNext
<1>4. CASE DeleteNext(w)
  <2>1. ASSUME NEW u, NEW i, BeginDelete(w, u, i) PROVE Clocked(w)
    BY <2>1, <1>0 DEF BeginDelete, Step, Idle
  <2>2. CASE RemoveToken(w)
    BY <2>2, <1>0, <1>f, <1>h DEF RemoveToken, Step, Idle
  <2>3. ASSUME NEW u, BeginRemoveUser(w, u) PROVE Clocked(w)
    BY <2>3, <1>f, RemovalFrame DEF Clocked
  <2>4. ASSUME NEW u, AddUser(w, u) PROVE Clocked(w)
    BY <2>4 DEF AddUser, Clocked
  <2>5. ASSUME NEW i, Cascade(w, i) PROVE Clocked(w)
    BY <2>5, <1>f, CascadeFrame DEF Clocked
  <2> QED
    BY <1>4, <1>h, <1>i, <2>1, <2>2, <2>3, <2>4, <2>5
    DEF DeleteNext, DeleteMarked, DeleteRefused, RemoveUser, RemoveUserRefused
<1>5. CASE MfaNext(w)
  <2>1. ASSUME NEW u, BeginMfa(w, u) PROVE Clocked(w)
    <3> DEFINE r == NewRow(u, None, SessionName, None, SessionLifetime, TRUE, FALSE)
    <3> HIDE DEF r
    <3> QED BY <2>1, <1>0 DEF BeginMfa, Step, Idle, r
  <2>2. ASSUME NEW pc, NEW i, Goto(w, [f EXCEPT !.id = i, !.pc = pc]) PROVE Clocked(w)
    BY <2>2, <1>0, <1>f DEF Idle
  <2>3. ASSUME NEW pc, NEW i, Goto(w, [f EXCEPT !.pc = pc, !.id = i]) PROVE Clocked(w)
    BY <2>3, <1>0, <1>f DEF Idle
  <2>4. ASSUME NEW pc, Goto(w, [f EXCEPT !.pc = pc]) PROVE Clocked(w)
    BY <2>4, <1>0, <1>f DEF Idle
  <2>5. CASE ReadSession(w) \/ ReplaceSession(w)
    BY <2>5, <1>h, <2>2, <2>3, <2>4 DEF ReadSession, ReplaceSession, Step
  <2>6. CASE SessionRefused(w) \/ IssueSessionJwt(w)
    BY <2>6, <1>h, <2>4 DEF SessionRefused, IssueSessionJwt, Step
  <2> QED BY <1>5, <2>1, <2>5, <2>6 DEF MfaNext
<1>6. CASE Reply(w) \/ Crash(w)
  BY <1>6, <1>i DEF Reply, Crash
<1> QED BY <1>1, <1>2, <1>3, <1>4, <1>5, <1>6 DEF Serve

(* A session is inserted with the clock reading of its request. *)
LEMMA SessionsPast ==
    ASSUME TypeOK, AllFaithful, Past, NEW w \in Workers, Serve(w), NEW i \in DOMAIN tokens',
           tokens'[i].session
    PROVE  tokens'[i].nbf <= now
<1> DEFINE f == req[w]
<1>f. FrameOK(f) /\ f.row \in Row /\ Faithful(tokens, creds, f) /\ f.at <= now
  BY DEF TypeOK, FrameOK, AllFaithful, Past
<1>k. \A j \in DOMAIN tokens : tokens[j] \in Row /\ (tokens[j].session => tokens[j].nbf <= now)
  BY DEF TypeOK, Past
<1>1. CASE InsertToken(w)
  <2>1. f.row.session = FALSE
    BY <1>1, <1>f DEF InsertToken, At, Faithful, Administered
  <2>2. Stored(f.row, fresh).session = FALSE
    BY <1>f, <2>1 DEF Stored, Row
  <2> QED BY <1>1, <1>k, <2>2 DEF InsertToken, Insert
<1>2. CASE ReplaceSession(w)
  <2> DEFINE row == [f.row EXCEPT !.value = Plain(fresh)]
  <2>1. row.nbf = f.row.nbf
    BY <1>f DEF Row
  <2>2. f.row.nbf = f.at
    BY <1>2, <1>f DEF ReplaceSession, At, Faithful, Renewing
  <2> HIDE DEF row
  <2>3. tokens' = Insert(Delete(tokens, f.gone), fresh, row)
    BY <1>2 DEF ReplaceSession, row
  <2> QED BY <1>f, <1>k, <2>1, <2>2, <2>3 DEF Insert, Delete
<1>3. CASE SaveRotation(w)
  <2>1. /\ i \in DOMAIN tokens /\ tokens'[i].session = tokens[i].session
        /\ tokens'[i].nbf = tokens[i].nbf
    BY <1>3, <1>k DEF SaveRotation, Row
  <2> QED BY <1>k, <2>1
<1>4. CASE SaveAttestation(w)
  <2>1. /\ i \in DOMAIN tokens /\ tokens'[i].session = tokens[i].session
        /\ tokens'[i].nbf = tokens[i].nbf
    BY <1>4, <1>k DEF SaveAttestation, Row
  <2> QED BY <1>k, <2>1
<1>5. CASE DeleteMarked(w) \/ RemoveUser(w)
  BY <1>5, <1>k DEF DeleteMarked, RemoveUser, Delete
<1>6. CASE (\E u \in Users : AddUser(w, u)) \/ Reply(w) \/ Crash(w) \/ Quiet(w)
  BY <1>6, <1>k DEF AddUser, Reply, Crash, Quiet, Shared
<1> QED BY <1>1, <1>2, <1>3, <1>4, <1>5, <1>6, StepKinds

LEMMA FaithfulStep ==
    ASSUME OneProcess, TypeOK, Shaped, AllFaithful, Past, [Next]_vars
    PROVE  AllFaithful' /\ Past'
<1>1. CASE UNCHANGED vars \/ Tick
  <2>1. now' \in {now, now + 1} /\ now \in Nat /\ UNCHANGED <<req, tokens, users, creds>>
    BY <1>1 DEF vars, Tick, TypeOK
  <2>2. /\ \A w \in Workers : req[w].at \in Int
        /\ \A i \in DOMAIN tokens : tokens[i].nbf \in Int
    BY DEF TypeOK, FrameOK, Row
  <2> QED BY <2>1, <2>2 DEF AllFaithful, Past
<1>2. ASSUME NEW w \in Workers, Serve(w)
      PROVE  AllFaithful' /\ Past'
  <2>1. ASSUME Reply(w) \/ Crash(w) PROVE Faithful(tokens', creds', req'[w])
    <3>1. req'[w] = Idle
      BY <2>1 DEF Reply, Crash, Goto, TypeOK
    <3> QED BY <3>1, FreeFrame DEF Idle
  <2>2. Faithful(tokens', creds', req'[w])
    BY <1>2, <2>1, FaithfulAdmin, FaithfulUser, FaithfulAuth, FaithfulDelete, FaithfulMfa
    DEF Serve
  <2>3. now' = now /\ now \in Nat
    BY <1>2, StepKinds
    DEF InsertToken, SaveRotation, SaveAttestation, DeleteMarked, ReplaceSession, RemoveUser,
        AddUser, Reply, Crash, Quiet, Shared, TypeOK
  <2>4. req'[w].at <= now
    BY <1>2, <2>3, FrameClock DEF Past, Clocked
  <2>5. Past'
    BY <1>2, <2>3, <2>4, SessionsPast DEF Past, OneProcess
  <2> QED BY <2>2, <2>5 DEF AllFaithful, OneProcess
<1> QED
  BY <1>1, <1>2 DEF Next

LEMMA FaithfulAlways ==
    ASSUME OneProcess
    PROVE  Spec => [](AllFaithful /\ Past)
<1>1. Init => AllFaithful /\ Past
  <2>1. ASSUME Init, NEW w \in Workers PROVE Faithful(tokens, creds, req[w])
    BY <2>1, FreeFrame DEF Init, Idle
  <2>2. Init => Past
    BY DEF Init, Past, Idle
  <2> QED BY <2>1, <2>2 DEF AllFaithful
<1>2. TypeOK /\ Shaped /\ AllFaithful /\ Past /\ [Next]_vars => AllFaithful' /\ Past'
  BY FaithfulStep
<1> QED
  BY <1>1, <1>2, TypeCorrect, KeysAreUnique, PTL DEF Spec

-----------------------------------------------------------------------------
(* Answers and deletions.                                                 *)

(* While one process serves, the string an admin client receives is for   *)
(* the token it asked for, and a subtoken's is accepted.                  *)
THEOREM AdminAnswers ==
    ASSUME OneProcess
    PROVE  Spec => []AdminAnswerSound
<1>1. AllFaithful => AdminAnswerSound
  <2> SUFFICES ASSUME AllFaithful, NEW w \in Workers, Replying(w, "admin")
               PROVE  LET c == req[w].cred
                          r == req[w].row
                      IN /\ c.id \in DOMAIN tokens
                         /\ Key(tokens[c.id]) = Key(r)
                         /\ r.parent # None => Accepted(tokens, c)
    BY DEF AdminAnswerSound
  <2> QED
    BY DEF AllFaithful, Faithful, Answered, Administered, Replying, Issuing, Accepted, Matches, Key
<1> QED
  BY <1>1, FaithfulAlways, PTL

(* While one process serves, the string a rotation returns for a token    *)
(* without a parent is accepted.                                          *)
THEOREM RotationAnswers ==
    ASSUME OneProcess
    PROVE  Spec => []RotationAnswerSound
<1>1. AllFaithful => RotationAnswerSound
  <2> SUFFICES ASSUME AllFaithful, NEW w \in Workers, Replying(w, "rotate"),
                      req[w].row.parent = None
               PROVE  Accepted(tokens, req[w].cred)
    BY DEF RotationAnswerSound
  <2>1. Answered(tokens, req[w]) /\ req[w].pc = "reply" /\ req[w].op = "rotate"
    BY DEF AllFaithful, Faithful, Replying
  <2> QED BY <2>1 DEF Answered, Issuing, Accepted, Matches, Hashed
<1> QED
  BY <1>1, FaithfulAlways, PTL

(* While one process serves, and sessions last at all, the JWT of an MFA  *)
(* names a session of that user that was not over.                        *)
THEOREM SessionAnswers ==
    ASSUME OneProcess, SessionLifetime > 0
    PROVE  Spec => []SessionAnswerSound
<1>1. AllFaithful => SessionAnswerSound
  <2> SUFFICES ASSUME AllFaithful, NEW w \in Workers, Replying(w, "mfa")
               PROVE  req[w].id \in Sessions(tokens, req[w].user) /\ req[w].at < tokens[req[w].id].exp
    BY DEF SessionAnswerSound
  <2> QED BY DEF AllFaithful, Faithful, Renewing, Replying
<1> QED
  BY <1>1, FaithfulAlways, PTL

(* While one process serves, a session is replaced only if it is over, or *)
(* was made at the very clock value that is read again.                   *)
THEOREM SessionsEnd ==
    ASSUME OneProcess
    PROVE  Spec => SessionReplacedWhenOver
<1>1. ASSUME TypeOK, AllFaithful, Past, NEW w \in Workers, ReplaceSession(w),
             NEW i \in Sessions(tokens, req[w].user) \ DOMAIN tokens'
      PROVE  tokens[i].exp <= now \/ tokens[i].nbf = req[w].at
  <2> DEFINE f == req[w]
  <2>1. /\ i \in DOMAIN tokens /\ tokens[i].nbf \in Int /\ tokens[i].exp \in Int
        /\ f.at \in Int /\ now \in Int /\ f.at <= now
    BY <1>1 DEF Sessions, TypeOK, FrameOK, Row, Past
  <2>2. tokens[i].nbf <= f.at /\ ~Live(tokens[i], f.at)
    BY <1>1 DEF AllFaithful, Faithful, Renewing, ReplaceSession, At
  <2> QED BY <2>1, <2>2 DEF Live
<1>2. TypeOK /\ AllFaithful /\ Past /\ [Next]_vars =>
          [\A w \in Workers : ReplaceSession(w) =>
              \A i \in Sessions(tokens, req[w].user) \ DOMAIN tokens' :
                  tokens[i].exp <= now \/ tokens[i].nbf = req[w].at]_vars
  BY <1>1
<1> QED
  BY <1>2, FaithfulAlways, TypeCorrect, PTL DEF Spec, SessionReplacedWhenOver

(* While one process serves, no deletion is refused: what was marked is   *)
(* closed under parent_id when the rows go.                               *)
THEOREM DeletionsGoThrough ==
    ASSUME OneProcess
    PROVE  Spec => []DeletionNeverRefused
<1>1. AllFaithful => DeletionNeverRefused
  <2> SUFFICES ASSUME AllFaithful, NEW w \in Workers
               PROVE  /\ At(w, {"delete", "mfa"}, "delete") => Removable(tokens, req[w].gone)
                      /\ At(w, {"mfa"}, "replace") => Removable(tokens, req[w].gone)
                      /\ At(w, {"deluser"}, "deluser") => UserRemovable(req[w])
    BY DEF DeletionNeverRefused
  <2> DEFINE f == req[w]
  <2>1. Marked(tokens, f)
    BY DEF AllFaithful, Faithful
  <2> QED BY <2>1 DEF At, Marked, UserRemovable
<1> QED
  BY <1>1, FaithfulAlways, PTL

-----------------------------------------------------------------------------
(* The refinement.                                                        *)

(* What is promised of a crowd is promised of one. *)
LEMMA ManageAlike ==
    /\ Crowd!Manage => Atomic!Manage
    /\ UNCHANGED Crowd!vars => UNCHANGED Atomic!vars
BY DEF Crowd!Manage, Crowd!Create, Crowd!Remove, Crowd!Attest, Crowd!Renew, Crowd!Open,
       Crowd!Close, Crowd!Family, Crowd!Owned, Crowd!Session, Crowd!Without, Crowd!With, Crowd!vars,
       Atomic!Manage, Atomic!Create, Atomic!Remove, Atomic!Attest, Atomic!Renew, Atomic!Open,
       Atomic!Close, Atomic!Family, Atomic!Owned, Atomic!Session, Atomic!Without, Atomic!With,
       Atomic!vars

(* The secret and the permit that are traded are those of the row. *)
LEMMA RotationRefines ==
    ASSUME TypeOK, Undisturbed, AllFaithful, NEW w \in Workers, SaveRotation(w)
    PROVE  Atomic!Next
<1> DEFINE f == req[w]
           i == f.cred.id
           T == Abstracted(tokens)
<1>1. /\ i \in DOMAIN tokens /\ f.pc = "save" /\ users' = users /\ creds' = creds
      /\ fresh' = fresh + 1
  BY DEF SaveRotation, At
<1>2. f.cred \in creds /\ tokens[i].value.secret = f.cred.value.secret /\ tokens[i].rotatable
  BY <1>1 DEF AllFaithful, Faithful, Presented, Undisturbed, Current
<1>3. T[i] = Seen(tokens[i]) /\ DOMAIN T = DOMAIN tokens
  <2>1. T = [j \in DOMAIN tokens |-> Seen(tokens[j])]
    BY AbstractedRows
  <2> HIDE DEF T
  <2> QED BY <1>1, <2>1
<1>4. T[i].permit /\ <<i, T[i].secret>> \in Told(creds)
  BY <1>2, <1>3 DEF Seen, Told
<1>5. \E k \in Told(creds) : k[1] = i
  BY <1>4
<1>6. Atomic!Rotate(i)
  BY <1>1, <1>4, <1>5, AbstractedTrade DEF Atomic!Rotate
<1> QED
  BY <1>1, <1>3, <1>6 DEF Atomic!Next

(* A step of the handlers is a step of the atomic service, or none.       *)
LEMMA StepRefines ==
    ASSUME OneProcess, TypeOK, Drawn, Shaped, NothingLeftBehind, Lineal, Undisturbed,
           AllFaithful, [Next]_vars
    PROVE  [Atomic!Next]_(Atomic!vars)
<1>1. CASE UNCHANGED vars \/ Tick
  BY <1>1 DEF vars, Tick, Atomic!vars
<1>2. ASSUME NEW w \in Workers, Serve(w)
      PROVE  [Atomic!Next]_(Atomic!vars)
  <2> DEFINE f == req[w]
  <2>1. CASE Reply(w) /\ f.op \in Issuing
    <3>1. f.cred.id \in DOMAIN tokens /\ tokens[f.cred.id].value.secret = f.cred.value.secret
      BY <2>1 DEF Reply, AllFaithful, Faithful, Answered
    <3>2. /\ f.cred.id \in DOMAIN Abstracted(tokens)
          /\ Abstracted(tokens)[f.cred.id].secret = f.cred.value.secret
      BY <3>1 DEF Abstracted
    <3>3. Atomic!Tell(f.cred.id, f.cred.value.secret)
      BY <2>1, <3>2, ReplyTells DEF Atomic!Tell
    <3> QED BY <2>1, <3>3, ReplyTells DEF Atomic!Next
  <2>2. CASE Reply(w) /\ f.op \notin Issuing
    BY <2>2, ReplyTells DEF Atomic!vars
  <2> QED
    BY <1>2, <2>1, <2>2, ManageSerial, ManageAlike, RotationRefines DEF Atomic!Next
<1> QED
  BY <1>1, <1>2 DEF Next

(* While one process serves, the handlers implement the atomic service.   *)
THEOREM Refinement ==
    ASSUME OneProcess
    PROVE  Spec => HandlersAtomic
<1>1. Init => Atomic!Init
  <2> SUFFICES ASSUME Init PROVE Atomic!Init
    OBVIOUS
  <2>1. Abstracted(tokens) = [i \in {} |-> None]
    BY DEF Init, Abstracted
  <2> QED BY <2>1 DEF Init, Atomic!Init, Told
<1>2. TypeOK /\ Drawn /\ Shaped /\ NothingLeftBehind /\ Lineal /\ Undisturbed /\ AllFaithful
         /\ [Next]_vars => [Atomic!Next]_(Atomic!vars)
  BY StepRefines
<1> QED
  BY <1>1, <1>2, TypeCorrect, KeysAreUnique, NothingIsLeftBehind, LinealAlways,
     UndisturbedAlways, FaithfulAlways, PTL
  DEF Spec, HandlersAtomic, Atomic!Spec
=============================================================================
