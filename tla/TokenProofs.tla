----------------------------- MODULE TokenProofs ------------------------------
(***************************************************************************)
(* Theorems about TokenLifecycle for any number of processes, users,       *)
(* names and lifetimes, and for any bounds.                                *)
(***************************************************************************)
EXTENDS TokenProperties, TLAPS

-----------------------------------------------------------------------------
(* How a step may change what the processes share. *)

Shared == <<users, tokens, now, fresh, creds, permits, lost>>

(* A step of one request that changes nothing but its frame. *)
Quiet(w) == (\E f : Goto(w, f)) /\ UNCHANGED Shared

(* What a worker does is one of nine things that change what is shared,  *)
(* or quiet.                                                              *)
LEMMA StepKinds ==
    ASSUME NEW w \in Workers, Serve(w)
    PROVE  \/ InsertToken(w) \/ SaveRotation(w) \/ SaveAttestation(w)
           \/ DeleteMarked(w) \/ ReplaceSession(w) \/ RemoveUser(w)
           \/ (\E u \in Users : AddUser(w, u)) \/ Reply(w) \/ Crash(w)
           \/ Quiet(w)
<1>a. ASSUME NEW f, Step(w, f) PROVE Quiet(w)
  BY <1>a DEF Step, Quiet, Shared
<1>b. ASSUME Fail(w) PROVE Quiet(w)
  BY <1>b DEF Fail, Quiet, Shared
<1>1. CASE AdminNext(w)
  BY <1>1, <1>a, <1>b DEF AdminNext, BeginAdmin, InsertRefused, RetryLookup
<1>2. CASE UserNext(w)
  BY <1>2, <1>a, <1>b DEF UserNext, BeginCreate, BeginAttest, ReadAttested,
        CheckAttested, AttestationStale
<1>3. CASE AuthNext(w)
  BY <1>3, <1>a, <1>b DEF AuthNext, ReadToken, CheckWindow, IssueJwt,
        LoadForRotation, RotationStale
<1>4. CASE DeleteNext(w)
  BY <1>4, <1>a, <1>b DEF DeleteNext, BeginDelete, RemoveToken, Cascade, DeleteRefused,
        BeginRemoveUser, RemoveUserRefused
<1>5. CASE MfaNext(w)
  BY <1>5, <1>a, <1>b DEF MfaNext, BeginMfa, ReadSession, SessionRefused,
        IssueSessionJwt
<1> QED
  BY <1>1, <1>2, <1>3, <1>4, <1>5 DEF Serve

-----------------------------------------------------------------------------
(* Frames keep their type.                                                *)

(* The values a frame, a row and a response start from. *)
LEMMA BlankTypes == FrameOK(Idle) /\ NoRow \in Row /\ NoCred \in Cred
BY DEF FrameOK, Idle, NoRow, NoCred, Row, Cred, Value, Plain, AllOps, Pcs

(* The frame of a cascade, which starts with the tokens of a user ...     *)
Entered(T, u) == IF Owned(T, u) = {} THEN "deluser" ELSE "cascade"

LEMMA RemovalFrame ==
    ASSUME DOMAIN req = Workers, NEW w \in Workers, NEW u, BeginRemoveUser(w, u)
    PROVE  /\ req'[w] = [Idle EXCEPT !.op = "deluser", !.user = u, !.gone = Owned(tokens, u),
                                     !.todo = Owned(tokens, u), !.pc = Entered(tokens, u)]
           /\ req'[w].op = "deluser" /\ req'[w].pc = Entered(tokens, u)
           /\ req'[w].user = u /\ req'[w].gone = Owned(tokens, u)
           /\ req'[w].todo = Owned(tokens, u) /\ req'[w].cred = NoCred
           /\ req'[w].row = NoRow /\ req'[w].at = 0 /\ req'[w].snap = Idle.snap
<1> DEFINE g == [Idle EXCEPT !.op = "deluser", !.user = u, !.gone = Owned(tokens, u),
                             !.todo = Owned(tokens, u), !.pc = Entered(tokens, u)]
<1>1. Goto(w, g)
  BY Zenon DEF BeginRemoveUser, Step, Entered
<1> HIDE DEF g
<1>2. req'[w] = g
  BY <1>1 DEF Goto
<1> QED BY <1>2 DEF g, Idle

(* ... and goes from row to row.                                          *)
Rest(T, f, i) == (f.todo \ {i}) \cup (Children(T, {i}) \ f.gone)

Onward(T, f, i) == IF Rest(T, f, i) = {} THEN Flush(f) ELSE "cascade"

LEMMA CascadeFrame ==
    ASSUME DOMAIN req = Workers, NEW w \in Workers, DOMAIN req[w] = DOMAIN Idle,
           NEW i, Cascade(w, i)
    PROVE  /\ req'[w] = [req[w] EXCEPT !.gone = @ \cup Children(tokens, {i}),
                                       !.todo = Rest(tokens, req[w], i),
                                       !.pc = Onward(tokens, req[w], i)]
           /\ req'[w].gone = req[w].gone \cup Children(tokens, {i})
           /\ req'[w].todo = Rest(tokens, req[w], i)
           /\ req'[w].pc = Onward(tokens, req[w], i)
           /\ req'[w].op = req[w].op /\ req'[w].user = req[w].user
           /\ req'[w].cred = req[w].cred /\ req'[w].id = req[w].id
           /\ req'[w].row = req[w].row /\ req'[w].at = req[w].at
           /\ req'[w].ids = req[w].ids /\ req'[w].snap = req[w].snap
<1> DEFINE f == req[w]
           g == [f EXCEPT !.gone = @ \cup Children(tokens, {i}),
                          !.todo = Rest(tokens, f, i), !.pc = Onward(tokens, f, i)]
<1>1. Goto(w, g)
  BY Zenon DEF Cascade, Step, Rest, Onward
<1> HIDE DEF g
<1>2. req'[w] = g
  BY <1>1 DEF Goto
<1> QED BY <1>2 DEF g, Idle

(* A new row is one, whatever the request asks for.                       *)
LEMMA NewRowType ==
    ASSUME TypeOK, NEW u \in Users, NEW p \in Known \cup {None}, NEW n \in Names \cup {SessionName},
           NEW x \in Externals \cup {None}, NEW life \in Int, NEW sess \in BOOLEAN,
           NEW rot \in BOOLEAN
    PROVE  NewRow(u, p, n, x, life, sess, rot) \in Row
<1>1. now + life \in Int /\ now \in Int
  BY DEF TypeOK
<1>2. Plain(0) \in Value
  BY DEF Plain, Value
<1>3. p \in Nat \cup {None}
  BY DEF Known
<1> QED BY <1>1, <1>2, <1>3 DEF NewRow, Row

(* Whatever the handler of w does next, its frame is of its type.         *)
LEMMA FrameTypes ==
    ASSUME TypeOK, NEW w \in Workers, Serve(w)
    PROVE  FrameOK(req'[w])
<1> DEFINE f == req[w]
<1>f. FrameOK(f) /\ DOMAIN req = Workers
  BY DEF TypeOK
<1>g. ASSUME NEW g, Goto(w, g), FrameOK(g) PROVE FrameOK(req'[w])
  <2>1. req'[w] = g
    BY <1>g, <1>f DEF Goto
  <2> QED BY <1>g, <2>1
<1>k. Known \subseteq Nat /\ fresh \in Nat /\ now \in Nat /\ Lifetimes \subseteq Int /\ Rotatables \subseteq BOOLEAN
  BY LifecycleAssumption DEF TypeOK, Known
<1>h. ASSUME Fail(w) PROVE FrameOK(req'[w])
  BY <1>h, <1>g, BlankTypes DEF Fail
<1>i. ASSUME Goto(w, Idle) PROVE FrameOK(req'[w])
  BY <1>i, <1>g, BlankTypes
<1>t. \A i \in DOMAIN tokens : i \in Nat /\ tokens[i] \in Row /\ tokens[i].value \in Value
  BY <1>k DEF TypeOK, Row
<1>1. CASE AdminNext(w)
  <2>1. ASSUME NEW u \in Users, NEW p \in Known \cup {None, Blank}, NEW n \in Names,
               NEW x \in Externals \cup {None}, NEW life \in Lifetimes, NEW rot \in Rotatables,
               BeginAdmin(w, u, p, n, x, life, rot)
        PROVE  FrameOK(req'[w])
    <3> DEFINE r == NewRow(u, IF p = Blank THEN None ELSE p, n, x, life, FALSE, rot)
    <3>a. (IF p = Blank THEN None ELSE p) \in Known \cup {None} /\ life \in Int /\ rot \in BOOLEAN
      BY <1>k
    <3>1. r \in Row
      BY <3>a, NewRowType
    <3> HIDE DEF r
    <3>2. FrameOK([Idle EXCEPT !.op = "admin", !.pc = "insert", !.user = u,
                               !.asked = p, !.row = r])
      BY <3>1, <1>k, BlankTypes DEF FrameOK, Idle, AllOps, Pcs
    <3> QED BY <2>1, <3>2, <1>g DEF BeginAdmin, Step, r
  <2>2. ASSUME InsertToken(w) PROVE FrameOK(req'[w])
    <3>1. FrameOK([f EXCEPT !.pc = "reply", !.cred = [id |-> fresh, value |-> Plain(fresh)]])
      BY <1>f, <1>k DEF FrameOK, Idle, Pcs, Cred, Value, Plain
    <3> QED BY <2>2, <3>1, <1>g DEF InsertToken
  <2>3. ASSUME InsertRefused(w) PROVE FrameOK(req'[w])
    <3>1. FrameOK([f EXCEPT !.pc = "retry"])
      BY <1>f DEF FrameOK, Idle, Pcs
    <3> QED BY <2>3, <3>1, <1>g, <1>h DEF InsertRefused, Step
  <2>4. ASSUME RetryLookup(w) PROVE FrameOK(req'[w])
    <3>1. ASSUME NEW i \in DOMAIN tokens
          PROVE  FrameOK([f EXCEPT !.pc = "reply", !.cred = [id |-> i, value |-> tokens[i].value]])
      BY <1>f, <1>t DEF FrameOK, Idle, Pcs, Cred
    <3> QED BY <2>4, <3>1, <1>g, <1>h DEF RetryLookup, Step, Subtokens
  <2> QED BY <1>1, <2>1, <2>2, <2>3, <2>4 DEF AdminNext
<1>2. CASE UserNext(w)
  <2>1. ASSUME NEW u \in Users, NEW n \in Names, NEW life \in Lifetimes, NEW rot \in Rotatables,
               BeginCreate(w, u, n, life, rot)
        PROVE  FrameOK(req'[w])
    <3>1. NewRow(u, None, n, None, life, FALSE, rot) \in Row
      BY <1>k, NewRowType
    <3>2. FrameOK([Idle EXCEPT !.op = "create", !.pc = "insert", !.user = u,
                               !.row = NewRow(u, None, n, None, life, FALSE, rot)])
      BY <3>1, BlankTypes DEF FrameOK, Idle, AllOps, Pcs
    <3> QED BY <2>1, <3>2, <1>g DEF BeginCreate, Step
  <2>2. ASSUME NEW u \in Users, NEW S \in SUBSET Known, BeginAttest(w, u, S)
        PROVE  FrameOK(req'[w])
    <3>1. FrameOK([Idle EXCEPT !.op = "attest", !.pc = "read", !.user = u,
                               !.ids = S, !.at = now])
      BY <1>k, BlankTypes DEF FrameOK, Idle, AllOps, Pcs
    <3> QED BY <2>2, <3>1, <1>g DEF BeginAttest, Step
  <2>3. ASSUME NEW i \in Known, ReadAttested(w, i) PROVE FrameOK(req'[w])
    <3> DEFINE pc == IF f.ids \subseteq DOMAIN f.snap \cup {i} THEN "check" ELSE "read"
    <3>1. ASSUME i \in f.ids \ DOMAIN f.snap, i \in DOMAIN tokens
          PROVE  FrameOK([f EXCEPT !.snap = Insert(@, i, tokens[i]), !.todo = f.ids,
                                   !.pc = pc])
      BY <3>1, <1>f, <1>t DEF FrameOK, Idle, Pcs, Insert
    <3> QED BY <2>3, <3>1, <1>g, <1>h DEF ReadAttested, Step
  <2>4. ASSUME NEW i \in Known, CheckAttested(w, i) PROVE FrameOK(req'[w])
    <3>1. FrameOK([f EXCEPT !.todo = @ \ {i},
                            !.pc = IF f.todo = {i} THEN "attest" ELSE "check"])
      BY <1>f DEF FrameOK, Idle, Pcs
    <3> QED BY <2>4, <3>1, <1>g, <1>h DEF CheckAttested, Step
  <2> QED
    BY <1>2, <1>h, <1>i, <2>1, <2>2, <2>3, <2>4
    DEF UserNext, SaveAttestation, AttestationStale
<1>3. CASE AuthNext(w)
  <2>1. ASSUME NEW op \in {"jwt", "rotate"}, NEW c \in creds, ReadToken(w, op, c)
        PROVE  FrameOK(req'[w])
    <3>1. c \in Cred /\ c.id \in DOMAIN tokens /\ tokens[c.id] \in Row
      BY <2>1, <1>t DEF ReadToken, TypeOK
    <3>2. FrameOK([Idle EXCEPT !.op = op, !.pc = "window", !.cred = c,
                               !.row = tokens[c.id], !.at = now])
      BY <3>1, <1>k, BlankTypes DEF FrameOK, Idle, AllOps, Pcs
    <3> QED BY <2>1, <3>2, <1>g DEF ReadToken, Step
  <2>2. ASSUME CheckWindow(w) PROVE FrameOK(req'[w])
    <3>1. ASSUME NEW b \in Nat PROVE FrameOK([f EXCEPT !.pc = "issue", !.basis = b])
      BY <1>f DEF FrameOK, Idle, Pcs
    <3>2. f.cred.id \in Nat
      BY <1>f DEF FrameOK, Cred
    <3> QED BY <2>2, <3>1, <3>2, <1>g, <1>h, <1>t DEF CheckWindow, Step
  <2>3. ASSUME IssueJwt(w) PROVE FrameOK(req'[w])
    <3>1. FrameOK([f EXCEPT !.pc = IF f.op = "jwt" THEN "reply" ELSE "load"])
      BY <1>f DEF FrameOK, Idle, Pcs
    <3> QED BY <2>3, <3>1, <1>g, <1>h DEF IssueJwt, Step
  <2>4. ASSUME NEW d \in Lifetimes, LoadForRotation(w, d) PROVE FrameOK(req'[w])
    <3>1. ASSUME NEW i \in DOMAIN tokens
          PROVE  FrameOK([f EXCEPT !.pc = "save", !.row = [tokens[i] EXCEPT !.exp = now + Days(d)]])
      <4>1. now + Days(d) \in Int
        BY <1>k, LifecycleAssumption DEF Days
      <4>2. [tokens[i] EXCEPT !.exp = now + Days(d)] \in Row
        BY <1>t, <4>1 DEF Row
      <4> QED BY <1>f, <4>2 DEF FrameOK, Idle, Pcs
    <3> QED BY <2>4, <3>1, <1>g, <1>h DEF LoadForRotation, Step
  <2>5. ASSUME SaveRotation(w) PROVE FrameOK(req'[w])
    <3> DEFINE i == f.cred.id
    <3>1. i \in Nat
      BY <1>f DEF FrameOK, Cred
    <3>2. FrameOK([f EXCEPT !.pc = "reply", !.cred = [id |-> i, value |-> Plain(fresh)]])
      BY <1>f, <1>k, <3>1 DEF FrameOK, Idle, Pcs, Cred, Value, Plain
    <3> QED BY <2>5, <3>2, <1>g DEF SaveRotation
  <2> QED
    BY <1>3, <1>h, <2>1, <2>2, <2>3, <2>4, <2>5 DEF AuthNext, RotationStale
<1>4. CASE DeleteNext(w)
  <2>1. ASSUME NEW u \in Users, NEW i \in Known, BeginDelete(w, u, i)
        PROVE  FrameOK(req'[w])
    <3>1. FrameOK([Idle EXCEPT !.op = "delete", !.pc = "remove", !.user = u, !.id = i])
      BY <1>k, BlankTypes DEF FrameOK, Idle, AllOps, Pcs
    <3> QED BY <2>1, <3>1, <1>g DEF BeginDelete, Step
  <2>2. ASSUME RemoveToken(w) PROVE FrameOK(req'[w])
    <3>1. FrameOK([f EXCEPT !.gone = {f.id}, !.todo = {f.id}, !.pc = "cascade"])
      BY <1>f DEF FrameOK, Idle, Pcs
    <3> QED BY <2>2, <3>1, <1>g, <1>h DEF RemoveToken, Step
  <2>3. ASSUME NEW u \in Users, BeginRemoveUser(w, u) PROVE FrameOK(req'[w])
    <3>1. /\ Owned(tokens, u) \subseteq Nat
          /\ Entered(tokens, u) \in Pcs
      BY <1>t DEF Owned, Entered, Pcs
    <3>2. req'[w] = [Idle EXCEPT !.op = "deluser", !.user = u, !.gone = Owned(tokens, u),
                                 !.todo = Owned(tokens, u), !.pc = Entered(tokens, u)]
      BY <2>3, <1>f, RemovalFrame
    <3> QED BY <3>1, <3>2, BlankTypes DEF FrameOK, Idle, AllOps
  <2>4. ASSUME NEW u \in Users, AddUser(w, u) PROVE FrameOK(req'[w])
    BY <2>4, <1>f DEF AddUser
  <2>5. ASSUME NEW i \in Known, Cascade(w, i) PROVE FrameOK(req'[w])
    <3>1. /\ Children(tokens, {i}) \subseteq Nat /\ Rest(tokens, f, i) \subseteq Nat
          /\ Onward(tokens, f, i) \in Pcs
      BY <2>5, <1>f, <1>t DEF Cascade, At, Flush, Children, FrameOK, Pcs, Rest, Onward
    <3>2. req'[w] = [f EXCEPT !.gone = @ \cup Children(tokens, {i}),
                              !.todo = Rest(tokens, f, i), !.pc = Onward(tokens, f, i)]
      BY <2>5, <1>f, CascadeFrame DEF FrameOK
    <3> QED BY <3>1, <3>2, <1>f DEF FrameOK, Idle
  <2> QED
    BY <1>4, <1>h, <1>i, <2>1, <2>2, <2>3, <2>4, <2>5
    DEF DeleteNext, DeleteMarked, DeleteRefused, RemoveUser, RemoveUserRefused
<1>5. CASE MfaNext(w)
  <2>1. ASSUME NEW u \in Users, BeginMfa(w, u) PROVE FrameOK(req'[w])
    <3> DEFINE r == NewRow(u, None, SessionName, None, SessionLifetime, TRUE, FALSE)
    <3>1. r \in Row
      BY <1>k, LifecycleAssumption DEF NewRow, Row, Value, Plain
    <3> HIDE DEF r
    <3>2. FrameOK([Idle EXCEPT !.op = "mfa", !.pc = "session", !.user = u, !.at = now,
                               !.row = r])
      BY <3>1, <1>k, BlankTypes DEF FrameOK, Idle, AllOps, Pcs
    <3> QED BY <2>1, <3>2, <1>g DEF BeginMfa, Step, r
  <2>2. ASSUME ReadSession(w) PROVE FrameOK(req'[w])
    <3>1. FrameOK([f EXCEPT !.pc = "replace"])
      BY <1>f DEF FrameOK, Idle, Pcs
    <3>2. ASSUME NEW i \in DOMAIN tokens
          PROVE  FrameOK([f EXCEPT !.id = i,
                                   !.pc = IF Live(tokens[i], f.at) THEN "jwt" ELSE "remove"])
      BY <1>f, <1>t DEF FrameOK, Idle, Pcs
    <3> QED BY <2>2, <3>1, <3>2, <1>g, <1>h DEF ReadSession, Step, Sessions
  <2>3. ASSUME ReplaceSession(w) PROVE FrameOK(req'[w])
    <3>1. FrameOK([f EXCEPT !.pc = "jwt", !.id = fresh])
      BY <1>f, <1>k DEF FrameOK, Idle, Pcs
    <3> QED BY <2>3, <3>1, <1>g DEF ReplaceSession
  <2>4. ASSUME IssueSessionJwt(w) PROVE FrameOK(req'[w])
    <3>1. FrameOK([f EXCEPT !.pc = "reply"])
      BY <1>f DEF FrameOK, Idle, Pcs
    <3> QED BY <2>4, <3>1, <1>g, <1>h DEF IssueSessionJwt, Step
  <2> QED
    BY <1>5, <1>h, <2>1, <2>2, <2>3, <2>4 DEF MfaNext, SessionRefused
<1>6. CASE Reply(w) \/ Crash(w)
  BY <1>6, <1>i DEF Reply, Crash
<1> QED
  BY <1>1, <1>2, <1>3, <1>4, <1>5, <1>6 DEF Serve

-----------------------------------------------------------------------------
(* Numbers.  Every id and secret in use has been drawn already, so the    *)
(* next one drawn is new.                                                 *)

FrameDrawn(f, n) ==
    /\ f.cred.id < n /\ f.cred.value.secret < n
    /\ f.pc = "reply" /\ f.op \in Issuing => f.cred.id > 0

Drawn ==
    /\ \A i \in DOMAIN tokens : tokens[i].value.secret < fresh
    /\ \A c \in creds : c.value.secret < fresh
    /\ \A w \in Workers : FrameDrawn(req[w], fresh)

(* The numbers in the frame after a step are drawn by then.               *)
LEMMA FrameNumbers ==
    ASSUME TypeOK, Drawn, NEW w \in Workers, Serve(w)
    PROVE  FrameDrawn(req'[w], fresh') /\ fresh' \in {fresh, fresh + 1}
<1> DEFINE f == req[w]
<1>f. /\ FrameOK(f) /\ f.cred \in Cred /\ f.cred.id \in Nat
      /\ f.cred.value \in Value /\ f.cred.value.secret \in Nat
      /\ FrameDrawn(f, fresh) /\ fresh \in Nat \ {0}
  BY DEF TypeOK, Drawn, FrameOK, Cred, Value
<1>t. ASSUME NEW i \in DOMAIN tokens
      PROVE  i \in 1 .. fresh - 1 /\ tokens[i].value.secret < fresh
  BY DEF TypeOK, Drawn, Known
<1>0. ASSUME NEW g, Goto(w, g), fresh' = fresh, g.cred = f.cred, g.pc # "reply" \/ g.op \notin Issuing
      PROVE  FrameDrawn(req'[w], fresh') /\ fresh' \in {fresh, fresh + 1}
  <2>1. req'[w] = g
    BY <1>0 DEF Goto, TypeOK
  <2> QED BY <1>f, <1>0, <2>1 DEF FrameDrawn
<1>i. ASSUME Goto(w, Idle), fresh' = fresh
      PROVE  FrameDrawn(req'[w], fresh') /\ fresh' \in {fresh, fresh + 1}
  <2>1. req'[w] = Idle
    BY <1>i DEF Goto, TypeOK
  <2> QED BY <1>f, <1>i, <2>1 DEF FrameDrawn, Idle, NoCred, Plain
<1>h. ASSUME Fail(w) PROVE FrameDrawn(req'[w], fresh') /\ fresh' \in {fresh, fresh + 1}
  BY <1>h, <1>i DEF Fail
<1>b. ASSUME NEW g, Goto(w, g), fresh' = fresh, g.cred = NoCred, g.pc # "reply"
      PROVE  FrameDrawn(req'[w], fresh') /\ fresh' \in {fresh, fresh + 1}
  <2>1. req'[w] = g
    BY <1>b DEF Goto, TypeOK
  <2> QED BY <1>f, <1>b, <2>1 DEF FrameDrawn, NoCred, Plain
<1>n. ASSUME NEW i \in 1 .. fresh, fresh' = fresh + 1,
             Goto(w, [f EXCEPT !.pc = "reply", !.cred = [id |-> i, value |-> Plain(fresh)]])
      PROVE  FrameDrawn(req'[w], fresh') /\ fresh' \in {fresh, fresh + 1}
  <2>1. req'[w].cred = [id |-> i, value |-> Plain(fresh)]
    BY <1>f, <1>n DEF Goto, TypeOK, FrameOK, Idle
  <2> QED BY <1>f, <1>n, <2>1 DEF FrameDrawn, Plain
<1>1. CASE AdminNext(w)
  <2>1. CASE InsertToken(w)
    <3>1. fresh \in 1 .. fresh
      BY <1>f
    <3> QED BY <1>n, <2>1, <3>1 DEF InsertToken
  <2>2. CASE InsertRefused(w)
    BY <1>f, <1>0, <1>h, <2>2 DEF InsertRefused, Step, FrameOK, Idle
  <2>3. CASE RetryLookup(w)
    <3>1. ASSUME NEW i \in DOMAIN tokens,
                 Goto(w, [f EXCEPT !.pc = "reply", !.cred = [id |-> i, value |-> tokens[i].value]]),
                 fresh' = fresh
          PROVE  FrameDrawn(req'[w], fresh') /\ fresh' \in {fresh, fresh + 1}
      <4>1. req'[w].cred = [id |-> i, value |-> tokens[i].value]
        BY <1>f, <3>1 DEF Goto, TypeOK, FrameOK, Idle
      <4> QED BY <1>f, <1>t, <3>1, <4>1 DEF FrameDrawn
    <3> QED BY <2>3, <3>1, <1>h DEF RetryLookup, Step, Subtokens
  <2>4. ASSUME NEW u, NEW p, NEW n, NEW x, NEW life, NEW rot, BeginAdmin(w, u, p, n, x, life, rot)
        PROVE  FrameDrawn(req'[w], fresh') /\ fresh' \in {fresh, fresh + 1}
    BY <2>4, <1>b DEF BeginAdmin, Step, Idle
  <2> QED BY <1>1, <2>1, <2>2, <2>3, <2>4 DEF AdminNext
<1>2. CASE UserNext(w)
  <2>1. ASSUME NEW u, NEW n, NEW life, NEW rot, BeginCreate(w, u, n, life, rot)
        PROVE  FrameDrawn(req'[w], fresh') /\ fresh' \in {fresh, fresh + 1}
    BY <2>1, <1>b DEF BeginCreate, Step, Idle
  <2>2. ASSUME NEW u, NEW S, BeginAttest(w, u, S)
        PROVE  FrameDrawn(req'[w], fresh') /\ fresh' \in {fresh, fresh + 1}
    BY <2>2, <1>b DEF BeginAttest, Step, Idle
  <2>3. ASSUME NEW i, ReadAttested(w, i)
        PROVE  FrameDrawn(req'[w], fresh') /\ fresh' \in {fresh, fresh + 1}
    BY <2>3, <1>f, <1>0, <1>h DEF ReadAttested, Step, FrameOK, Idle
  <2>4. ASSUME NEW i, CheckAttested(w, i)
        PROVE  FrameDrawn(req'[w], fresh') /\ fresh' \in {fresh, fresh + 1}
    BY <2>4, <1>f, <1>0, <1>h DEF CheckAttested, Step, FrameOK, Idle
  <2> QED
    BY <1>2, <1>h, <1>i, <2>1, <2>2, <2>3, <2>4
    DEF UserNext, SaveAttestation, AttestationStale
<1>3. CASE AuthNext(w)
  <2>1. ASSUME NEW op, NEW c \in creds, ReadToken(w, op, c)
        PROVE  FrameDrawn(req'[w], fresh') /\ fresh' \in {fresh, fresh + 1}
    <3>1. req'[w].cred = c /\ req'[w].pc = "window"
      BY <2>1 DEF ReadToken, Step, Goto, Idle, TypeOK
    <3>2. fresh' = fresh /\ c.id < fresh /\ c.value.secret < fresh
      BY <2>1, <1>f, <1>t DEF ReadToken, Step, Drawn
    <3> QED BY <3>1, <3>2 DEF FrameDrawn
  <2>2. CASE CheckWindow(w)
    BY <2>2, <1>f, <1>0, <1>h DEF CheckWindow, Step, FrameOK, Idle
  <2>3. CASE IssueJwt(w)
    BY <2>3, <1>f, <1>0, <1>h DEF IssueJwt, Step, FrameOK, Idle, Issuing
  <2>4. ASSUME NEW d, LoadForRotation(w, d)
        PROVE  FrameDrawn(req'[w], fresh') /\ fresh' \in {fresh, fresh + 1}
    BY <2>4, <1>f, <1>0, <1>h DEF LoadForRotation, Step, FrameOK, Idle
  <2>5. CASE SaveRotation(w)
    <3>1. f.cred.id \in 1 .. fresh
      BY <2>5, <1>f, <1>t DEF SaveRotation
    <3> QED BY <1>n, <2>5, <3>1 DEF SaveRotation
  <2> QED
    BY <1>3, <1>h, <2>1, <2>2, <2>3, <2>4, <2>5 DEF AuthNext, RotationStale
<1>4. CASE DeleteNext(w)
  <2>1. ASSUME NEW u, NEW i, BeginDelete(w, u, i)
        PROVE  FrameDrawn(req'[w], fresh') /\ fresh' \in {fresh, fresh + 1}
    BY <2>1, <1>b DEF BeginDelete, Step, Idle
  <2>2. CASE RemoveToken(w)
    BY <2>2, <1>f, <1>0, <1>h DEF RemoveToken, Step, FrameOK, Idle
  <2>3. ASSUME NEW u, BeginRemoveUser(w, u)
        PROVE  FrameDrawn(req'[w], fresh') /\ fresh' \in {fresh, fresh + 1}
    BY <2>3, <1>b DEF BeginRemoveUser, Step, Idle
  <2>4. ASSUME NEW u, AddUser(w, u)
        PROVE  FrameDrawn(req'[w], fresh') /\ fresh' \in {fresh, fresh + 1}
    BY <2>4, <1>f DEF AddUser
  <2>5. ASSUME NEW i, Cascade(w, i)
        PROVE  FrameDrawn(req'[w], fresh') /\ fresh' \in {fresh, fresh + 1}
    BY <2>5, <1>f, <1>0, <1>h DEF Cascade, Flush, At, Step, FrameOK, Idle
  <2> QED
    BY <1>4, <1>h, <1>i, <2>1, <2>2, <2>3, <2>4, <2>5
    DEF DeleteNext, DeleteMarked, DeleteRefused, RemoveUser, RemoveUserRefused
<1>5. CASE MfaNext(w)
  <2>1. ASSUME NEW u, BeginMfa(w, u)
        PROVE  FrameDrawn(req'[w], fresh') /\ fresh' \in {fresh, fresh + 1}
    BY <2>1, <1>b DEF BeginMfa, Step, Idle
  <2>2. CASE ReadSession(w)
    BY <2>2, <1>f, <1>0, <1>h DEF ReadSession, Step, FrameOK, Idle
  <2>3. CASE ReplaceSession(w)
    <3>1. req'[w].cred = f.cred /\ req'[w].pc = "jwt" /\ fresh' = fresh + 1
      BY <2>3, <1>f DEF ReplaceSession, Goto, TypeOK, FrameOK, Idle
    <3> QED BY <1>f, <3>1 DEF FrameDrawn
  <2>4. CASE IssueSessionJwt(w)
    BY <2>4, <1>f, <1>0, <1>h DEF IssueSessionJwt, At, Step, FrameOK, Idle, Issuing
  <2> QED
    BY <1>5, <1>h, <2>1, <2>2, <2>3, <2>4 DEF MfaNext, SessionRefused
<1>6. CASE Reply(w) \/ Crash(w)
  BY <1>6, <1>i DEF Reply, Crash
<1> QED
  BY <1>1, <1>2, <1>3, <1>4, <1>5, <1>6 DEF Serve

(* The frames of the other workers stay as they are.                      *)
LEMMA OtherFrames ==
    ASSUME TypeOK, NEW w \in Workers, Serve(w)
    PROVE  /\ DOMAIN req' = Workers
           /\ \A v \in Workers \ {w} : req'[v] = req[v]
<1>1. (\E g : Goto(w, g)) \/ req' = req
  BY StepKinds DEF InsertToken, SaveRotation, SaveAttestation, DeleteMarked, ReplaceSession,
     RemoveUser, AddUser, Reply, Crash, Quiet
<1> QED
  BY <1>1 DEF Goto, TypeOK

LEMMA TypeStep ==
    ASSUME TypeOK, Drawn, [Next]_vars
    PROVE  TypeOK' /\ Drawn'
<1>1. CASE UNCHANGED vars
  BY <1>1 DEF vars, TypeOK, Drawn, Known
<1>2. CASE Tick
  BY <1>2 DEF Tick, TypeOK, Drawn, Known
<1>3. ASSUME NEW w \in Workers, Serve(w)
      PROVE  TypeOK' /\ Drawn'
  <2> DEFINE f == req[w]
  <2>f. /\ FrameOK(f) /\ FrameDrawn(f, fresh) /\ f.cred \in Cred /\ f.cred.id \in Nat
        /\ f.row \in Row /\ f.row.exp \in Int
    BY DEF TypeOK, Drawn, FrameOK, Cred, Row
  <2>n. fresh \in Nat \ {0} /\ fresh' \in {fresh, fresh + 1} /\ Known \subseteq Known'
    BY <1>3, FrameNumbers DEF TypeOK, Known
  <2>1. DOMAIN req' = Workers /\ \A v \in Workers : FrameOK(req'[v]) /\ FrameDrawn(req'[v], fresh')
    <3>1. ASSUME NEW v \in Workers \ {w} PROVE FrameOK(req[v]) /\ FrameDrawn(req[v], fresh')
      <4>1. FrameOK(req[v]) /\ FrameDrawn(req[v], fresh)
        BY DEF TypeOK, Drawn
      <4>2. req[v].cred.id \in Nat /\ req[v].cred.value.secret \in Nat
        BY <4>1 DEF FrameOK, Cred, Value
      <4> QED BY <4>1, <4>2, <2>n DEF FrameDrawn
    <3> QED BY <1>3, <3>1, OtherFrames, FrameTypes, FrameNumbers
  <2>2. /\ users' \subseteq Users /\ now' \in Nat
        /\ DOMAIN tokens' \subseteq Known' /\ \A i \in DOMAIN tokens' : tokens'[i] \in Row
        /\ DOMAIN permits' = DOMAIN tokens' /\ \A i \in DOMAIN permits' : permits'[i] \in Int
        /\ creds' \subseteq Cred /\ \A c \in creds' : c.id \in Known'
        /\ lost' \subseteq Known'
        /\ \A i \in DOMAIN tokens' : tokens'[i].value.secret < fresh'
        /\ \A c \in creds' : c.value.secret < fresh'
    <3>k. /\ DOMAIN tokens \subseteq Known /\ \A i \in DOMAIN tokens : tokens[i] \in Row
          /\ DOMAIN permits = DOMAIN tokens /\ \A i \in DOMAIN permits : permits[i] \in Int
          /\ users \subseteq Users /\ now \in Nat /\ creds \subseteq Cred /\ lost \subseteq Known
          /\ \A c \in creds : c.id \in Known /\ c.value.secret < fresh
          /\ \A i \in DOMAIN tokens : tokens[i].value.secret < fresh
      BY DEF TypeOK, Drawn
    <3>v. ASSUME NEW s \in Nat
          PROVE  /\ Plain(s) \in Value /\ Plain(s).secret = s
                 /\ Hashed(s) \in Value /\ Hashed(s).secret = s
      BY DEF Plain, Hashed, Value
    <3>s. /\ \A c \in creds : c.value.secret < fresh'
          /\ \A i \in DOMAIN tokens : tokens[i].value.secret < fresh'
      <4>1. \A c \in creds : c.value.secret \in Nat
        BY <3>k DEF Cred, Value
      <4>2. \A i \in DOMAIN tokens : tokens[i].value.secret \in Nat
        BY <3>k DEF Row, Value
      <4> QED BY <3>k, <4>1, <4>2, <2>n
    <3>1. CASE InsertToken(w)
      <4>1. Stored(f.row, fresh) \in Row /\ Stored(f.row, fresh).value.secret = fresh
        BY <2>f, <2>n, <3>v DEF Stored, Row
      <4>2. fresh \in Known' /\ fresh' = fresh + 1
        BY <3>1, <2>n DEF InsertToken, Known
      <4>3. /\ \A i \in DOMAIN tokens' : tokens'[i] \in Row /\ tokens'[i].value.secret < fresh'
            /\ DOMAIN tokens' \subseteq Known'
        BY <3>1, <3>k, <3>s, <2>n, <4>1, <4>2 DEF InsertToken, Insert
      <4>4. DOMAIN permits' = DOMAIN tokens' /\ \A i \in DOMAIN permits' : permits'[i] \in Int
        BY <3>1, <3>k DEF InsertToken, Insert
      <4> QED BY <3>1, <3>k, <3>s, <2>n, <4>3, <4>4 DEF InsertToken
    <3>2. CASE SaveRotation(w)
      <4> DEFINE i == f.cred.id
      <4>1. /\ i \in DOMAIN tokens /\ fresh' = fresh + 1
            /\ tokens' = [tokens EXCEPT ![i].value = Hashed(fresh), ![i].exp = f.row.exp,
                                        ![i].rotatable = FALSE]
        BY <3>2 DEF SaveRotation
      <4>a. Hashed(fresh) \in Value /\ Hashed(fresh).secret = fresh /\ f.row.exp \in Int
        BY <3>v, <2>f, <2>n DEF Row
      <4>b. tokens'[i] = [tokens[i] EXCEPT !.value = Hashed(fresh), !.exp = f.row.exp,
                                           !.rotatable = FALSE]
        BY <4>1
      <4>c. tokens'[i] \in Row /\ tokens'[i].value = Hashed(fresh)
        <5>1. tokens[i] \in Row
          BY <4>1, <3>k
        <5> QED BY <5>1, <4>a, <4>b DEF Row
      <4>d. ASSUME NEW j \in DOMAIN tokens, j # i PROVE tokens'[j] = tokens[j]
        BY <4>d, <4>1
      <4>2. \A j \in DOMAIN tokens' : tokens'[j] \in Row /\ tokens'[j].value.secret < fresh'
        <5>1. DOMAIN tokens' = DOMAIN tokens
          BY <4>1
        <5>2. tokens'[i].value.secret < fresh'
          BY <4>a, <4>c, <4>1, <2>n
        <5> QED BY <5>1, <5>2, <4>c, <4>d, <3>k, <3>s
      <4>3. DOMAIN tokens' = DOMAIN tokens /\ DOMAIN permits' = DOMAIN permits
        BY <3>2, <4>1 DEF SaveRotation
      <4>4. \A j \in DOMAIN permits' : permits'[j] \in Int
        BY <3>2, <3>k DEF SaveRotation
      <4> QED BY <3>2, <3>k, <3>s, <2>n, <4>2, <4>3, <4>4 DEF SaveRotation
    <3>3. CASE SaveAttestation(w)
      <4>1. DOMAIN tokens' = DOMAIN tokens /\ DOMAIN permits' = DOMAIN permits
        BY <3>3 DEF SaveAttestation
      <4>2. ASSUME NEW i \in DOMAIN tokens
            PROVE  tokens'[i] \in Row /\ tokens'[i].value = tokens[i].value
        <5>1. tokens'[i] \in {tokens[i], [tokens[i] EXCEPT !.rotatable = TRUE]}
          BY <3>3 DEF SaveAttestation
        <5>2. tokens[i] \in Row
          BY <3>k
        <5> QED BY <5>1, <5>2 DEF Row
      <4>3. \A i \in DOMAIN permits' : permits'[i] \in Int
        BY <3>3, <3>k DEF SaveAttestation
      <4> QED BY <3>3, <3>k, <3>s, <2>n, <4>1, <4>2, <4>3 DEF SaveAttestation
    <3>4. CASE DeleteMarked(w)
      BY <3>4, <3>k, <3>s, <2>n DEF DeleteMarked, Delete
    <3>5. CASE ReplaceSession(w)
      <4> DEFINE r == [f.row EXCEPT !.value = Plain(fresh)]
      <4>1. r \in Row /\ r.value.secret = fresh
        BY <2>f, <2>n, <3>v DEF Row
      <4>2. fresh \in Known' /\ fresh' = fresh + 1
        BY <3>5, <2>n DEF ReplaceSession, Known
      <4>3. /\ \A i \in DOMAIN tokens' : tokens'[i] \in Row /\ tokens'[i].value.secret < fresh'
            /\ DOMAIN tokens' \subseteq Known'
        BY <3>5, <3>k, <3>s, <2>n, <4>1, <4>2 DEF ReplaceSession, Insert, Delete
      <4>4. DOMAIN permits' = DOMAIN tokens' /\ \A i \in DOMAIN permits' : permits'[i] \in Int
        BY <3>5, <3>k DEF ReplaceSession, Insert, Delete
      <4> QED BY <3>5, <3>k, <3>s, <2>n, <4>3, <4>4 DEF ReplaceSession
    <3>6. CASE RemoveUser(w)
      BY <3>6, <3>k, <3>s, <2>n DEF RemoveUser, Delete
    <3>7. CASE \E u \in Users : AddUser(w, u)
      BY <3>7, <3>k, <3>s, <2>n DEF AddUser
    <3>8. CASE Reply(w)
      <4>1. f.pc = "reply" /\ f.op \in Issuing =>
                f.cred.id \in Known /\ f.cred.value.secret < fresh
        BY <2>f, <2>n DEF FrameDrawn, Known
      <4> QED BY <3>8, <3>k, <3>s, <2>f, <2>n, <4>1 DEF Reply
    <3>9. CASE Crash(w)
      <4>1. f.pc = "reply" /\ f.op \in Issuing => f.cred.id \in Known
        BY <2>f, <2>n DEF FrameDrawn, Known
      <4> QED BY <3>9, <3>k, <3>s, <2>n, <4>1 DEF Crash
    <3>10. CASE Quiet(w)
      BY <3>10, <3>k, <3>s, <2>n DEF Quiet, Shared
    <3> QED
      BY <1>3, StepKinds, <3>1, <3>2, <3>3, <3>4, <3>5, <3>6, <3>7, <3>8, <3>9, <3>10
  <2>3. TypeOK'
    <3>1. fresh' \in Nat \ {0}
      BY <2>n
    <3> QED BY <2>1, <2>2, <3>1 DEF TypeOK
  <2>4. Drawn'
    BY <2>1, <2>2, <2>n DEF Drawn
  <2> QED
    BY <2>3, <2>4
<1> QED
  BY <1>1, <1>2, <1>3 DEF Next

(* TokenLifecycle keeps every variable of its type, whatever the number   *)
(* of processes and the bounds, and draws no number twice.                *)
THEOREM TypeCorrect == Spec => [](TypeOK /\ Drawn)
<1>1. ASSUME Init PROVE TypeOK /\ Drawn
  <2>1. FrameOK(Idle) /\ FrameDrawn(Idle, 1)
    BY BlankTypes DEF FrameDrawn, Idle, NoCred, Plain
  <2> QED BY <1>1, <2>1 DEF Init, TypeOK, Drawn, Known
<1>2. TypeOK /\ Drawn /\ [Next]_vars => TypeOK' /\ Drawn'
  BY TypeStep
<1> QED
  BY <1>1, <1>2, PTL DEF Spec

-----------------------------------------------------------------------------
(* The table.                                                             *)

(* A row that stays keeps its owner, parent, name and external id, and a  *)
(* row that is added has an id never drawn before.                        *)
LEMMA RowsKept ==
    ASSUME TypeOK, [Next]_vars
    PROVE  /\ \A i \in DOMAIN tokens \cap DOMAIN tokens' :
                  /\ tokens'[i].parent = tokens[i].parent
                  /\ Key(tokens'[i]) = Key(tokens[i])
                  /\ tokens'[i].user = tokens[i].user
                  /\ tokens'[i].session = tokens[i].session
           /\ \A i \in DOMAIN tokens' \ DOMAIN tokens : i = fresh /\ fresh' = fresh + 1
<1>t. \A i \in DOMAIN tokens : tokens[i] \in Row
  BY DEF TypeOK
<1>1. CASE UNCHANGED vars \/ Tick
  BY <1>1 DEF vars, Tick
<1>2. ASSUME NEW w \in Workers, Serve(w)
      PROVE  /\ \A i \in DOMAIN tokens \cap DOMAIN tokens' :
                  /\ tokens'[i].parent = tokens[i].parent
                  /\ Key(tokens'[i]) = Key(tokens[i])
                  /\ tokens'[i].user = tokens[i].user
                  /\ tokens'[i].session = tokens[i].session
             /\ \A i \in DOMAIN tokens' \ DOMAIN tokens : i = fresh /\ fresh' = fresh + 1
  <2>k. fresh \notin DOMAIN tokens
    BY DEF TypeOK, Known
  <2>1. CASE InsertToken(w)
    BY <2>1, <2>k DEF InsertToken, Insert
  <2>2. CASE SaveRotation(w)
    <3>1. DOMAIN tokens' = DOMAIN tokens
      BY <2>2 DEF SaveRotation
    <3>2. \A i \in DOMAIN tokens :
             /\ tokens'[i].parent = tokens[i].parent /\ tokens'[i].user = tokens[i].user
             /\ tokens'[i].name = tokens[i].name /\ tokens'[i].ext = tokens[i].ext
             /\ tokens'[i].session = tokens[i].session
      BY <2>2, <1>t DEF SaveRotation, Row
    <3> QED BY <3>1, <3>2 DEF Key
  <2>3. CASE SaveAttestation(w)
    <3>1. DOMAIN tokens' = DOMAIN tokens
      BY <2>3 DEF SaveAttestation
    <3>2. \A i \in DOMAIN tokens :
             /\ tokens'[i].parent = tokens[i].parent /\ tokens'[i].user = tokens[i].user
             /\ tokens'[i].name = tokens[i].name /\ tokens'[i].ext = tokens[i].ext
             /\ tokens'[i].session = tokens[i].session
      BY <2>3, <1>t DEF SaveAttestation, Row
    <3> QED BY <3>1, <3>2 DEF Key
  <2>4. CASE DeleteMarked(w) \/ RemoveUser(w)
    BY <2>4 DEF DeleteMarked, RemoveUser, Delete
  <2>5. CASE ReplaceSession(w)
    BY <2>5, <2>k DEF ReplaceSession, Insert, Delete
  <2>6. CASE (\E u \in Users : AddUser(w, u)) \/ Reply(w) \/ Crash(w) \/ Quiet(w)
    BY <2>6 DEF AddUser, Reply, Crash, Quiet, Shared
  <2> QED
    BY <1>2, StepKinds, <2>1, <2>2, <2>3, <2>4, <2>5, <2>6
<1> QED
  BY <1>1, <1>2 DEF Next

(* No step leaves a token behind whose owner or parent is gone.           *)
LEMMA ReferencesStep ==
    ASSUME TypeOK, NothingLeftBehind, [Next]_vars
    PROVE  NothingLeftBehind'
<1> SUFFICES ASSUME NEW i \in DOMAIN tokens'
             PROVE  References(tokens', users', tokens'[i])
  BY DEF NothingLeftBehind
<1>o. i \in DOMAIN tokens => References(tokens, users, tokens[i])
  BY DEF NothingLeftBehind
<1>r. i \in DOMAIN tokens => tokens'[i].parent = tokens[i].parent /\ tokens'[i].user = tokens[i].user
  BY RowsKept
<1>1. CASE UNCHANGED vars \/ Tick
  BY <1>1, <1>o DEF vars, Tick
<1>2. ASSUME NEW w \in Workers, Serve(w)
      PROVE  References(tokens', users', tokens'[i])
  <2>f. req[w].row \in Row
    BY DEF TypeOK, FrameOK
  <2>1. CASE InsertToken(w)
    <3>1. /\ Stored(req[w].row, fresh).user = req[w].row.user
          /\ Stored(req[w].row, fresh).parent = req[w].row.parent
      BY <2>f DEF Stored, Row
    <3> QED BY <2>1, <3>1, <1>o DEF InsertToken, Insert, References
  <2>2. CASE SaveRotation(w) \/ SaveAttestation(w)
    BY <2>2, <1>o, <1>r DEF SaveRotation, SaveAttestation, References
  <2>3. CASE DeleteMarked(w)
    BY <2>3, <1>o DEF DeleteMarked, Delete, References, Removable, Children
  <2>4. CASE ReplaceSession(w)
    <3> DEFINE r == [req[w].row EXCEPT !.value = Plain(fresh)]
    <3>1. r.user = req[w].row.user /\ r.parent = req[w].row.parent
      BY <2>f DEF Row
    <3>2. /\ tokens' = Insert(Delete(tokens, req[w].gone), fresh, r) /\ users' = users
          /\ Removable(tokens, req[w].gone)
          /\ References(Delete(tokens, req[w].gone), users, req[w].row)
      BY <2>4 DEF ReplaceSession, SessionAccepted
    <3> HIDE DEF r
    <3>d. DOMAIN tokens' = (DOMAIN tokens \ req[w].gone) \cup {fresh}
      BY <3>2 DEF Insert, Delete
    <3>3. CASE i = fresh
      <4>1. tokens'[i] = r
        BY <3>2, <3>3 DEF Insert
      <4> QED BY <3>1, <3>2, <3>d, <4>1 DEF Delete, References
    <3>4. CASE i # fresh
      <4>1. i \in DOMAIN tokens \ req[w].gone /\ tokens'[i] = tokens[i]
        BY <3>2, <3>4, <3>d DEF Insert, Delete
      <4>2. tokens[i].parent \notin req[w].gone
        BY <3>2, <4>1 DEF Removable, Children
      <4> QED BY <3>2, <3>d, <1>o, <4>1, <4>2 DEF References
    <3> QED BY <3>3, <3>4
  <2>5. CASE RemoveUser(w)
    BY <2>5, <1>o DEF RemoveUser, UserRemovable, Delete, References, Removable, Children, Owned
  <2>6. CASE (\E u \in Users : AddUser(w, u)) \/ Reply(w) \/ Crash(w) \/ Quiet(w)
    BY <2>6, <1>o DEF AddUser, Reply, Crash, Quiet, Shared, References
  <2> QED
    BY <1>2, StepKinds, <2>1, <2>2, <2>3, <2>4, <2>5, <2>6
<1> QED
  BY <1>1, <1>2 DEF Next

(* A removed user or parent leaves nothing behind, whatever requests were *)
(* under way.                                                             *)
THEOREM NothingIsLeftBehind == Spec => []NothingLeftBehind
<1>1. Init => NothingLeftBehind
  BY DEF Init, NothingLeftBehind
<1>2. TypeOK /\ NothingLeftBehind /\ [Next]_vars => NothingLeftBehind'
  BY ReferencesStep
<1> QED
  BY <1>1, <1>2, TypeCorrect, PTL DEF Spec

-----------------------------------------------------------------------------
(* Revocation.                                                            *)

(* A stored value changes only to the hash of a new secret.               *)
LEMMA ValuesKept ==
    ASSUME TypeOK, [Next]_vars, NEW i \in DOMAIN tokens \cap DOMAIN tokens'
    PROVE  tokens'[i].value \in {tokens[i].value, Hashed(fresh)}
<1>t. tokens[i] \in Row /\ fresh \notin DOMAIN tokens
  BY DEF TypeOK, Known
<1>1. CASE UNCHANGED vars \/ Tick
  BY <1>1 DEF vars, Tick
<1>2. ASSUME NEW w \in Workers, Serve(w)
      PROVE  tokens'[i].value \in {tokens[i].value, Hashed(fresh)}
  <2>1. CASE InsertToken(w)
    BY <2>1, <1>t DEF InsertToken, Insert
  <2>2. CASE SaveRotation(w)
    BY <2>2, <1>t DEF SaveRotation, Row
  <2>3. CASE SaveAttestation(w)
    BY <2>3, <1>t DEF SaveAttestation, Row
  <2>4. CASE DeleteMarked(w) \/ RemoveUser(w)
    BY <2>4 DEF DeleteMarked, RemoveUser, Delete
  <2>5. CASE ReplaceSession(w)
    BY <2>5, <1>t DEF ReplaceSession, Insert, Delete
  <2>6. CASE (\E u \in Users : AddUser(w, u)) \/ Reply(w) \/ Crash(w) \/ Quiet(w)
    BY <2>6 DEF AddUser, Reply, Crash, Quiet, Shared
  <2> QED
    BY <1>2, StepKinds, <2>1, <2>2, <2>3, <2>4, <2>5, <2>6
<1> QED
  BY <1>1, <1>2 DEF Next

LEMMA RevocationStep ==
    ASSUME TypeOK, Drawn, [Next]_vars,
           NEW c \in creds, ~Accepted(tokens, c)
    PROVE  ~Accepted(tokens', c)
<1> SUFFICES ASSUME Accepted(tokens', c)
             PROVE  FALSE
  OBVIOUS
<1> DEFINE i == c.id
<1>1. c.id \in 1 .. fresh - 1 /\ c.value.secret < fresh /\ fresh \in Nat
  BY DEF TypeOK, Drawn, Known
<1>2. i \in DOMAIN tokens \cap DOMAIN tokens'
  BY <1>1, RowsKept DEF Accepted
<1>3. tokens'[i].parent = tokens[i].parent
  BY <1>2, RowsKept
<1>4. tokens'[i].value \in {tokens[i].value, Hashed(fresh)}
  BY <1>2, ValuesKept
<1>5. CASE tokens'[i].value = tokens[i].value
  BY <1>2, <1>3, <1>5 DEF Accepted, Matches
<1>6. CASE tokens'[i].value = Hashed(fresh)
  <2>1. c.value # Hashed(fresh) /\ c.value # Plain(fresh)
    BY <1>1 DEF Hashed, Plain
  <2> QED BY <1>6, <2>1 DEF Accepted, Matches, Hashed
<1> QED
  BY <1>4, <1>5, <1>6

(* A token string that is no longer accepted is never accepted again.     *)
THEOREM RevocationFinal == Spec => RevocationIsFinal
<1>1. TypeOK /\ Drawn /\ [Next]_vars =>
         [\A c \in creds : ~Accepted(tokens, c) => ~Accepted(tokens', c)]_vars
  <2> SUFFICES ASSUME TypeOK, Drawn, [Next]_vars
               PROVE  \A c \in creds : ~Accepted(tokens, c) => ~Accepted(tokens', c)
    OBVIOUS
  <2> QED BY RevocationStep
<1> QED
  BY <1>1, TypeCorrect, PTL DEF Spec, RevocationIsFinal

-----------------------------------------------------------------------------
(* JWTs for subtokens.                                                    *)

(* The handlers that lead to a JWT are reached by three steps only.       *)
LEMMA JwtFrames ==
    ASSUME TypeOK, NEW w \in Workers, Serve(w),
           \/ req'[w].pc \in {"window", "issue"}
           \/ req'[w].op = "jwt" /\ req'[w].pc = "reply"
    PROVE  \/ \E op \in {"jwt", "rotate"}, c \in creds : ReadToken(w, op, c)
           \/ CheckWindow(w) \/ IssueJwt(w) \/ req'[w] = req[w]
<1> DEFINE f == req[w]
<1>f. FrameOK(f) /\ DOMAIN f = DOMAIN Idle /\ DOMAIN req = Workers
  BY DEF TypeOK, FrameOK
<1>g. ASSUME NEW g, Goto(w, g) PROVE req'[w] = g
  BY <1>g, <1>f DEF Goto
<1>i. ~Goto(w, Idle)
  BY <1>g DEF Idle
<1>h. ~Fail(w)
  BY <1>i DEF Fail
<1>1. CASE AdminNext(w)
  <2>1. ASSUME NEW c PROVE [f EXCEPT !.pc = "reply", !.cred = c].op = f.op
    BY <1>f DEF Idle
  <2>2. ~(InsertToken(w) \/ RetryLookup(w))
    BY <2>1, <1>f, <1>g, <1>h DEF InsertToken, RetryLookup, Step, At, Idle
  <2>3. [f EXCEPT !.pc = "retry"].pc = "retry"
    BY <1>f DEF Idle
  <2>4. ~InsertRefused(w)
    BY <2>3, <1>g, <1>h DEF InsertRefused, Step
  <2>5. ASSUME NEW u, NEW p, NEW n, NEW x, NEW life, NEW rot, BeginAdmin(w, u, p, n, x, life, rot)
        PROVE  FALSE
    <3> DEFINE r == NewRow(u, IF p = Blank THEN None ELSE p, n, x, life, FALSE, rot)
    <3> HIDE DEF r
    <3>1. req'[w] = [Idle EXCEPT !.op = "admin", !.pc = "insert", !.user = u,
                                 !.asked = p, !.row = r]
      BY <2>5, <1>g DEF BeginAdmin, Step, r
    <3>2. req'[w].pc = "insert" /\ req'[w].op = "admin"
      BY <3>1 DEF Idle
    <3> QED BY <3>2
  <2> QED
    BY <1>1, <2>2, <2>4, <2>5 DEF AdminNext
<1>2. CASE UserNext(w)
  <2>1. ASSUME NEW u, NEW n, NEW life, NEW rot, BeginCreate(w, u, n, life, rot)
        PROVE  FALSE
    <3> DEFINE r == NewRow(u, None, n, None, life, FALSE, rot)
    <3> HIDE DEF r
    <3>1. req'[w] = [Idle EXCEPT !.op = "create", !.pc = "insert", !.user = u, !.row = r]
      BY <2>1, <1>g DEF BeginCreate, Step, r
    <3>2. req'[w].pc = "insert" /\ req'[w].op = "create"
      BY <3>1 DEF Idle
    <3> QED BY <3>2
  <2>2. ASSUME NEW u, NEW S, BeginAttest(w, u, S)
        PROVE  FALSE
    <3>1. req'[w].pc = "read" /\ req'[w].op = "attest"
      BY <2>2, <1>g DEF BeginAttest, Step, Idle
    <3> QED BY <3>1
  <2>3. ASSUME NEW i, ReadAttested(w, i)
        PROVE  FALSE
    <3>1. req'[w].pc \in {"check", "read"} /\ req'[w].op = f.op
      BY <2>3, <1>f, <1>g, <1>h DEF ReadAttested, Step, Idle
    <3> QED BY <3>1
  <2>4. ASSUME NEW i, CheckAttested(w, i)
        PROVE  FALSE
    <3>1. req'[w].pc \in {"check", "attest"}
      BY <2>4, <1>f, <1>g, <1>h DEF CheckAttested, Step, Idle
    <3> QED BY <3>1
  <2> QED
    BY <1>2, <1>h, <1>i, <2>1, <2>2, <2>3, <2>4
    DEF UserNext, SaveAttestation, AttestationStale
<1>3. CASE AuthNext(w)
  BY <1>3, <1>f, <1>g, <1>h DEF AuthNext, LoadForRotation, SaveRotation, RotationStale, Step, At, Idle
<1>4. CASE DeleteNext(w)
  <2>1. ASSUME NEW u, NEW i, BeginDelete(w, u, i) PROVE FALSE
    <3>1. req'[w].pc = "remove" /\ req'[w].op = "delete"
      BY <2>1, <1>g DEF BeginDelete, Step, Idle
    <3> QED BY <3>1
  <2>2. ASSUME RemoveToken(w) PROVE FALSE
    <3>1. req'[w].pc = "cascade"
      BY <2>2, <1>f, <1>g, <1>h DEF RemoveToken, Step, Idle
    <3> QED BY <3>1
  <2>3. ASSUME NEW u, BeginRemoveUser(w, u) PROVE FALSE
    BY <2>3, <1>f, RemovalFrame DEF Entered
  <2>4. ASSUME NEW u, AddUser(w, u) PROVE req'[w] = req[w]
    BY <2>4 DEF AddUser
  <2>5. ~(DeleteMarked(w) \/ DeleteRefused(w) \/ RemoveUser(w) \/ RemoveUserRefused(w))
    BY <1>h, <1>i DEF DeleteMarked, DeleteRefused, RemoveUser, RemoveUserRefused
  <2>6. ASSUME NEW i, Cascade(w, i) PROVE FALSE
    BY <2>6, <1>f, CascadeFrame DEF Cascade, At, Flush, Onward
  <2> QED
    BY <1>4, <2>1, <2>2, <2>3, <2>4, <2>5, <2>6 DEF DeleteNext
<1>5. CASE MfaNext(w)
  <2>1. ASSUME NEW u, BeginMfa(w, u) PROVE FALSE
    <3> DEFINE r == NewRow(u, None, SessionName, None, SessionLifetime, TRUE, FALSE)
    <3> HIDE DEF r
    <3>1. req'[w] = [Idle EXCEPT !.op = "mfa", !.pc = "session", !.user = u,
                                 !.at = now, !.row = r]
      BY <2>1, <1>g DEF BeginMfa, Step, r
    <3>2. req'[w].pc = "session" /\ req'[w].op = "mfa"
      BY <3>1 DEF Idle
    <3> QED BY <3>2
  <2>2. ASSUME ReadSession(w) PROVE FALSE
    <3>1. req'[w].pc \in {"replace", "jwt", "remove"}
      BY <2>2, <1>f, <1>g, <1>h DEF ReadSession, Step, Idle
    <3> QED BY <3>1
  <2>3. ~SessionRefused(w)
    BY <1>h DEF SessionRefused
  <2>4. ASSUME ReplaceSession(w) PROVE FALSE
    BY <2>4, <1>f, <1>g DEF ReplaceSession, At, Idle
  <2>5. ASSUME IssueSessionJwt(w) PROVE FALSE
    BY <2>5, <1>f, <1>g, <1>h DEF IssueSessionJwt, Step, At, Idle
  <2> QED
    BY <1>5, <2>1, <2>2, <2>3, <2>4, <2>5 DEF MfaNext
<1>6. CASE Reply(w) \/ Crash(w)
  BY <1>6, <1>i DEF Reply, Crash
<1> QED
  BY <1>1, <1>2, <1>3, <1>4, <1>5, <1>6 DEF Serve

(* What the handler knows between its reads: the parent it read is that   *)
(* of the row, if the row is still there; and if it fell back to the      *)
(* token's own dates although there is a parent_id, the row has gone.     *)
Anchored(T, f) ==
    f.op \in {"jwt", "rotate"} =>
       /\ f.pc \in {"window", "issue"} /\ f.cred.id \in DOMAIN T =>
             T[f.cred.id].parent = f.row.parent
       /\ f.pc = "issue" /\ f.row.parent # None /\ f.basis # f.row.parent =>
             f.cred.id \notin DOMAIN T
       /\ f.op = "jwt" /\ f.pc = "reply" /\ f.row.parent # None => f.basis = f.row.parent

JwtInv == \A w \in Workers : Anchored(tokens, req[w])

LEMMA JwtStep ==
    ASSUME TypeOK, Drawn, NothingLeftBehind, JwtInv, [Next]_vars
    PROVE  JwtInv'
<1>1. ASSUME NEW v \in Workers, req'[v] = req[v]
      PROVE  Anchored(tokens', req'[v])
  <2>1. req[v].cred.id < fresh /\ req[v].cred.id \in Nat /\ Anchored(tokens, req[v])
    BY DEF Drawn, FrameDrawn, TypeOK, FrameOK, Cred, JwtInv
  <2>2. req[v].cred.id \in DOMAIN tokens' => req[v].cred.id \in DOMAIN tokens
    BY <2>1, RowsKept
  <2> QED BY <1>1, <2>1, <2>2, RowsKept DEF Anchored
<1>2. CASE UNCHANGED vars \/ Tick
  BY <1>1, <1>2 DEF vars, Tick, JwtInv
<1>3. ASSUME NEW w \in Workers, Serve(w)
      PROVE  JwtInv'
  <2> DEFINE f == req[w]
  <2>f. /\ DOMAIN f = DOMAIN Idle /\ DOMAIN req = Workers
        /\ Anchored(tokens, f)
    BY DEF TypeOK, FrameOK, JwtInv
  <2> SUFFICES Anchored(tokens', req'[w])
    BY <1>1, <1>3, OtherFrames DEF JwtInv
  <2>1. ASSUME NEW op \in {"jwt", "rotate"}, NEW c \in creds, ReadToken(w, op, c)
        PROVE  Anchored(tokens', req'[w])
    <3>1. /\ req'[w].pc = "window" /\ req'[w].cred = c /\ req'[w].row = tokens[c.id]
          /\ tokens' = tokens
      BY <2>1, <2>f DEF ReadToken, Step, Goto, Idle
    <3> QED BY <3>1 DEF Anchored
  <2>2. CASE CheckWindow(w) /\ ~Fail(w)
    <3> DEFINE p == f.row.parent
    <3>1. /\ tokens' = tokens /\ f.pc = "window" /\ f.op \in {"jwt", "rotate"}
          /\ req'[w] = [f EXCEPT !.pc = "issue",
                                 !.basis = IF p \in DOMAIN tokens THEN p ELSE f.cred.id]
      BY <2>2, <2>f DEF CheckWindow, At, Step, Goto
    <3>2. /\ req'[w].pc = "issue" /\ req'[w].row.parent = p /\ req'[w].cred = f.cred
          /\ req'[w].basis = IF p \in DOMAIN tokens THEN p ELSE f.cred.id
      BY <3>1, <2>f DEF Idle
    <3>3. p # None /\ p \notin DOMAIN tokens => f.cred.id \notin DOMAIN tokens
      BY <3>1, <2>f DEF Anchored, NothingLeftBehind, References
    <3> QED BY <3>1, <3>2, <3>3, <2>f DEF Anchored
  <2>3. CASE IssueJwt(w) /\ ~Fail(w)
    <3>1. /\ f.cred.id \in DOMAIN tokens /\ f.pc = "issue" /\ f.op \in {"jwt", "rotate"}
          /\ req'[w] = [f EXCEPT !.pc = IF f.op = "jwt" THEN "reply" ELSE "load"]
      BY <2>3, <2>f DEF IssueJwt, At, Step, Goto
    <3>2. /\ req'[w].pc \in {"reply", "load"} /\ req'[w].row.parent = f.row.parent
          /\ req'[w].basis = f.basis
      BY <3>1, <2>f DEF Idle
    <3> QED BY <3>1, <3>2, <2>f DEF Anchored
  <2>4. CASE ~(\/ req'[w].pc \in {"window", "issue"}
               \/ req'[w].op = "jwt" /\ req'[w].pc = "reply")
    BY <2>4 DEF Anchored
  <2>5. CASE Fail(w)
    <3>1. req'[w] = Idle
      BY <2>5, <2>f DEF Fail, Goto
    <3> QED BY <3>1 DEF Anchored, Idle
  <2> QED
    BY <1>1, <1>3, <2>1, <2>2, <2>3, <2>4, <2>5, JwtFrames
<1> QED
  BY <1>2, <1>3 DEF Next

(* No JWT is given for a subtoken on the strength of its own dates.       *)
THEOREM JwtOnParent == Spec => []JwtDecidedOnParent
<1>1. Init => JwtInv
  BY DEF Init, JwtInv, Anchored, Idle
<1>2. TypeOK /\ Drawn /\ NothingLeftBehind /\ JwtInv /\ [Next]_vars => JwtInv'
  BY JwtStep
<1>3. JwtInv => JwtDecidedOnParent
  BY DEF JwtInv, Anchored, JwtDecidedOnParent, Replying
<1> QED
  BY <1>1, <1>2, <1>3, TypeCorrect, NothingIsLeftBehind, PTL DEF Spec
=============================================================================
