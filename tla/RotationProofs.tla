---------------------------- MODULE RotationProofs -----------------------------
(***************************************************************************)
(* Rotation never strands a token that has no parent; and what one process *)
(* alone guarantees, and several do not: an attestation is good for one    *)
(* rotation, and a successful attestation sticks.                          *)
(***************************************************************************)
EXTENDS SerialProofs

-----------------------------------------------------------------------------
(* Any number of processes. *)

(* A request that has committed and is to be answered does nothing else.  *)
LEMMA OnlyAnswers ==
    ASSUME NEW w \in Workers, Serve(w), req[w].pc = "reply"
    PROVE  Reply(w) \/ Crash(w)
<1>1. ~AdminNext(w)
  BY DEF AdminNext, BeginAdmin, InsertToken, InsertRefused, RetryLookup, Begin, At
<1>2. ~UserNext(w)
  BY DEF UserNext, BeginCreate, BeginAttest, ReadAttested, CheckAttested, SaveAttestation,
     AttestationStale, Begin, At
<1>3. ~AuthNext(w)
  BY DEF AuthNext, ReadToken, CheckWindow, IssueJwt, LoadForRotation, SaveRotation,
     RotationStale, Begin, At
<1>4. ~DeleteNext(w)
  BY DEF DeleteNext, BeginDelete, RemoveToken, Cascade, DeleteMarked, DeleteRefused, BeginRemoveUser,
     AddUser, RemoveUser, RemoveUserRefused, Begin, At
<1>5. ~MfaNext(w)
  BY DEF MfaNext, BeginMfa, ReadSession, ReplaceSession, SessionRefused, IssueSessionJwt,
     Begin, At
<1> QED
  BY <1>1, <1>2, <1>3, <1>4, <1>5 DEF Serve

(* A response on its way is delivered, lost, or still on its way.         *)
LEMMA ResponsesKept ==
    ASSUME TypeOK, NEW w \in Workers, Serve(w), NEW c \in creds \cup Pending
    PROVE  c \in creds' \cup Pending' \/ c.id \in lost'
<1>1. CASE c \in creds
  BY <1>1, StepKinds DEF InsertToken, SaveRotation, SaveAttestation, DeleteMarked,
     ReplaceSession, RemoveUser, AddUser, Reply, Crash, Quiet, Shared
<1>2. CASE c \in Pending
  <2>1. PICK v \in Workers : req[v].pc = "reply" /\ req[v].op \in Issuing /\ c = req[v].cred
    BY <1>2 DEF Pending
  <2>2. CASE v = w
    BY <2>1, <2>2, OnlyAnswers DEF Reply, Crash
  <2>3. CASE v # w
    <3>1. req'[v] = req[v]
      BY <2>3, OtherFrames
    <3> QED BY <2>1, <3>1 DEF Pending
  <2> QED BY <2>2, <2>3
<1> QED
  BY <1>1, <1>2

(* A token that is no session, and has a value it had not before, is in a *)
(* response.                                                              *)
LEMMA NewValuesAnswered ==
    ASSUME TypeOK, Shaped, NEW w \in Workers, Serve(w), NEW i \in DOMAIN tokens',
           ~tokens'[i].session, tokens'[i].parent = None
    PROVE  \/ \E c \in Pending' : c.id = i /\ Matches(c.value, tokens'[i])
           \/ i \in DOMAIN tokens /\ tokens'[i].value = tokens[i].value
<1> DEFINE f == req[w]
           c == [id |-> i, value |-> Plain(fresh)]
<1>f. /\ DOMAIN f = DOMAIN Idle /\ DOMAIN req = Workers
      /\ f.row \in Row /\ FrameShape(f)
  BY DEF TypeOK, FrameOK, Shaped
<1>t. \A j \in DOMAIN tokens : tokens[j] \in Row
  BY DEF TypeOK
<1>p. ASSUME f.op \in Issuing, Goto(w, [f EXCEPT !.pc = "reply", !.cred = c]),
             tokens'[i].value = Hashed(fresh)
      PROVE  \E d \in Pending' : d.id = i /\ Matches(d.value, tokens'[i])
  <2> DEFINE g == [f EXCEPT !.pc = "reply", !.cred = c]
  <2>1. g.pc = "reply" /\ g.cred = c /\ g.op = f.op
    BY <1>f DEF Idle
  <2>2. req'[w] = g
    BY <1>p, <1>f DEF Goto
  <2>3. c \in Pending'
    BY <2>1, <2>2, <1>p DEF Pending
  <2>4. Matches(c.value, tokens'[i])
    BY <1>p DEF Matches, Hashed, Plain
  <2> QED BY <2>3, <2>4
<1>1. CASE InsertToken(w)
  <2> DEFINE r == Stored(f.row, fresh)
  <2>1. tokens' = Insert(tokens, fresh, r)
    BY <1>1 DEF InsertToken
  <2>2. CASE i = fresh
    <3>1. tokens'[i] = r
      BY <2>1, <2>2 DEF Insert
    <3>2. tokens'[i].value = Hashed(fresh)
      BY <3>1, <1>f DEF Stored, Row
    <3> QED BY <1>1, <1>p, <2>2, <3>2 DEF InsertToken, At, Issuing
  <2> QED BY <2>1, <2>2 DEF Insert
<1>2. CASE SaveRotation(w)
  <2>1. CASE i = f.cred.id
    <3>1. tokens'[i].value = Hashed(fresh)
      BY <1>2, <2>1, <1>t DEF SaveRotation, Row
    <3> QED BY <1>2, <1>p, <2>1, <3>1 DEF SaveRotation, At, Issuing
  <2> QED BY <1>2, <2>1 DEF SaveRotation
<1>3. CASE SaveAttestation(w)
  BY <1>3, <1>t DEF SaveAttestation, Row
<1>4. CASE ReplaceSession(w)
  <2> DEFINE r == [f.row EXCEPT !.value = Plain(fresh)]
             T == Delete(tokens, f.gone)
  <2>1. r.session
    BY <1>4, <1>f DEF ReplaceSession, At, FrameShape, Row
  <2>2. tokens' = Insert(T, fresh, r)
    BY <1>4 DEF ReplaceSession
  <2>3. DOMAIN T \subseteq DOMAIN tokens /\ \A j \in DOMAIN T : T[j] = tokens[j]
    BY DEF Delete
  <2> HIDE DEF r, T
  <2>4. i # fresh
    BY <2>1, <2>2 DEF Insert
  <2> QED BY <2>2, <2>3, <2>4 DEF Insert
<1>5. CASE DeleteMarked(w) \/ RemoveUser(w)
  BY <1>5 DEF DeleteMarked, RemoveUser, Delete
<1>6. CASE (\E u \in Users : AddUser(w, u)) \/ Reply(w) \/ Crash(w) \/ Quiet(w)
  BY <1>6 DEF AddUser, Reply, Crash, Quiet, Shared
<1> QED
  BY StepKinds, <1>1, <1>2, <1>3, <1>4, <1>5, <1>6

LEMMA ReachableStep ==
    ASSUME TypeOK, Shaped, TopLevelReachable, [Next]_vars
    PROVE  TopLevelReachable'
<1>1. CASE UNCHANGED vars \/ Tick
  BY <1>1 DEF vars, Tick, TopLevelReachable, Reachable, Pending
<1>2. ASSUME NEW w \in Workers, Serve(w)
      PROVE  TopLevelReachable'
  <2> SUFFICES ASSUME NEW i \in DOMAIN tokens',
                      tokens'[i].parent = None, ~tokens'[i].session
               PROVE  \/ i \in lost'
                      \/ \E c \in creds' \cup Pending' : c.id = i /\ Matches(c.value, tokens'[i])
    BY DEF TopLevelReachable, Reachable
  <2>1. CASE \E c \in Pending' : c.id = i /\ Matches(c.value, tokens'[i])
    BY <2>1
  <2>2. CASE i \in DOMAIN tokens /\ tokens'[i].value = tokens[i].value
    <3>1. tokens[i].parent = None /\ ~tokens[i].session
      BY <2>2, RowsKept
    <3>2. CASE i \in lost
      <4>1. lost \subseteq lost'
        BY <1>2, StepKinds DEF InsertToken, SaveRotation, SaveAttestation, DeleteMarked,
           ReplaceSession, RemoveUser, AddUser, Reply, Crash, Quiet, Shared
      <4> QED BY <3>2, <4>1
    <3>3. CASE i \notin lost
      <4>1. PICK c \in creds \cup Pending : c.id = i /\ Matches(c.value, tokens[i])
        BY <2>2, <3>1, <3>3 DEF TopLevelReachable, Reachable
      <4>2. Matches(c.value, tokens'[i])
        BY <2>2, <3>1, <4>1 DEF Matches
      <4> QED BY <1>2, <4>1, <4>2, ResponsesKept
    <3> QED BY <3>2, <3>3
  <2> QED BY <1>2, <2>1, <2>2, NewValuesAnswered
<1> QED
  BY <1>1, <1>2 DEF Next

(* Unless a response was lost, the secret that a token without a parent   *)
(* accepts is in a client's hands or on its way, however the requests of  *)
(* several processes interleave.                                          *)
THEOREM NeverStranded == Spec => []TopLevelReachable
<1>1. Init => TopLevelReachable
  BY DEF Init, TopLevelReachable
<1>2. TypeOK /\ Shaped /\ TopLevelReachable /\ [Next]_vars => TopLevelReachable'
  BY ReachableStep
<1> QED
  BY <1>1, <1>2, TypeCorrect, KeysAreUnique, PTL DEF Spec

(* A rotation is about to be written only by a handler that has found the *)
(* token rotatable: no other step leads to the UPDATE.                    *)
LEMMA SaveFrames ==
    ASSUME TypeOK, NEW w \in Workers, Serve(w), req'[w].pc = "save"
    PROVE  \/ req'[w] = req[w]
           \/ /\ req'[w].cred.id \in DOMAIN tokens /\ tokens[req'[w].cred.id].rotatable
              /\ tokens' = tokens /\ permits' = permits
<1> DEFINE f == req[w]
           Loaded == /\ req'[w].cred.id \in DOMAIN tokens /\ tokens[req'[w].cred.id].rotatable
                     /\ tokens' = tokens /\ permits' = permits
<1>f. DOMAIN f = DOMAIN Idle /\ DOMAIN req = Workers
  BY DEF TypeOK, FrameOK
<1>g. ASSUME NEW g, Goto(w, g) PROVE req'[w] = g
  BY <1>g, <1>f DEF Goto
<1>b. ASSUME NEW g, Goto(w, g), g.pc # "save" PROVE FALSE
  BY <1>b, <1>g
<1>i. ~Goto(w, Idle)
  BY <1>b DEF Idle
<1>h. ~Fail(w)
  BY <1>i DEF Fail
<1>c. ASSUME NEW c, Goto(w, [f EXCEPT !.pc = "reply", !.cred = c])
      PROVE  FALSE
  BY <1>c, <1>b, <1>f DEF Idle
<1>1. CASE AdminNext(w)
  <2>1. ASSUME NEW u, NEW p, NEW n, NEW x, NEW life, NEW rot, BeginAdmin(w, u, p, n, x, life, rot)
        PROVE  FALSE
    <3> DEFINE r == NewRow(u, IF p = Blank THEN None ELSE p, n, x, life, FALSE, rot)
    <3> HIDE DEF r
    <3> QED BY <2>1, <1>b DEF BeginAdmin, Step, Idle, r
  <2>2. ~(InsertToken(w) \/ RetryLookup(w))
    BY <1>c, <1>h DEF InsertToken, RetryLookup, Step
  <2>3. ~InsertRefused(w)
    BY <1>b, <1>f, <1>h DEF InsertRefused, Step, Idle
  <2> QED BY <1>1, <2>1, <2>2, <2>3 DEF AdminNext
<1>2. CASE UserNext(w)
  <2>1. ASSUME NEW u, NEW n, NEW life, NEW rot, BeginCreate(w, u, n, life, rot)
        PROVE  FALSE
    <3> DEFINE r == NewRow(u, None, n, None, life, FALSE, rot)
    <3> HIDE DEF r
    <3> QED BY <2>1, <1>b DEF BeginCreate, Step, Idle, r
  <2>2. ASSUME NEW u, NEW S, BeginAttest(w, u, S) PROVE FALSE
    BY <2>2, <1>b DEF BeginAttest, Step, Idle
  <2>3. ASSUME NEW i, ReadAttested(w, i) PROVE FALSE
    <3>1. req'[w].pc \in {"check", "read"}
      BY <2>3, <1>f, <1>g, <1>h DEF ReadAttested, Step, Idle
    <3> QED BY <3>1
  <2>4. ASSUME NEW i, CheckAttested(w, i) PROVE FALSE
    <3>1. req'[w].pc \in {"check", "attest"}
      BY <2>4, <1>f, <1>g, <1>h DEF CheckAttested, Step, Idle
    <3> QED BY <3>1
  <2> QED
    BY <1>2, <1>h, <1>i, <2>1, <2>2, <2>3, <2>4
    DEF UserNext, SaveAttestation, AttestationStale
<1>3. CASE AuthNext(w)
  <2>1. ASSUME NEW op, NEW c, ReadToken(w, op, c) PROVE FALSE
    BY <2>1, <1>b DEF ReadToken, Step, Idle
  <2>2. ~(CheckWindow(w) \/ IssueJwt(w))
    BY <1>b, <1>f, <1>h DEF CheckWindow, IssueJwt, Step, Idle
  <2>3. ASSUME NEW d, LoadForRotation(w, d) PROVE Loaded
    <3> DEFINE r == [tokens[f.cred.id] EXCEPT !.exp = now + Days(d)]
    <3>1. /\ f.cred.id \in DOMAIN tokens /\ tokens[f.cred.id].rotatable
          /\ tokens' = tokens /\ permits' = permits
      BY <2>3, <1>h DEF LoadForRotation, Step
    <3>2. req'[w] = [f EXCEPT !.pc = "save", !.row = r]
      BY <2>3, <1>g, <1>h DEF LoadForRotation, Step
    <3> HIDE DEF r
    <3>3. req'[w].cred = f.cred
      BY <3>2, <1>f DEF Idle
    <3> QED BY <3>1, <3>3
  <2>4. ~(SaveRotation(w) \/ RotationStale(w))
    BY <1>c, <1>h DEF SaveRotation, RotationStale
  <2> QED
    BY <1>3, <2>1, <2>2, <2>3, <2>4 DEF AuthNext
<1>4. CASE DeleteNext(w)
  <2>1. ASSUME NEW u, NEW i, BeginDelete(w, u, i) PROVE FALSE
    BY <2>1, <1>b DEF BeginDelete, Step, Idle
  <2>2. ~RemoveToken(w)
    BY <1>b, <1>f, <1>h DEF RemoveToken, Step, Idle
  <2>3. ASSUME NEW u, BeginRemoveUser(w, u) PROVE FALSE
    BY <2>3, <1>f, RemovalFrame DEF Entered
  <2>4. ASSUME NEW i, Cascade(w, i) PROVE FALSE
    BY <2>4, <1>f, CascadeFrame DEF Cascade, At, Onward, Flush
  <2> QED
    BY <1>4, <1>h, <1>i, <2>1, <2>2, <2>3, <2>4
    DEF DeleteNext, DeleteMarked, DeleteRefused, RemoveUser, RemoveUserRefused, AddUser
<1>5. CASE MfaNext(w)
  <2>1. ASSUME NEW u, BeginMfa(w, u) PROVE FALSE
    <3> DEFINE r == NewRow(u, None, SessionName, None, SessionLifetime, TRUE, FALSE)
    <3> HIDE DEF r
    <3> QED BY <2>1, <1>b DEF BeginMfa, Step, Idle, r
  <2>2. ~(ReadSession(w) \/ ReplaceSession(w) \/ IssueSessionJwt(w))
    BY <1>b, <1>f, <1>h DEF ReadSession, ReplaceSession, IssueSessionJwt, Step, Idle
  <2> QED
    BY <1>5, <1>h, <2>1, <2>2 DEF MfaNext, SessionRefused
<1>6. ~(Reply(w) \/ Crash(w))
  BY <1>i DEF Reply, Crash
<1> QED
  BY <1>1, <1>2, <1>3, <1>4, <1>5, <1>6 DEF Serve

(* The processes about to write a rotation of the token.                  *)
Saving(R, i) == {w \in Workers : R[w].pc = "save" /\ R[w].cred.id = i}

LEMMA SmallerWithout ==
    ASSUME NEW S, IsFiniteSet(S), NEW x \in S, NEW T, T \subseteq S \ {x}
    PROVE  Cardinality(T) <= Cardinality(S) - 1
<1> DEFINE R == S \ {x}
<1>1. IsFiniteSet(R) /\ Cardinality(R) = Cardinality(S) - 1
  BY FS_RemoveElement
<1> HIDE DEF R
<1>2. Cardinality(T) <= Cardinality(R)
  BY <1>1, FS_Subset DEF R
<1> QED
  BY <1>1, <1>2

(* Each of them still costs what the attestation has left.                *)
Covered(T, P, R) ==
    \A i \in DOMAIN T :
        IF T[i].rotatable THEN P[i] >= 1
        ELSE 1 - P[i] + Cardinality(Saving(R, i)) <= Cardinality(Workers)

LEMMA SavingKept ==
    ASSUME TypeOK, NEW w \in Workers, Serve(w), NEW i
    PROVE  \/ Saving(req', i) \subseteq Saving(req, i)
           \/ /\ i \in DOMAIN tokens /\ tokens[i].rotatable
              /\ tokens' = tokens /\ permits' = permits
<1>1. ASSUME w \in Saving(req', i), w \notin Saving(req, i)
      PROVE  /\ i \in DOMAIN tokens /\ tokens[i].rotatable
             /\ tokens' = tokens /\ permits' = permits
  BY <1>1, SaveFrames DEF Saving
<1> QED
  BY <1>1, OtherFrames DEF Saving

LEMMA CoveredStep ==
    ASSUME IsFiniteSet(Workers), TypeOK, Drawn, Shaped, Covered(tokens, permits, req),
           NEW w \in Workers, Serve(w)
    PROVE  Covered(tokens', permits', req')
<1> DEFINE f == req[w]
           N == Cardinality(Workers)
<1>n. /\ N \in Nat /\ N >= 1
      /\ \A i : IsFiniteSet(Saving(req, i)) /\ IsFiniteSet(Saving(req', i))
      /\ \A i : Cardinality(Saving(req, i)) \in Nat /\ Cardinality(Saving(req', i)) \in Nat
      /\ \A i : Cardinality(Saving(req', i)) <= N
  <2>1. ASSUME NEW R, NEW i
        PROVE  /\ IsFiniteSet(Saving(R, i)) /\ Cardinality(Saving(R, i)) \in Nat
               /\ Cardinality(Saving(R, i)) <= N
    <3>1. Saving(R, i) \subseteq Workers
      BY DEF Saving
    <3> QED BY <3>1, FS_Subset, FS_CardinalityType
  <2>2. N \in Nat /\ N # 0
    BY FS_CardinalityType, FS_EmptySet
  <2> QED BY <2>1, <2>2
<1>t. /\ DOMAIN permits = DOMAIN tokens
      /\ \A i \in DOMAIN tokens : permits[i] \in Int /\ tokens[i] \in Row
      /\ fresh \notin DOMAIN tokens
  BY DEF TypeOK, Known
<1>0. ASSUME NEW i \in DOMAIN tokens, Saving(req', i) \subseteq Saving(req, i), ~tokens[i].rotatable
      PROVE  1 - permits[i] + Cardinality(Saving(req', i)) <= N
  <2>1. Cardinality(Saving(req', i)) <= Cardinality(Saving(req, i))
    BY <1>0, <1>n, FS_Subset
  <2>2. 1 - permits[i] + Cardinality(Saving(req, i)) <= N
    BY <1>0 DEF Covered
  <2> QED BY <2>1, <2>2, <1>n, <1>t
<1>s. ASSUME NEW i \in DOMAIN tokens', i \in DOMAIN tokens, permits'[i] = permits[i],
             tokens'[i].rotatable = tokens[i].rotatable
      PROVE  IF tokens'[i].rotatable THEN permits'[i] >= 1
             ELSE 1 - permits'[i] + Cardinality(Saving(req', i)) <= N
  BY <1>s, <1>0, SavingKept DEF Covered
<1>e. Saving(req', fresh) = {}
  <2>1. \A v \in Workers : req[v].cred.id < fresh /\ req[v].cred.id \in Nat /\ fresh \in Nat
    BY DEF Drawn, FrameDrawn, TypeOK, FrameOK, Cred
  <2>2. Saving(req, fresh) = {}
    BY <2>1 DEF Saving
  <2> QED BY <2>2, <1>t, SavingKept
<1>z. Cardinality(Saving(req', fresh)) = 0
  BY <1>e, FS_EmptySet
<1>1. CASE InsertToken(w)
  <2> DEFINE r == Stored(f.row, fresh)
  <2>1. r.rotatable = f.row.rotatable
    BY DEF Stored, TypeOK, FrameOK, Row
  <2>2. /\ tokens' = Insert(tokens, fresh, r)
        /\ permits' = Insert(permits, fresh, IF f.row.rotatable THEN 1 ELSE 0)
    BY <1>1 DEF InsertToken
  <2> HIDE DEF r
  <2>3. ASSUME NEW i \in DOMAIN tokens', i # fresh
        PROVE  i \in DOMAIN tokens /\ tokens'[i] = tokens[i] /\ permits'[i] = permits[i]
    BY <2>2, <2>3, <1>t DEF Insert
  <2>4. IF tokens'[fresh].rotatable THEN permits'[fresh] >= 1
        ELSE 1 - permits'[fresh] + Cardinality(Saving(req', fresh)) <= N
    BY <2>1, <2>2, <1>n, <1>z DEF Insert
  <2> QED BY <2>3, <2>4, <1>s DEF Covered
<1>2. CASE SaveRotation(w)
  <2> DEFINE i == f.cred.id
  <2>1. /\ i \in DOMAIN tokens /\ DOMAIN tokens' = DOMAIN tokens
        /\ permits'[i] = permits[i] - 1 /\ ~tokens'[i].rotatable
    BY <1>2, <1>t DEF SaveRotation, Row
  <2>2. \A j \in DOMAIN tokens : j # i => tokens'[j] = tokens[j] /\ permits'[j] = permits[j]
    BY <1>2, <1>t DEF SaveRotation
  <2>3. w \in Saving(req, i)
    BY <1>2 DEF SaveRotation, At, Saving
  <2>4. w \notin Saving(req', i)
    <3>1. DOMAIN f = DOMAIN Idle /\ DOMAIN req = Workers
      BY DEF TypeOK, FrameOK
    <3>2. req'[w].pc = "reply"
      BY <1>2, <3>1 DEF SaveRotation, Goto, Idle
    <3> QED BY <3>2 DEF Saving
  <2>5. 1 - permits'[i] + Cardinality(Saving(req', i)) <= N
    <3>1. CASE tokens[i].rotatable
      <4>1. Saving(req', i) \subseteq Workers \ {w}
        BY <2>4 DEF Saving
      <4>2. Cardinality(Saving(req', i)) <= N - 1
        BY <4>1, SmallerWithout
      <4>3. permits[i] >= 1
        BY <3>1, <2>1 DEF Covered
      <4> QED BY <4>2, <4>3, <2>1, <1>n, <1>t
    <3>2. CASE ~tokens[i].rotatable
      <4>1. Saving(req', i) \subseteq Saving(req, i) \ {w}
        BY <3>2, <2>4, SavingKept
      <4>2. Cardinality(Saving(req', i)) <= Cardinality(Saving(req, i)) - 1
        BY <4>1, <2>3, <1>n, SmallerWithout
      <4>3. 1 - permits[i] + Cardinality(Saving(req, i)) <= N
        BY <3>2, <2>1 DEF Covered
      <4> QED BY <4>2, <4>3, <2>1, <1>n, <1>t
    <3> QED BY <3>1, <3>2
  <2> HIDE DEF i
  <2> QED BY <2>1, <2>2, <2>5, <1>s DEF Covered
<1>3. CASE SaveAttestation(w)
  <2>1. /\ DOMAIN tokens' = DOMAIN tokens
        /\ \A i \in DOMAIN tokens :
              IF i \in f.ids THEN permits'[i] = 1
              ELSE permits'[i] = permits[i] /\ tokens'[i] = tokens[i]
    BY <1>3, <1>t DEF SaveAttestation, Dirty
  <2>2. ASSUME NEW i \in DOMAIN tokens, i \in f.ids
        PROVE  IF tokens'[i].rotatable THEN permits'[i] >= 1
               ELSE 1 - permits'[i] + Cardinality(Saving(req', i)) <= N
    BY <2>1, <2>2, <1>n
  <2> QED BY <2>1, <2>2, <1>s DEF Covered
<1>4. CASE DeleteMarked(w) \/ RemoveUser(w)
  <2>1. \A i \in DOMAIN tokens' : /\ i \in DOMAIN tokens
                                  /\ tokens'[i] = tokens[i] /\ permits'[i] = permits[i]
    BY <1>4, <1>t DEF DeleteMarked, RemoveUser, Delete
  <2> QED BY <2>1, <1>s DEF Covered
<1>5. CASE ReplaceSession(w)
  <2> DEFINE r == [f.row EXCEPT !.value = Plain(fresh)]
             T == Delete(tokens, f.gone)
             P == Delete(permits, f.gone)
  <2>1. tokens' = Insert(T, fresh, r) /\ permits' = Insert(P, fresh, 0)
    BY <1>5 DEF ReplaceSession
  <2>2. /\ \A i \in DOMAIN T : i \in DOMAIN P /\ T[i] = tokens[i] /\ P[i] = permits[i]
        /\ DOMAIN T \subseteq DOMAIN tokens
    BY <1>t DEF Delete
  <2>3. ~r.rotatable
    BY <1>5 DEF ReplaceSession, At, TypeOK, FrameOK, Row, Shaped, FrameShape
  <2> HIDE DEF r, T, P
  <2>4. ASSUME NEW i \in DOMAIN tokens', i # fresh
        PROVE  i \in DOMAIN tokens /\ tokens'[i] = tokens[i] /\ permits'[i] = permits[i]
    BY <2>1, <2>2, <2>4 DEF Insert
  <2>5. permits'[fresh] = 0 /\ tokens'[fresh] = r
    BY <2>1 DEF Insert
  <2>6. IF tokens'[fresh].rotatable THEN permits'[fresh] >= 1
        ELSE 1 - permits'[fresh] + Cardinality(Saving(req', fresh)) <= N
    BY <2>3, <2>5, <1>n, <1>z
  <2> QED BY <2>4, <2>6, <1>s DEF Covered
<1>6. CASE (\E u \in Users : AddUser(w, u)) \/ Reply(w) \/ Crash(w) \/ Quiet(w)
  <2>1. tokens' = tokens /\ permits' = permits
    BY <1>6 DEF AddUser, Reply, Crash, Quiet, Shared
  <2> QED BY <2>1, <1>s DEF Covered
<1> QED
  BY StepKinds, <1>1, <1>2, <1>3, <1>4, <1>5, <1>6

(* However many processes serve, an attestation pays for at most one      *)
(* rotation by each of them.                                              *)
THEOREM RotationsAreBounded ==
    ASSUME IsFiniteSet(Workers)
    PROVE  Spec => []RotationsBounded
<1> DEFINE Inv == Covered(tokens, permits, req)
<1>1. Init => Inv
  BY DEF Init, Covered
<1>2. TypeOK /\ Drawn /\ Shaped /\ Inv /\ [Next]_vars => Inv'
  <2>1. ASSUME UNCHANGED vars \/ Tick, Inv PROVE Inv'
    BY <2>1 DEF vars, Tick
  <2> QED BY <2>1, CoveredStep DEF Next
<1>3. TypeOK /\ Inv => RotationsBounded
  <2> SUFFICES ASSUME TypeOK, Inv, NEW i \in DOMAIN permits
               PROVE  1 - permits[i] <= Cardinality(Workers)
    BY DEF RotationsBounded
  <2>1. i \in DOMAIN tokens /\ permits[i] \in Int
    BY DEF TypeOK
  <2>2. Saving(req, i) \subseteq Workers
    BY DEF Saving
  <2>3. Cardinality(Saving(req, i)) \in Nat /\ Cardinality(Workers) \in Nat
    BY <2>2, FS_Subset, FS_CardinalityType
  <2> QED BY <2>1, <2>3 DEF Covered
<1> QED
  BY <1>1, <1>2, <1>3, TypeCorrect, KeysAreUnique, PTL DEF Spec

-----------------------------------------------------------------------------
(* One process. *)

(* One process serves the requests. *)
OneProcess == \A v, w \in Workers : v = w

(* Permits and flags agree. *)
Agree(T, P) == \A i \in DOMAIN T : P[i] = IF T[i].rotatable THEN 1 ELSE 0

(* What the only request under way has read is still so. *)
Current(T, f) ==
    /\ f.pc = "save" => f.cred.id \in DOMAIN T /\ T[f.cred.id].rotatable
    /\ f.pc \in {"read", "check", "attest"} =>
          \A i \in DOMAIN f.snap : i \in DOMAIN T /\ T[i] = f.snap[i]
    /\ f.pc \in {"check", "attest"} => f.ids \subseteq DOMAIN f.snap

Undisturbed == Agree(tokens, permits) /\ \A w \in Workers : Current(tokens, req[w])

(* The program counter after a step, where the frame's guarantee asks for *)
(* nothing.                                                               *)
LEMMA CurrentKept ==
    ASSUME TypeOK, Undisturbed, NEW w \in Workers, Serve(w)
    PROVE  Current(tokens', req'[w])
<1> DEFINE f == req[w]
           Free == {"idle", "insert", "retry", "window", "issue", "load", "remove", "cascade",
                    "delete", "session", "replace", "jwt", "deluser", "reply"}
<1>f. DOMAIN f = DOMAIN Idle /\ DOMAIN req = Workers /\ Current(tokens, f)
  BY DEF TypeOK, FrameOK, Undisturbed
<1>g. ASSUME NEW g, Goto(w, g) PROVE req'[w] = g
  BY <1>g, <1>f DEF Goto
<1>b. ASSUME NEW g, Goto(w, g), g.pc \in Free PROVE Current(tokens', req'[w])
  <2>1. req'[w] = g
    BY <1>b, <1>g
  <2> QED BY <1>b, <2>1 DEF Current
<1>i. ASSUME Goto(w, Idle) PROVE Current(tokens', req'[w])
  BY <1>i, <1>b DEF Idle
<1>h. ASSUME Fail(w) PROVE Current(tokens', req'[w])
  BY <1>h, <1>i DEF Fail
<1>c. ASSUME NEW c, Goto(w, [f EXCEPT !.pc = "reply", !.cred = c])
      PROVE  Current(tokens', req'[w])
  BY <1>c, <1>b, <1>f DEF Idle
<1>1. CASE AdminNext(w)
  <2>1. ASSUME NEW u, NEW p, NEW n, NEW x, NEW life, NEW rot, BeginAdmin(w, u, p, n, x, life, rot)
        PROVE  Current(tokens', req'[w])
    <3> DEFINE r == NewRow(u, IF p = Blank THEN None ELSE p, n, x, life, FALSE, rot)
    <3> HIDE DEF r
    <3> QED BY <2>1, <1>b DEF BeginAdmin, Step, Idle, r
  <2>2. CASE InsertToken(w) \/ RetryLookup(w)
    BY <2>2, <1>c, <1>h DEF InsertToken, RetryLookup, Step
  <2>3. CASE InsertRefused(w)
    BY <2>3, <1>b, <1>f, <1>h DEF InsertRefused, Step, Idle
  <2> QED BY <1>1, <2>1, <2>2, <2>3 DEF AdminNext
<1>2. CASE UserNext(w)
  <2>1. ASSUME NEW u, NEW n, NEW life, NEW rot, BeginCreate(w, u, n, life, rot)
        PROVE  Current(tokens', req'[w])
    <3> DEFINE r == NewRow(u, None, n, None, life, FALSE, rot)
    <3> HIDE DEF r
    <3> QED BY <2>1, <1>b DEF BeginCreate, Step, Idle, r
  <2>2. ASSUME NEW u, NEW S, BeginAttest(w, u, S)
        PROVE  Current(tokens', req'[w])
    <3> DEFINE none == [i \in {} |-> NoRow]
    <3>1. DOMAIN none = {}
      OBVIOUS
    <3> HIDE DEF none
    <3>2. Idle.snap = none /\ DOMAIN Idle = DOMAIN [Idle EXCEPT !.op = "attest"]
      BY DEF Idle, none
    <3>3. req'[w] = [Idle EXCEPT !.op = "attest", !.pc = "read", !.user = u,
                                 !.ids = S, !.at = now]
      BY <2>2, <1>g DEF BeginAttest, Step
    <3>4. req'[w].pc = "read" /\ req'[w].snap = Idle.snap
      BY <3>3, <1>f DEF Idle
    <3> QED BY <3>1, <3>2, <3>4 DEF Current
  <2>3. ASSUME NEW i, ReadAttested(w, i), ~Fail(w)
        PROVE  Current(tokens', req'[w])
    <3>1. /\ i \in DOMAIN tokens /\ tokens' = tokens /\ f.pc = "read"
          /\ req'[w] = [f EXCEPT !.snap = Insert(f.snap, i, tokens[i]), !.todo = f.ids,
                                 !.pc = IF f.ids \subseteq DOMAIN f.snap \cup {i}
                                        THEN "check" ELSE "read"]
      BY <2>3, <1>g DEF ReadAttested, Step, At
    <3>2. /\ req'[w].snap = Insert(f.snap, i, tokens[i]) /\ req'[w].ids = f.ids
          /\ req'[w].pc = IF f.ids \subseteq DOMAIN f.snap \cup {i} THEN "check" ELSE "read"
      BY <3>1, <1>f DEF Idle
    <3>3. /\ DOMAIN req'[w].snap = DOMAIN f.snap \cup {i}
          /\ \A j \in DOMAIN req'[w].snap : j \in DOMAIN tokens /\ tokens[j] = req'[w].snap[j]
      BY <3>1, <3>2, <1>f DEF Insert, Current
    <3> QED BY <3>1, <3>2, <3>3 DEF Current
  <2>4. ASSUME NEW i, CheckAttested(w, i), ~Fail(w)
        PROVE  Current(tokens', req'[w])
    <3> DEFINE pc == IF f.todo = {i} THEN "attest" ELSE "check"
    <3>1. /\ f.pc = "check" /\ tokens' = tokens /\ pc \in {"attest", "check"}
          /\ req'[w] = [f EXCEPT !.todo = @ \ {i}, !.pc = pc]
      BY <2>4, <1>g DEF CheckAttested, Step, At
    <3> HIDE DEF pc
    <3>2. req'[w].pc = pc /\ req'[w].snap = f.snap /\ req'[w].ids = f.ids
      BY <3>1, <1>f DEF Idle
    <3> QED BY <3>1, <3>2, <1>f DEF Current
  <2> QED
    BY <1>2, <1>h, <1>i, <2>1, <2>2, <2>3, <2>4
    DEF UserNext, SaveAttestation, AttestationStale
<1>3. CASE AuthNext(w)
  <2>1. ASSUME NEW op, NEW c, ReadToken(w, op, c)
        PROVE  Current(tokens', req'[w])
    BY <2>1, <1>b DEF ReadToken, Step, Idle
  <2>2. CASE CheckWindow(w)
    BY <2>2, <1>b, <1>f, <1>h DEF CheckWindow, Step, Idle
  <2>3. CASE IssueJwt(w)
    BY <2>3, <1>b, <1>f, <1>h DEF IssueJwt, Step, Idle
  <2>4. ASSUME NEW d, LoadForRotation(w, d), ~Fail(w)
        PROVE  Current(tokens', req'[w])
    <3> DEFINE r == [tokens[f.cred.id] EXCEPT !.exp = now + Days(d)]
    <3>1. f.cred.id \in DOMAIN tokens /\ tokens[f.cred.id].rotatable /\ tokens' = tokens
      BY <2>4 DEF LoadForRotation, Step
    <3>2. req'[w] = [f EXCEPT !.pc = "save", !.row = r]
      BY <2>4, <1>g DEF LoadForRotation, Step
    <3> HIDE DEF r
    <3>3. req'[w].pc = "save" /\ req'[w].cred = f.cred
      BY <3>2, <1>f DEF Idle
    <3> QED BY <3>1, <3>3 DEF Current
  <2>5. CASE SaveRotation(w)
    BY <2>5, <1>c DEF SaveRotation
  <2> QED
    BY <1>3, <1>h, <2>1, <2>2, <2>3, <2>4, <2>5 DEF AuthNext, RotationStale
<1>4. CASE DeleteNext(w)
  <2>1. ASSUME NEW u, NEW i, BeginDelete(w, u, i)
        PROVE  Current(tokens', req'[w])
    BY <2>1, <1>b DEF BeginDelete, Step, Idle
  <2>2. CASE RemoveToken(w)
    BY <2>2, <1>b, <1>f, <1>h DEF RemoveToken, Step, Idle
  <2>3. ASSUME NEW u, BeginRemoveUser(w, u)
        PROVE  Current(tokens', req'[w])
    BY <2>3, <1>f, RemovalFrame DEF Entered, Current
  <2>4. ASSUME NEW u, AddUser(w, u)
        PROVE  Current(tokens', req'[w])
    BY <2>4, <1>f DEF AddUser
  <2>5. ASSUME NEW i, Cascade(w, i)
        PROVE  Current(tokens', req'[w])
    BY <2>5, <1>f, CascadeFrame DEF Cascade, At, Onward, Flush, Current
  <2> QED
    BY <1>4, <1>h, <1>i, <2>1, <2>2, <2>3, <2>4, <2>5
    DEF DeleteNext, DeleteMarked, DeleteRefused, RemoveUser, RemoveUserRefused
<1>5. CASE MfaNext(w)
  <2>1. ASSUME NEW u, BeginMfa(w, u)
        PROVE  Current(tokens', req'[w])
    <3> DEFINE r == NewRow(u, None, SessionName, None, SessionLifetime, TRUE, FALSE)
    <3> HIDE DEF r
    <3> QED BY <2>1, <1>b DEF BeginMfa, Step, Idle, r
  <2>2. CASE ReadSession(w)
    BY <2>2, <1>b, <1>f, <1>h DEF ReadSession, Step, Idle
  <2>3. CASE ReplaceSession(w)
    BY <2>3, <1>b, <1>f DEF ReplaceSession, Idle
  <2>4. CASE IssueSessionJwt(w)
    BY <2>4, <1>b, <1>f, <1>h DEF IssueSessionJwt, Step, Idle
  <2> QED
    BY <1>5, <1>h, <2>1, <2>2, <2>3, <2>4 DEF MfaNext, SessionRefused
<1>6. CASE Reply(w) \/ Crash(w)
  BY <1>6, <1>i DEF Reply, Crash
<1> QED
  BY <1>1, <1>2, <1>3, <1>4, <1>5, <1>6 DEF Serve

(* The flags are set, and the permits counted, together.                  *)
LEMMA AgreeKept ==
    ASSUME TypeOK, Shaped, Undisturbed, NEW w \in Workers, Serve(w)
    PROVE  Agree(tokens', permits')
<1> DEFINE f == req[w]
<1>f. f.row \in Row /\ FrameShape(f) /\ Current(tokens, f)
  BY DEF TypeOK, FrameOK, Shaped, Undisturbed
<1>t. /\ \A i \in DOMAIN tokens : tokens[i] \in Row /\ tokens[i].rotatable \in BOOLEAN
      /\ DOMAIN permits = DOMAIN tokens /\ Agree(tokens, permits)
  BY DEF TypeOK, Row, Undisturbed
<1>1. CASE InsertToken(w)
  <2> DEFINE r == Stored(f.row, fresh)
  <2>1. r.rotatable = f.row.rotatable
    BY <1>f DEF Stored, Row
  <2>2. /\ tokens' = Insert(tokens, fresh, r)
        /\ permits' = Insert(permits, fresh, IF f.row.rotatable THEN 1 ELSE 0)
    BY <1>1 DEF InsertToken
  <2> HIDE DEF r
  <2> QED BY <2>1, <2>2, <1>t DEF Insert, Agree
<1>2. CASE SaveRotation(w)
  <2> DEFINE i == f.cred.id
  <2>1. i \in DOMAIN tokens /\ tokens[i].rotatable
    BY <1>2, <1>f DEF SaveRotation, At, Current
  <2>2. DOMAIN tokens' = DOMAIN tokens /\ permits'[i] = permits[i] - 1 /\ ~tokens'[i].rotatable
    BY <1>2, <1>t, <2>1 DEF SaveRotation, Row
  <2>3. \A j \in DOMAIN tokens : j # i => tokens'[j] = tokens[j] /\ permits'[j] = permits[j]
    BY <1>2, <1>t DEF SaveRotation
  <2> QED BY <2>1, <2>2, <2>3, <1>t DEF Agree
<1>3. CASE SaveAttestation(w)
  <2>1. /\ DOMAIN tokens' = DOMAIN tokens
        /\ \A i \in DOMAIN tokens :
              /\ tokens'[i].rotatable = (tokens[i].rotatable \/ i \in Dirty(f))
              /\ permits'[i] = IF i \in f.ids THEN 1 ELSE permits[i]
    BY <1>3, <1>t DEF SaveAttestation, Row
  <2>2. \A i \in f.ids : i \in DOMAIN tokens => tokens[i].rotatable \/ i \in Dirty(f)
    BY <1>3, <1>f DEF SaveAttestation, At, Current, Dirty
  <2>3. Dirty(f) \subseteq f.ids
    BY DEF Dirty
  <2> QED BY <2>1, <2>2, <2>3, <1>t DEF Agree
<1>4. CASE DeleteMarked(w) \/ RemoveUser(w)
  BY <1>4, <1>t DEF DeleteMarked, RemoveUser, Delete, Agree
<1>5. CASE ReplaceSession(w)
  <2> DEFINE r == [f.row EXCEPT !.value = Plain(fresh)]
             T == Delete(tokens, f.gone)
             P == Delete(permits, f.gone)
  <2>1. ~r.rotatable
    BY <1>5, <1>f DEF ReplaceSession, At, FrameShape, Row
  <2>2. tokens' = Insert(T, fresh, r) /\ permits' = Insert(P, fresh, 0)
    BY <1>5 DEF ReplaceSession
  <2>3. DOMAIN T = DOMAIN P /\ Agree(T, P)
    BY <1>t DEF Delete, Agree
  <2> HIDE DEF r, T, P
  <2> QED BY <2>1, <2>2, <2>3 DEF Insert, Agree
<1>6. CASE (\E u \in Users : AddUser(w, u)) \/ Reply(w) \/ Crash(w) \/ Quiet(w)
  BY <1>6, <1>t DEF AddUser, Reply, Crash, Quiet, Shared
<1> QED
  BY StepKinds, <1>1, <1>2, <1>3, <1>4, <1>5, <1>6

LEMMA UndisturbedStep ==
    ASSUME OneProcess, TypeOK, Shaped, Undisturbed, [Next]_vars
    PROVE  Undisturbed'
<1>1. CASE UNCHANGED vars \/ Tick
  BY <1>1 DEF vars, Tick, Undisturbed
<1>2. ASSUME NEW w \in Workers, Serve(w)
      PROVE  Undisturbed'
  <2>1. \A v \in Workers : Current(tokens', req'[v])
    BY <1>2, CurrentKept DEF OneProcess
  <2> QED BY <1>2, <2>1, AgreeKept DEF Undisturbed
<1> QED
  BY <1>1, <1>2 DEF Next

LEMMA UndisturbedAlways ==
    ASSUME OneProcess
    PROVE  Spec => []Undisturbed
<1>1. Init => Undisturbed
  BY DEF Init, Undisturbed, Agree, Current, Idle
<1>2. TypeOK /\ Shaped /\ Undisturbed /\ [Next]_vars => Undisturbed'
  BY UndisturbedStep
<1> QED
  BY <1>1, <1>2, TypeCorrect, KeysAreUnique, PTL DEF Spec

(* While one process serves, no token is rotated more often than it was   *)
(* attested for.                                                          *)
THEOREM OneRotation ==
    ASSUME OneProcess
    PROVE  Spec => []OneRotationPerAttestation
<1>1. Undisturbed => OneRotationPerAttestation
  BY DEF Undisturbed, Agree, OneRotationPerAttestation
<1> QED
  BY <1>1, UndisturbedAlways, PTL

(* While one process serves, a successful attestation leaves every token  *)
(* of its set rotatable.                                                  *)
THEOREM AttestationIsKept ==
    ASSUME OneProcess
    PROVE  Spec => AttestationSticks
<1>1. TypeOK /\ Undisturbed /\ [Next]_vars =>
         [\A w \in Workers : SaveAttestation(w) =>
             \A i \in req[w].ids : i \in DOMAIN tokens' /\ tokens'[i].rotatable]_vars
  <2> SUFFICES ASSUME TypeOK, Undisturbed, NEW w \in Workers, SaveAttestation(w),
                      NEW i \in req[w].ids
               PROVE  i \in DOMAIN tokens' /\ tokens'[i].rotatable
    OBVIOUS
  <2>1. i \in DOMAIN tokens /\ tokens[i] = req[w].snap[i] /\ tokens[i] \in Row
    BY DEF SaveAttestation, At, Undisturbed, Current, TypeOK
  <2> QED BY <2>1 DEF SaveAttestation, Dirty, Row
<1> QED
  BY <1>1, UndisturbedAlways, TypeCorrect, PTL DEF Spec, AttestationSticks
=============================================================================
