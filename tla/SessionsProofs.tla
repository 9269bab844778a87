--------------------------- MODULE SessionsProofs ---------------------------
(* Theorems about Sessions, for every set of users, tokens and requests.   *)
EXTENDS Sessions, TLAPS

Inv == TypeOK /\ LogoutIsFinal

LEMMA SignTyped ==
  ASSUME TypeOK, NEW r \in Requests, NEW u \in Users, NEW kind \in {"signIn", "refresh"},
         Sign(r, u, kind)
  PROVE  /\ call' \in [Requests -> Call]
         /\ \A q \in Requests \ {r} : call'[q] = call[q]
         /\ InFlight(r, u)' /\ call'[r].kind = kind
         /\ \A v \in Users \ {u} : ~InFlight(r, v)'
         /\ revoked' \subseteq Tokens
<1>1. PICK t \in Unused(u) :
        /\ call' = [call EXCEPT ![r] = [pc |-> "persist", kind |-> kind, token |-> t]]
        /\ revoked' = revoked \ {t}
  BY DEF Sign
<1>2. t \in Tokens /\ t.sub = u
  BY DEF Unused
<1>3. [pc |-> "persist", kind |-> kind, token |-> t] \in Call
  BY <1>2 DEF Call
<1> QED
  BY <1>1, <1>2, <1>3 DEF TypeOK, InFlight

LEMMA PersistTyped ==
  ASSUME TypeOK, NEW r \in Requests, call[r].pc = "persist"
  PROVE  call[r].token \in Tokens /\ call[r].token.sub \in Users
         /\ call[r].kind \in {"signIn", "refresh"}
  BY DEF TypeOK, Call, Tokens

LEMMA InvStep == Inv /\ [Next]_vars => Inv'
<1> SUFFICES ASSUME Inv, [Next]_vars PROVE Inv'
  OBVIOUS
<1> USE NoHashAssumption
<1> USE DEF Inv, LogoutIsFinal, history
<1>1. ASSUME NEW r \in Requests, PersistRefreshToken(r) PROVE Inv'
  <2>1. call[r].token \in Tokens /\ call[r].token.sub \in Users
    BY <1>1, PersistTyped DEF PersistRefreshToken
  <2>2. TypeOK'
    BY <1>1, <2>1 DEF PersistRefreshToken, TypeOK, Call, Idle
  <2>3. call[r].token.sub \in closed => r \in overtaken
    BY <1>1, <2>1 DEF PersistRefreshToken, InFlight
  <2>4. call[r].token.sub \notin closed'
    BY <1>1, <2>3 DEF PersistRefreshToken
  <2>5. LogoutIsFinal'
    BY <1>1, <2>1, <2>4 DEF PersistRefreshToken, InFlight, TypeOK, Idle
  <2> QED
    BY <2>2, <2>5
<1>2. ASSUME NEW r \in Requests, Fail(r) PROVE Inv'
  BY <1>2 DEF Fail, TypeOK, Call, Idle, InFlight
<1>3. ASSUME NEW r \in Requests, NEW u \in Users, BeginSignIn(r, u) PROVE Inv'
  <2>1. TypeOK'
    BY <1>3, SignTyped DEF BeginSignIn, TypeOK
  <2>2. LogoutIsFinal'
    BY <1>3, SignTyped DEF BeginSignIn, TypeOK, InFlight
  <2> QED
    BY <1>3, <2>1, <2>2 DEF BeginSignIn
<1>4. ASSUME NEW r \in Requests, NEW t \in Tokens, BeginRefresh(r, t) PROVE Inv'
  <2>1. t.sub \in Users /\ t.sub \notin closed
    BY <1>4 DEF BeginRefresh, Matches, Tokens
  <2>2. TypeOK'
    BY <1>4, <2>1, SignTyped DEF BeginRefresh, TypeOK
  <2>3. LogoutIsFinal'
    BY <1>4, <2>1, SignTyped DEF BeginRefresh, TypeOK, InFlight
  <2> QED
    BY <1>4, <2>2, <2>3 DEF BeginRefresh
<1>5. ASSUME NEW u \in Users, Logout(u) PROVE Inv'
  BY <1>5 DEF Logout, TypeOK, InFlight
<1>6. ASSUME NEW u \in Users, RemoveUser(u) PROVE Inv'
  BY <1>6 DEF RemoveUser, TypeOK, InFlight
<1>7. ASSUME NEW u \in Users, ExpireAccessTokens(u) PROVE Inv'
  BY <1>7 DEF ExpireAccessTokens, TypeOK, InFlight
<1>8. ASSUME NEW t \in Tokens, ExpireRefreshToken(t) PROVE Inv'
  BY <1>8 DEF ExpireRefreshToken, TypeOK, InFlight
<1>9. CASE UNCHANGED vars
  BY <1>9 DEF vars, TypeOK, InFlight
<1> QED
  BY <1>1, <1>2, <1>3, <1>4, <1>5, <1>6, <1>7, <1>8, <1>9 DEF Next

LEMMA Invariant == Spec => []Inv
<1>1. Init => Inv
  BY DEF Init, Inv, TypeOK, LogoutIsFinal, Call, Idle
<1> QED
  BY <1>1, InvStep, PTL DEF Spec

\* Hashes, tokens and requests stay in their types.
THEOREM TypeInvariant == Spec => []TypeOK
<1>1. Inv => TypeOK
  BY DEF Inv
<1> QED
  BY <1>1, Invariant, PTL

\* After a logout only a sign-in, or a request that was past the comparison at
\* the logout, opens the session again (logout, refresh, persistRefreshToken).
THEOREM LogoutTheorem == Spec => []LogoutIsFinal
<1>1. Inv => LogoutIsFinal
  BY DEF Inv
<1> QED
  BY <1>1, Invariant, PTL

-----------------------------------------------------------------------------
(* Sessions implements SessionGate                                         *)

Open      == {u \in Users : hash[u] # NoHash}
Signing   == [u \in Users |-> Requesting(u, "signIn")]
Renewing  == [u \in Users |-> Requesting(u, "refresh")]

\* The requests of the other users, and those of other kinds, are not touched
\* by a step that moves r alone.
LEMMA OthersStay ==
  ASSUME NEW r \in Requests, \A q \in Requests \ {r} : call'[q] = call[q],
         NEW u \in Users, NEW kind
  PROVE  /\ Requesting(u, kind)' \ {r} = Requesting(u, kind) \ {r}
         /\ r \in Requesting(u, kind) <=> InFlight(r, u) /\ call[r].kind = kind
         /\ r \in Requesting(u, kind)' <=> InFlight(r, u)' /\ call'[r].kind = kind
  BY DEF Requesting, InFlight

LEMMA GateEnters ==
  ASSUME NEW r \in Requests, call[r] = Idle, \A q \in Requests \ {r} : call'[q] = call[q],
         NEW u \in Users, NEW kind \in {"signIn", "refresh"},
         InFlight(r, u)', call'[r].kind = kind, \A v \in Users \ {u} : ~InFlight(r, v)'
  PROVE  /\ \A v \in Users : r \notin Signing[v] \cup Renewing[v]
         /\ kind = "signIn" => /\ Signing' = [Signing EXCEPT ![u] = @ \cup {r}]
                               /\ Renewing' = Renewing
         /\ kind = "refresh" => /\ Renewing' = [Renewing EXCEPT ![u] = @ \cup {r}]
                                /\ Signing' = Signing
<1>1. \A v \in Users : ~InFlight(r, v)
  BY DEF InFlight, Idle
<1>2. \A v \in Users, k \in {"signIn", "refresh"} :
        Requesting(v, k)' = IF v = u /\ k = kind THEN Requesting(v, k) \cup {r}
                                                ELSE Requesting(v, k)
  BY <1>1 DEF Requesting, InFlight
<1>3. \A v \in Users : r \notin Signing[v] \cup Renewing[v]
  BY <1>1 DEF Signing, Renewing, Requesting
<1> QED
  BY <1>2, <1>3 DEF Signing, Renewing

LEMMA GateLeaves ==
  ASSUME TypeOK, NEW r \in Requests, call[r].pc = "persist", call' = [call EXCEPT ![r] = Idle]
  PROVE  LET u == call[r].token.sub IN
         /\ u \in Users
         /\ r \in Signing[u] \cup Renewing[u]
         /\ Signing' = [Signing EXCEPT ![u] = @ \ {r}]
         /\ Renewing' = [Renewing EXCEPT ![u] = @ \ {r}]
<1> DEFINE u == call[r].token.sub
<1>1. u \in Users /\ call[r].kind \in {"signIn", "refresh"}
  BY PersistTyped
<1>2. r \in Signing[u] \cup Renewing[u]
  BY <1>1 DEF Signing, Renewing, Requesting, InFlight
<1>3. \A v \in Users, k \in {"signIn", "refresh"} :
        Requesting(v, k)' = IF v = u THEN Requesting(v, k) \ {r} ELSE Requesting(v, k)
  BY DEF Requesting, InFlight, Idle, TypeOK
<1> QED
  BY <1>1, <1>2, <1>3 DEF Signing, Renewing

LEMMA GateStands ==
  ASSUME UNCHANGED call
  PROVE  UNCHANGED <<Signing, Renewing>>
  BY DEF Signing, Renewing, Requesting, InFlight

LEMMA GateStep == Inv /\ [Next]_vars => [Gate!Next]_(Gate!vars)
<1> SUFFICES ASSUME Inv, [Next]_vars PROVE [Gate!Next]_(Gate!vars)
  OBVIOUS
<1> USE NoHashAssumption
<1> USE DEF Inv
<1>0. /\ Gate!vars = <<Open, Signing, Renewing>>
      /\ Gate!vars' = <<Open', Signing', Renewing'>>
  BY DEF Gate!vars, Open, Signing, Renewing
<1>1. ASSUME NEW r \in Requests, PersistRefreshToken(r) PROVE Gate!Next
  <2> DEFINE u == call[r].token.sub
  <2>1. Gate!Leave(r, u) /\ u \in Users
    BY <1>1, GateLeaves DEF PersistRefreshToken, Gate!Leave, Signing, Renewing
  <2>2. CASE u \in rows
    <3>1. Open' = Open \cup {u}
      BY <1>1, <2>1, <2>2, PersistTyped DEF PersistRefreshToken, Open, TypeOK
    <3> QED
      BY <2>1, <3>1 DEF Gate!Next, Gate!Complete, Open
  <2>3. CASE u \notin rows
    <3>1. Open' = Open
      BY <1>1, <2>1, <2>3 DEF PersistRefreshToken, Open, TypeOK
    <3> QED
      BY <2>1, <3>1 DEF Gate!Next, Gate!Abandon, Open
  <2> QED
    BY <2>2, <2>3
<1>2. ASSUME NEW r \in Requests, Fail(r) PROVE Gate!Next
  <2> DEFINE u == call[r].token.sub
  <2>1. Gate!Leave(r, u) /\ u \in Users
    BY <1>2, GateLeaves DEF Fail, Gate!Leave, Signing, Renewing
  <2>2. Open' = Open
    BY <1>2 DEF Fail, Open
  <2> QED
    BY <2>1, <2>2 DEF Gate!Next, Gate!Abandon, Open
<1>3. ASSUME NEW r \in Requests, NEW u \in Users, BeginSignIn(r, u) PROVE Gate!Next
  <2>1. /\ \A v \in Users : r \notin Signing[v] \cup Renewing[v]
        /\ Signing' = [Signing EXCEPT ![u] = @ \cup {r}]
        /\ Renewing' = Renewing
    BY <1>3, SignTyped, GateEnters DEF BeginSignIn
  <2>2. Open' = Open
    BY <1>3 DEF BeginSignIn, Open
  <2>3. Gate!SignIn(r, u)
    BY <2>1, <2>2 DEF Gate!SignIn, Gate!Inside, Open, Signing, Renewing
  <2> QED
    BY <2>3 DEF Gate!Next
<1>4. ASSUME NEW r \in Requests, NEW t \in Tokens, BeginRefresh(r, t) PROVE Gate!Next
  <2>1. t.sub \in Users
    BY DEF Tokens
  <2>2. /\ \A v \in Users : r \notin Signing[v] \cup Renewing[v]
        /\ Renewing' = [Renewing EXCEPT ![t.sub] = @ \cup {r}]
        /\ Signing' = Signing
    BY <1>4, <2>1, SignTyped, GateEnters DEF BeginRefresh
  <2>3. Open' = Open /\ t.sub \in Open
    BY <1>4, <2>1 DEF BeginRefresh, Open, Matches
  <2>4. Gate!Renew(r, t.sub)
    BY <2>2, <2>3 DEF Gate!Renew, Gate!Inside, Open, Signing, Renewing
  <2> QED
    BY <2>1, <2>4 DEF Gate!Next
<1>5. ASSUME NEW u \in Users, Logout(u) \/ RemoveUser(u) PROVE Gate!Next
  <2>1. Open' = Open \ {u}
    BY <1>5 DEF Logout, RemoveUser, Open, TypeOK
  <2>2. UNCHANGED <<Signing, Renewing>>
    BY <1>5, GateStands DEF Logout, RemoveUser
  <2>3. Gate!Close(u)
    BY <2>1, <2>2 DEF Gate!Close, Open, Signing, Renewing
  <2> QED
    BY <2>3 DEF Gate!Next
<1>6. ASSUME UNCHANGED <<hash, call>> PROVE UNCHANGED Gate!vars
  BY <1>0, <1>6, GateStands DEF Open
<1> QED
  BY <1>1, <1>2, <1>3, <1>4, <1>5, <1>6
  DEF Next, ExpireAccessTokens, ExpireRefreshToken, vars

\* refresh lets nobody in whose session is closed, and only a request that was
\* let in opens it: the column implements the gate.
THEOREM GateTheorem == Spec => ImplementsGate
<1>1. Init => Gate!Init
  BY DEF Init, Gate!Init, Requesting, InFlight, Idle
<1> QED
  BY <1>1, GateStep, Invariant, PTL DEF Spec, ImplementsGate, Gate!Spec
=============================================================================
