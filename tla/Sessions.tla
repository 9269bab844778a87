------------------------------ MODULE Sessions ------------------------------
(***************************************************************************)
(* Refresh tokens of AuthService: issueTokens (the end of login,           *)
(* verifyEmail and both Google sign-ins), refresh and logout, over the     *)
(* column users.refresh_token_hash.                                        *)
(*                                                                         *)
(* A token pair is signed without touching a store, so signing belongs to  *)
(* the read before it; the hash is written by one blind update, a step of  *)
(* its own, and between the two any other request may run.                 *)
(***************************************************************************)
EXTENDS Naturals, FiniteSets

CONSTANTS
    Users,      \* ids of rows of the users table
    NoHash,     \* the column is NULL
    Requests,   \* requests in flight at the same time
    Serials     \* bound: how many tokens of one user exist at a time

Tokens == [sub : Users, serial : Serials]

ASSUME UsersAssumption   == Users # {}
ASSUME SerialsAssumption == Serials # {}
ASSUME NoHashAssumption  == NoHash \notin Tokens

VARIABLES
    rows,      \* the users that have a row
    hash,      \* hash[u]: the token whose bcrypt hash the column holds
    valid,     \* refresh tokens handed to clients and not expired
    access,    \* users holding an access token that has not expired
    call,      \* call[r]: where request r stands, and its locals
    revoked,   \* history: valid tokens whose hash a logout has cleared
    closed,    \* history: users who have logged out, and whose session
               \* neither a sign-in nor an overtaken request reopened since
    overtaken  \* history: requests that were in flight for a user at one of
               \* that user's logouts

history == <<revoked, closed, overtaken>>
vars    == <<rows, hash, valid, access, call, history>>

-----------------------------------------------------------------------------
Call == [pc : {"idle"}] \cup
        [pc : {"persist"}, kind : {"signIn", "refresh"}, token : Tokens]

Idle == [pc |-> "idle"]

InFlight(r, u) == call[r].pc = "persist" /\ call[r].token.sub = u

\* Tokens of u that nobody holds: signing draws one of them.
Unused(u) ==
    {t \in Tokens : /\ t.sub = u
                    /\ t \notin valid
                    /\ \A v \in Users : hash[v] # t
                    /\ \A r \in Requests : call[r].pc = "persist" => call[r].token # t}

\* bcrypt reads 72 bytes.  The fixed JWT header and dot take 37 of them and
\* the payload starts with {"sub":"<uuid>..., so what is left of the token
\* tells users apart, but not the tokens of one user.
BcryptInput(t) == t.sub

MatchesOrNull(t, h) == h = NoHash \/ BcryptInput(t) = BcryptInput(h)

\* bcrypt.compare, behind the test for NULL.
Matches(t, h) == h # NoHash /\ BcryptInput(t) = BcryptInput(h)

TypeOK ==
    /\ rows \subseteq Users
    /\ hash \in [Users -> Tokens \cup {NoHash}]
    /\ valid \subseteq Tokens
    /\ access \subseteq Users
    /\ call \in [Requests -> Call]
    /\ revoked \subseteq Tokens
    /\ closed \subseteq Users
    /\ overtaken \subseteq Requests

Init ==
    /\ rows = Users
    /\ hash = [u \in Users |-> NoHash]
    /\ valid = {}
    /\ access = {}
    /\ call = [r \in Requests |-> Idle]
    /\ revoked = {}
    /\ closed = {}
    /\ overtaken = {}

-----------------------------------------------------------------------------
\* signTokens for u, and on to the write.
Sign(r, u, kind) ==
    \E t \in Unused(u) :
        /\ call' = [call EXCEPT ![r] = [pc |-> "persist", kind |-> kind, token |-> t]]
        /\ revoked' = revoked \ {t}

\* Like MatchesOrNull, a seeded fault that no behaviour of Spec
\* uses: the hash stored at the start, before anything else can fail.
BeginSignInStoring(r, u) ==
    /\ call[r] = Idle
    /\ u \in rows
    /\ Sign(r, u, "signIn")
    /\ hash' = [hash EXCEPT ![u] = call'[r].token]
    /\ closed' = closed \ {u}
    /\ UNCHANGED <<rows, valid, access, overtaken>>

\* login, verifyEmail and the Google sign-ins, from where they hold the row of
\* an account they accept (modules EmailVerification and Accounts).
BeginSignIn(r, u) ==
    /\ call[r] = Idle
    /\ u \in rows
    /\ Sign(r, u, "signIn")
    /\ closed' = closed \ {u}
    /\ UNCHANGED <<rows, hash, valid, access, overtaken>>

\* refresh: the JWT verifies, findOne finds the row, the hash is there and
\* matches.  Every other outcome is a refusal that changes nothing.
BeginRefresh(r, t) ==
    /\ call[r] = Idle
    /\ t \in valid
    /\ t.sub \in rows
    /\ Matches(t, hash[t.sub])
    /\ Sign(r, t.sub, "refresh")
    /\ UNCHANGED <<rows, hash, valid, access, closed, overtaken>>

\* persistRefreshToken: an update by id, which reports no missing row, and the
\* response with the new pair.  Nothing asks again whether the session is still
\* open: a request that a logout has overtaken opens it again.
PersistRefreshToken(r) ==
    LET t == call[r].token IN
    /\ call[r].pc = "persist"
    /\ hash' = [hash EXCEPT ![t.sub] = IF t.sub \in rows THEN t ELSE @]
    /\ valid' = valid \cup {t}
    /\ access' = access \cup {t.sub}
    /\ call' = [call EXCEPT ![r] = Idle]
    /\ closed' = IF r \in overtaken THEN closed \ {t.sub} ELSE closed
    /\ overtaken' = overtaken \ {r}
    /\ UNCHANGED <<rows, revoked>>

\* logout clears the column for whoever presents an access token.
Logout(u) ==
    /\ u \in access
    /\ hash' = [hash EXCEPT ![u] = NoHash]
    /\ revoked' = revoked \cup (valid \cap {hash[u]})
    /\ closed' = closed \cup {u}
    /\ overtaken' = overtaken \cup {r \in Requests : InFlight(r, u)}
    /\ UNCHANGED <<rows, valid, access, call>>

\* A removed row is found by no later findOne, whether or not the ORM keeps it.
RemoveUser(u) ==
    /\ u \in rows
    /\ rows' = rows \ {u}
    /\ hash' = [hash EXCEPT ![u] = NoHash]
    /\ UNCHANGED <<valid, access, call, history>>

\* A rejected await or a killed process; the client gets no tokens.
Fail(r) ==
    /\ call[r].pc = "persist"
    /\ call' = [call EXCEPT ![r] = Idle]
    /\ overtaken' = overtaken \ {r}
    /\ UNCHANGED <<rows, hash, valid, access, revoked, closed>>

ExpireRefreshToken(t) ==
    /\ t \in valid
    /\ valid' = valid \ {t}
    /\ revoked' = revoked \ {t}
    /\ UNCHANGED <<rows, hash, access, call, closed, overtaken>>

ExpireAccessTokens(u) ==
    /\ u \in access
    /\ access' = access \ {u}
    /\ UNCHANGED <<rows, hash, valid, call, history>>

-----------------------------------------------------------------------------
Next ==
    \/ \E r \in Requests : PersistRefreshToken(r) \/ Fail(r)
    \/ \E r \in Requests, u \in Users : BeginSignIn(r, u)
    \/ \E r \in Requests, t \in Tokens : BeginRefresh(r, t)
    \/ \E u \in Users : Logout(u) \/ RemoveUser(u) \/ ExpireAccessTokens(u)
    \/ \E t \in Tokens : ExpireRefreshToken(t)

Spec == Init /\ [][Next]_vars

-----------------------------------------------------------------------------
Requesting(u, kind) == {r \in Requests : InFlight(r, u) /\ call[r].kind = kind}

Gate == INSTANCE SessionGate WITH
            open     <- {u \in Users : hash[u] # NoHash},
            signing  <- [u \in Users |-> Requesting(u, "signIn")],
            renewing <- [u \in Users |-> Requesting(u, "refresh")]

\* The column behaves as a gate: a refresh is let in only while the session is
\* open, and only a completed request opens it (refresh, issueTokens, logout).
ImplementsGate == Gate!Spec

\* Whatever is in flight when a user logs out, and however many tokens of old
\* sessions are still valid, nothing opens the session again, or gets past the
\* comparison towards opening it, but a sign-in or one of the requests that
\* were past it at the logout.  Those do: persistRefreshToken does not look.
LogoutIsFinal ==
    \A u \in closed : /\ hash[u] = NoHash
                      /\ \A r \in Requests : InFlight(r, u) => r \in overtaken

\* A refresh token that a logout has revoked is not exchanged again.
RevokedTokensRefused ==
    [][\A r \in Requests, t \in revoked : ~BeginRefresh(r, t)]_vars
=============================================================================
