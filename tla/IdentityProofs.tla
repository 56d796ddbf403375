----------------------------- MODULE IdentityProofs -----------------------------
(***************************************************************************)
(* The inductive invariant of Identity and what follows from it, for any      *)
(* number of accounts, addresses, links, sessions and requests.              *)
(*                                                                         *)
(* A request keeps what it read while others commit.  Evolves(r) is what a     *)
(* step of request r grants to all others: rows stay, accounts stay active,    *)
(* and only r's own new account, new link and locked link change.  OthersKept  *)
(* shows once that this is enough; each action then only shows Evolves and     *)
(* what becomes of its own request.                                          *)
(***************************************************************************)
EXTENDS Identity, TLAPS

(* The kind of link each handler spends.                                    *)
Spends(op) ==
  CASE op = "reset" -> "reset" [] op = "confirmEmail" -> "change" [] OTHER -> "verify"

Known == {"login", "signed", "requestReset", "requestChange"} \union Ending

(* What a request in flight still relies on.                                 *)
Sound(r) ==
  LET q == request[r]
  IN  /\ q.op # "idle" => q.user \in Users
      /\ q.op = "register" =>
           account[q.user] = None /\ q.email \in Emails /\ q.password \in Passwords
      /\ q.op = "google" =>
           /\ q.email \in Emails
           /\ q.subject \in Subjects
           /\ account[q.user] # None => account[q.user].active
      /\ q.op \in Known => account[q.user] # None /\ account[q.user].active
      /\ q.op \in {"login", "requestChange"} => q.email \in Emails
      /\ q.op \in {"reset", "change"} => q.password \in Passwords
      /\ q.op \in Issuing => q.token \in Tokens /\ token[q.token] = None
      /\ q.op \in Spending =>
           /\ q.token \in Tokens
           /\ token[q.token] # None
           /\ token[q.token].user = q.user
           /\ token[q.token].kind = Spends(q.op)
           /\ token[q.token].state # "used"
           /\ q.op = "confirmEmail" => q.email = token[q.token].email

InFlight == \A r \in Requests : Sound(r)

(* No two requests create one account, issue one link or spend one link.      *)
Apart ==
  \A r1, r2 \in Requests : r1 # r2 =>
    /\ Inserting(r1) /\ Inserting(r2) => request[r1].user # request[r2].user
    /\ request[r1].op \in Issuing /\ request[r2].op \in Issuing =>
         request[r1].token # request[r2].token
    /\ request[r1].op \in Spending /\ request[r2].op \in Spending =>
         request[r1].token # request[r2].token

(* Links belong to accounts: those for a reset or a change to active ones, and *)
(* the one that activates an account was sent to the account's address.       *)
LinkOwners ==
  \A t \in Tokens : token[t] # None =>
    LET a == account[token[t].user]
    IN  /\ a # None
        /\ token[t].kind # "reset" => token[t].email \in Emails
        /\ token[t].kind # "verify" => a.active
        /\ token[t].kind = "verify" => a.active \/ token[t].email = a.email

GoogleOwners == \A g \in Subjects : link[g] # None => account[link[g].user] # None

SessionOwners ==
  \A s \in Sessions : Live(s) =>
    account[session[s].user] # None /\ account[session[s].user].active

(* A request about to replace credentials has doomed every session that was    *)
(* not stored meanwhile, or keeps it.                                       *)
CoveredBy(r, s) ==
  request[r].op \in Ending /\ Live(s) /\ session[s].user = request[r].user
    /\ ~session[s].raced
  => s \in request[r].doomed \/ (request[r].op = "change" /\ s = request[r].keep)

(* The session a request came with is, as long as it lives, its user's.         *)
Keeper(r) ==
  LET q == request[r]
  IN  q.op \in {"signed", "change"} =>
        /\ q.keep \in Sessions
        /\ session[q.keep] # None
        /\ Live(q.keep) => session[q.keep].user = q.user

Keepers == \A r \in Requests : Keeper(r)

Covered == \A r \in Requests, s \in Sessions : CoveredBy(r, s)

IInv ==
  /\ TypeOK /\ InFlight /\ Apart /\ LinkOwners /\ GoogleOwners /\ SessionOwners
  /\ Keepers /\ Covered /\ SessionsVouched /\ AddressesProven /\ PendingHasLink


--------------------------------------------------------------------------------
(* What steps grant to the requests that do not take them.                    *)

(* The requests R (one, or none when time passes) may have changed only this.   *)
Evolves(R) ==
  /\ \A u \in Users : account[u] # None =>
       account'[u] # None /\ (account[u].active => account'[u].active)
  /\ \A u \in Users : account[u] = None /\ account'[u] # None =>
       \E r \in R : Inserting(r) /\ u = request[r].user
  /\ \A t \in Tokens : token[t] # None =>
       /\ token'[t] # None
       /\ token'[t].kind = token[t].kind
       /\ token'[t].user = token[t].user
       /\ token'[t].email = token[t].email
       /\ token'[t].state = "used" => \/ token[t].state = "used"
                                      \/ \E r \in R : request[r].op \in Spending
                                                      /\ t = request[r].token
  /\ \A t \in Tokens : token[t] = None /\ token'[t] # None =>
       \E r \in R : request[r].op \in Issuing /\ t = request[r].token

(* What a request claims with its next state, nobody else has claimed.         *)
Claims(r) ==
  \A r2 \in Requests \ {r} :
    /\ Inserting(r)' => request[r2].user # request'[r].user
    /\ request'[r].op \in Issuing => request[r2].token # request'[r].token
    /\ request'[r].op \in Spending /\ request[r2].op \in Spending =>
         request[r2].token # request'[r].token

LEMMA RequestType ==
  ASSUME TypeOK, NEW r \in Requests
  PROVE  /\ request[r] \in Request
         /\ request[r].op \in {"idle", "signed", "login", "google"}
                              \union Issuing \union Ending \union Spending
         /\ request[r].user \in Users \union {None}
         /\ request[r].doomed \subseteq Sessions
BY DEF TypeOK, Request

LEMMA RowType ==
  ASSUME TypeOK
  PROVE  /\ \A u \in Users : account[u] # None =>
              /\ account[u] \in Account
              /\ account[u].email \in Emails
              /\ account[u].password \in Passwords \union {None}
              /\ account[u].active \in BOOLEAN
         /\ \A t \in Tokens : token[t] # None =>
              /\ token[t] \in Token
              /\ token[t].user \in Users
              /\ token[t].kind \in {"verify", "reset", "change"}
              /\ token[t].email \in Emails \union {None}
         /\ \A s \in Sessions : Live(s) =>
              /\ session[s] \in Session
              /\ session[s].user \in Users
              /\ session[s].raced \in BOOLEAN
         /\ \A g \in Subjects : link[g] # None => link[g].user \in Users /\ link[g].email \in Emails
BY DEF TypeOK, Account, Token, Session, Link, Live

LEMMA OthersKept ==
  ASSUME IInv, NEW R \in SUBSET Requests, Evolves(R),
         NEW r2 \in Requests \ R, request'[r2] = request[r2]
  PROVE  Sound(r2)'
<1> DEFINE q == request[r2]
<1>1. Sound(r2)
  BY DEF IInv, InFlight
<1>2. q.op \in {"idle", "signed", "login", "google"} \union Issuing \union Ending
\union Spending
  BY RequestType DEF IInv
<1>3. q.op = "register" => account'[q.user] = None
  BY <1>1 DEF Sound, Evolves, IInv, Apart, Inserting
<1>4. q.op = "google" /\ account'[q.user] # None => account'[q.user].active
  BY <1>1 DEF Sound, Evolves, IInv, Apart, Inserting
<1>5. q.op \in Known => account'[q.user] # None /\ account'[q.user].active
  BY <1>1 DEF Sound, Evolves, Known, Ending
<1>6. q.op \in Issuing => token'[q.token] = None
  BY <1>1 DEF Sound, Evolves, IInv, Apart
<1>7. q.op \in Spending =>
        /\ token'[q.token] # None
        /\ token'[q.token].user = q.user
        /\ token'[q.token].kind = Spends(q.op)
        /\ token'[q.token].state # "used"
        /\ q.op = "confirmEmail" => q.email = token'[q.token].email
  BY <1>1 DEF Sound, Evolves, IInv, Apart
<1> QED
  BY <1>1, <1>3, <1>4, <1>5, <1>6, <1>7 DEF Sound

LEMMA Moves ==
  ASSUME IInv, NEW r \in Requests, NEW q, request' = [request EXCEPT ![r] = q],
         Evolves({r}), Sound(r)', Claims(r)
  PROVE  InFlight' /\ Apart'
<1>1. \A r2 \in Requests \ {r} : request'[r2] = request[r2]
  BY DEF IInv, TypeOK
<1>2. InFlight'
  <2> SUFFICES ASSUME NEW r2 \in Requests PROVE Sound(r2)'
    BY DEF InFlight
  <2>1. CASE r2 # r
    BY <2>1, <1>1, OthersKept
  <2> QED BY <2>1
<1>3. \A r2 \in Requests \ {r} : Inserting(r2)' => Inserting(r2)
  BY <1>1 DEF Inserting, Evolves, IInv, InFlight, Sound
<1>4. Apart'
  BY <1>1, <1>3 DEF Apart, Claims, IInv
<1> QED
  BY <1>2, <1>4

(* A step that changes no table, only what its request goes on to do.          *)
LEMMA Begins ==
  ASSUME IInv, NEW r \in Requests, NEW q \in Request,
         request' = [request EXCEPT ![r] = q], UNCHANGED <<tables, mail>>,
         Sound(r)', Claims(r), Keeper(r)', \A s \in Sessions : CoveredBy(r, s)'
  PROVE  IInv'
<1>1. Evolves({r})
  BY DEF Evolves, tables
<1>2. InFlight' /\ Apart'
  BY <1>1, Moves
<1>3. TypeOK'
  BY DEF IInv, TypeOK, tables
<1>4. \A r2 \in Requests \ {r} : request'[r2] = request[r2]
  BY DEF IInv, TypeOK
<1>5. Covered'
  BY <1>4 DEF Covered, CoveredBy, IInv, tables, Live
<1>6. LinkOwners' /\ GoogleOwners' /\ SessionOwners'
  BY DEF IInv, LinkOwners, GoogleOwners, SessionOwners, tables, Live
<1>7. Keepers'
  BY <1>4 DEF IInv, Keepers, Keeper, tables, Live
<1>8. SessionsVouched' /\ AddressesProven' /\ PendingHasLink'
  BY DEF IInv, SessionsVouched, AddressesProven, PendingHasLink, tables, Live, Registered
<1> QED
  BY <1>2, <1>3, <1>5, <1>6, <1>8, <1>7 DEF IInv

LEMMA InitIInv == Init => IInv
<1> SUFFICES ASSUME Init PROVE IInv
  OBVIOUS
<1>1. TypeOK
  BY DEF Init, TypeOK, Idle, Request
<1>2. InFlight /\ Apart /\ Covered /\ Keepers
  BY DEF Init, Idle, InFlight, Sound, Apart, Inserting, Covered, CoveredBy, Keepers,
         Keeper, Known, Issuing, Ending, Spending
<1>3. LinkOwners /\ GoogleOwners /\ SessionOwners /\ SessionsVouched /\ AddressesProven /\ PendingHasLink
  BY DEF Init, LinkOwners, GoogleOwners, SessionOwners, SessionsVouched, AddressesProven,
         PendingHasLink, Live, Registered
<1> QED BY <1>1, <1>2, <1>3 DEF IInv


--------------------------------------------------------------------------------
(* Requests that begin, or end without effect. *)

LEMMA RegisterStep ==
  ASSUME IInv, NEW r \in Requests, NEW u \in Users, NEW e \in Emails, NEW p \in
         Passwords, NEW t \in Tokens,
         Register(r, u, e, p, t)
  PROVE  IInv'
<1> DEFINE q == [op |-> "register", user |-> u, email |-> e, password |-> p, token |-> t,
                keep |-> None, doomed |-> {}, subject |-> None]
<1> USE RequestType, RowType DEF IInv
<1>1. q \in Request
  BY DEF Register, Request, TypeOK, Issuing, Ending, Spending, InFlight, Sound, Known,
     FreshUsers, FreshTokens, Registered
<1>2. request' = [request EXCEPT ![r] = q] /\ UNCHANGED <<tables, mail>>
  BY DEF Register
<1>3. request'[r] = q
  BY <1>2 DEF TypeOK
<1>4. Sound(r)'
  BY <1>2, <1>3 DEF Register, Sound, InFlight, Known, Issuing, Ending, Spending,
     tables, FreshUsers, FreshTokens, Registered
<1>5. Claims(r)
  BY <1>2, <1>3 DEF Register, Claims, Inserting, InFlight, Sound, Issuing, Ending,
     Spending, Known, tables, FreshUsers, FreshTokens, Registered
<1>6. \A s2 \in Sessions : CoveredBy(r, s2)'
  BY <1>2, <1>3 DEF CoveredBy, Ending, tables, Live
<1>7. Keeper(r)'
  BY <1>2, <1>3 DEF Register, Keeper, tables, Live
<1> HIDE DEF q
<1> QED
  BY <1>1, <1>2, <1>4, <1>5, <1>6, <1>7, Begins

LEMMA VerifyEmailStep ==
  ASSUME IInv, NEW r \in Requests, NEW t \in Tokens,
         VerifyEmail(r, t)
  PROVE  IInv'
<1> DEFINE q == [op |-> "activate", user |-> token[t].user, email |-> None, password
|-> None,
                token |-> t, keep |-> None, doomed |-> {}, subject |-> None]
<1> USE RequestType, RowType DEF IInv
<1>1. q \in Request
  BY DEF VerifyEmail, Request, TypeOK, Issuing, Ending, Spending, InFlight, Sound,
     Known, MayActivate, Usable, Locked, LinkOwners, Spends
<1>2. request' = [request EXCEPT ![r] = q] /\ UNCHANGED <<tables, mail>>
  BY DEF VerifyEmail
<1>3. request'[r] = q
  BY <1>2 DEF TypeOK
<1>4. Sound(r)'
  BY <1>2, <1>3 DEF VerifyEmail, Sound, InFlight, Known, Issuing, Ending, Spending,
     tables, MayActivate, Usable, Locked, LinkOwners, Spends
<1>5. Claims(r)
  BY <1>2, <1>3 DEF VerifyEmail, Claims, Inserting, InFlight, Sound, Issuing, Ending,
     Spending, Known, tables, MayActivate, Usable, Locked, LinkOwners, Spends
<1>6. \A s2 \in Sessions : CoveredBy(r, s2)'
  BY <1>2, <1>3 DEF CoveredBy, Ending, tables, Live
<1>7. Keeper(r)'
  BY <1>2, <1>3 DEF VerifyEmail, Keeper, tables, Live
<1> HIDE DEF q
<1> QED
  BY <1>1, <1>2, <1>4, <1>5, <1>6, <1>7, Begins

LEMMA LoginStep ==
  ASSUME IInv, NEW r \in Requests, NEW u \in Users,
         Login(r, u)
  PROVE  IInv'
<1> DEFINE q == SigningIn(u)
<1> USE RequestType, RowType DEF IInv
<1>1. q \in Request
  BY DEF Login, Request, TypeOK, Issuing, Ending, Spending, InFlight, Sound, Known,
     SigningIn, MaySignIn
<1>2. request' = [request EXCEPT ![r] = q] /\ UNCHANGED <<tables, mail>>
  BY DEF Login
<1>3. request'[r] = q
  BY <1>2 DEF TypeOK
<1>4. Sound(r)'
  BY <1>2, <1>3 DEF Login, Sound, InFlight, Known, Issuing, Ending, Spending, tables,
     SigningIn, MaySignIn
<1>5. Claims(r)
  BY <1>2, <1>3 DEF Login, Claims, Inserting, InFlight, Sound, Issuing, Ending,
     Spending, Known, tables, SigningIn, MaySignIn
<1>6. \A s2 \in Sessions : CoveredBy(r, s2)'
  BY <1>2, <1>3 DEF CoveredBy, Ending, tables, Live, SigningIn
<1>7. Keeper(r)'
  BY <1>2, <1>3 DEF Login, Keeper, tables, Live, SigningIn
<1> HIDE DEF q
<1> QED
  BY <1>1, <1>2, <1>4, <1>5, <1>6, <1>7, Begins

LEMMA CurrentIdentityStep ==
  ASSUME IInv, NEW r \in Requests, NEW s \in Sessions,
         CurrentIdentity(r, s)
  PROVE  IInv'
<1> DEFINE q == [op |-> "signed", user |-> session[s].user, email |-> None, password
|-> None,
                token |-> None, keep |-> s, doomed |-> {}, subject |-> None]
<1> USE RequestType, RowType DEF IInv
<1>1. q \in Request
  BY DEF CurrentIdentity, Request, TypeOK, Issuing, Ending, Spending, InFlight, Sound,
     Known, Authenticates, SessionOwners
<1>2. request' = [request EXCEPT ![r] = q] /\ UNCHANGED <<tables, mail>>
  BY DEF CurrentIdentity
<1>3. request'[r] = q
  BY <1>2 DEF TypeOK
<1>4. Sound(r)'
  BY <1>2, <1>3 DEF CurrentIdentity, Sound, InFlight, Known, Issuing, Ending, Spending,
     tables, Authenticates, SessionOwners
<1>5. Claims(r)
  BY <1>2, <1>3 DEF CurrentIdentity, Claims, Inserting, InFlight, Sound, Issuing,
     Ending, Spending, Known, tables, Authenticates, SessionOwners
<1>6. \A s2 \in Sessions : CoveredBy(r, s2)'
  BY <1>2, <1>3 DEF CoveredBy, Ending, tables, Live
<1>7. Keeper(r)'
  BY <1>2, <1>3 DEF CurrentIdentity, Keeper, tables, Live, Authenticates
<1> HIDE DEF q
<1> QED
  BY <1>1, <1>2, <1>4, <1>5, <1>6, <1>7, Begins

LEMMA GoogleKnownStep ==
  ASSUME IInv, NEW r \in Requests, NEW g \in Subjects,
         GoogleKnown(r, g)
  PROVE  IInv'
<1> DEFINE q == SigningIn(link[g].user)
<1> USE RequestType, RowType DEF IInv
<1>1. q \in Request
  BY DEF GoogleKnown, Request, TypeOK, Issuing, Ending, Spending, InFlight, Sound,
     Known, SigningIn, GoogleOwners
<1>2. request' = [request EXCEPT ![r] = q] /\ UNCHANGED <<tables, mail>>
  BY DEF GoogleKnown
<1>3. request'[r] = q
  BY <1>2 DEF TypeOK
<1>4. Sound(r)'
  BY <1>2, <1>3 DEF GoogleKnown, Sound, InFlight, Known, Issuing, Ending, Spending,
     tables, SigningIn, GoogleOwners
<1>5. Claims(r)
  BY <1>2, <1>3 DEF GoogleKnown, Claims, Inserting, InFlight, Sound, Issuing, Ending,
     Spending, Known, tables, SigningIn, GoogleOwners
<1>6. \A s2 \in Sessions : CoveredBy(r, s2)'
  BY <1>2, <1>3 DEF CoveredBy, Ending, tables, Live, SigningIn
<1>7. Keeper(r)'
  BY <1>2, <1>3 DEF GoogleKnown, Keeper, tables, Live, SigningIn
<1> HIDE DEF q
<1> QED
  BY <1>1, <1>2, <1>4, <1>5, <1>6, <1>7, Begins

LEMMA GoogleCallbackStep ==
  ASSUME IInv, NEW r \in Requests, NEW g \in Subjects, NEW u \in Users, NEW e \in Emails,
         GoogleCallback(r, g, u, e)
  PROVE  IInv'
<1> DEFINE q == [op |-> "google", user |-> u, email |-> e,
                password |-> IF account[u] = None THEN None ELSE account[u].password,
                token |-> None, keep |-> None, doomed |-> {}, subject |-> g]
<1> USE RequestType, RowType DEF IInv
<1>1. q \in Request
  BY DEF GoogleCallback, Request, TypeOK, Issuing, Ending, Spending, InFlight, Sound,
     Known, GoogleOwner, FreshUsers, Registered, OwnersOf
<1>2. request' = [request EXCEPT ![r] = q] /\ UNCHANGED <<tables, mail>>
  BY DEF GoogleCallback
<1>3. request'[r] = q
  BY <1>2 DEF TypeOK
<1>4. Sound(r)'
  BY <1>2, <1>3 DEF GoogleCallback, Sound, InFlight, Known, Issuing, Ending, Spending,
     tables, GoogleOwner, FreshUsers, Registered, OwnersOf
<1>5. Claims(r)
  BY <1>2, <1>3 DEF GoogleCallback, Claims, Inserting, InFlight, Sound, Issuing,
     Ending, Spending, Known, tables, GoogleOwner, FreshUsers, Registered, OwnersOf
<1>6. \A s2 \in Sessions : CoveredBy(r, s2)'
  BY <1>2, <1>3 DEF CoveredBy, Ending, tables, Live
<1>7. Keeper(r)'
  BY <1>2, <1>3 DEF GoogleCallback, Keeper, tables, Live
<1> HIDE DEF q
<1> QED
  BY <1>1, <1>2, <1>4, <1>5, <1>6, <1>7, Begins

LEMMA ForgotPasswordStep ==
  ASSUME IInv, NEW r \in Requests, NEW u \in Users, NEW t \in Tokens,
         ForgotPassword(r, u, t)
  PROVE  IInv'
<1> DEFINE q == [op |-> "requestReset", user |-> u, email |-> None, password |-> None,
                token |-> t, keep |-> None, doomed |-> {}, subject |-> None]
<1> USE RequestType, RowType DEF IInv
<1>1. q \in Request
  BY DEF ForgotPassword, Request, TypeOK, Issuing, Ending, Spending, InFlight, Sound,
     Known, MayRequestReset, FreshTokens
<1>2. request' = [request EXCEPT ![r] = q] /\ UNCHANGED <<tables, mail>>
  BY DEF ForgotPassword
<1>3. request'[r] = q
  BY <1>2 DEF TypeOK
<1>4. Sound(r)'
  BY <1>2, <1>3 DEF ForgotPassword, Sound, InFlight, Known, Issuing, Ending, Spending,
     tables, MayRequestReset, FreshTokens
<1>5. Claims(r)
  BY <1>2, <1>3 DEF ForgotPassword, Claims, Inserting, InFlight, Sound, Issuing,
     Ending, Spending, Known, tables, MayRequestReset, FreshTokens
<1>6. \A s2 \in Sessions : CoveredBy(r, s2)'
  BY <1>2, <1>3 DEF CoveredBy, Ending, tables, Live
<1>7. Keeper(r)'
  BY <1>2, <1>3 DEF ForgotPassword, Keeper, tables, Live
<1> HIDE DEF q
<1> QED
  BY <1>1, <1>2, <1>4, <1>5, <1>6, <1>7, Begins

LEMMA ChangeEmailStep ==
  ASSUME IInv, NEW r \in Requests, NEW e \in Emails, NEW t \in Tokens,
         ChangeEmail(r, e, t)
  PROVE  IInv'
<1> DEFINE q == [op |-> "requestChange", user |-> request[r].user, email |-> e,
                password |-> None, token |-> t, keep |-> None, doomed |-> {}, subject |-> None]
<1> USE RequestType, RowType DEF IInv
<1>1. q \in Request
  BY DEF ChangeEmail, Request, TypeOK, Issuing, Ending, Spending, InFlight, Sound,
     Known, MayRequestChange, FreshTokens
<1>2. request' = [request EXCEPT ![r] = q] /\ UNCHANGED <<tables, mail>>
  BY DEF ChangeEmail
<1>3. request'[r] = q
  BY <1>2 DEF TypeOK
<1>4. Sound(r)'
  BY <1>2, <1>3 DEF ChangeEmail, Sound, InFlight, Known, Issuing, Ending, Spending,
     tables, MayRequestChange, FreshTokens
<1>5. Claims(r)
  BY <1>2, <1>3 DEF ChangeEmail, Claims, Inserting, InFlight, Sound, Issuing, Ending,
     Spending, Known, tables, MayRequestChange, FreshTokens
<1>6. \A s2 \in Sessions : CoveredBy(r, s2)'
  BY <1>2, <1>3 DEF CoveredBy, Ending, tables, Live
<1>7. Keeper(r)'
  BY <1>2, <1>3 DEF ChangeEmail, Keeper, tables, Live
<1> HIDE DEF q
<1> QED
  BY <1>1, <1>2, <1>4, <1>5, <1>6, <1>7, Begins

LEMMA ResetPasswordStep ==
  ASSUME IInv, NEW r \in Requests, NEW t \in Tokens, NEW p \in Passwords,
         ResetPassword(r, t, p)
  PROVE  IInv'
<1> DEFINE q == [op |-> "reset", user |-> token[t].user, email |-> None, password |-> p,
                token |-> t, keep |-> None, doomed |-> SessionsOf(token[t].user),
                subject |-> None]
<1> USE RequestType, RowType DEF IInv
<1>1. q \in Request
  BY DEF ResetPassword, Request, TypeOK, Issuing, Ending, Spending, InFlight, Sound,
     Known, Usable, Locked, LinkOwners, Spends, SessionsOf
<1>2. request' = [request EXCEPT ![r] = q] /\ UNCHANGED <<tables, mail>>
  BY DEF ResetPassword
<1>3. request'[r] = q
  BY <1>2 DEF TypeOK
<1>4. Sound(r)'
  BY <1>2, <1>3 DEF ResetPassword, Sound, InFlight, Known, Issuing, Ending, Spending,
     tables, Usable, Locked, LinkOwners, Spends, SessionsOf
<1>5. Claims(r)
  BY <1>2, <1>3 DEF ResetPassword, Claims, Inserting, InFlight, Sound, Issuing, Ending,
     Spending, Known, tables, Usable, Locked, LinkOwners, Spends, SessionsOf
<1>6. \A s2 \in Sessions : CoveredBy(r, s2)'
  BY <1>2, <1>3 DEF CoveredBy, Ending, tables, Live, SessionsOf
<1>7. Keeper(r)'
  BY <1>2, <1>3 DEF ResetPassword, Keeper, tables, Live
<1> HIDE DEF q
<1> QED
  BY <1>1, <1>2, <1>4, <1>5, <1>6, <1>7, Begins

LEMMA ChangePasswordStep ==
  ASSUME IInv, NEW r \in Requests, NEW p \in Passwords,
         ChangePassword(r, p)
  PROVE  IInv'
<1> DEFINE q == [op |-> "change", user |-> request[r].user, email |-> None, password
|-> p,
                token |-> None, keep |-> request[r].keep,
                doomed |-> SessionsOf(request[r].user) \ {request[r].keep}, subject |->
                None]
<1> USE RequestType, RowType DEF IInv
<1>1. q \in Request
  BY DEF ChangePassword, Request, TypeOK, Issuing, Ending, Spending, InFlight, Sound,
     Known, SessionsOf
<1>2. request' = [request EXCEPT ![r] = q] /\ UNCHANGED <<tables, mail>>
  BY DEF ChangePassword
<1>3. request'[r] = q
  BY <1>2 DEF TypeOK
<1>4. Sound(r)'
  BY <1>2, <1>3 DEF ChangePassword, Sound, InFlight, Known, Issuing, Ending, Spending,
     tables, SessionsOf
<1>5. Claims(r)
  BY <1>2, <1>3 DEF ChangePassword, Claims, Inserting, InFlight, Sound, Issuing,
     Ending, Spending, Known, tables, SessionsOf
<1>6. \A s2 \in Sessions : CoveredBy(r, s2)'
  BY <1>2, <1>3 DEF CoveredBy, Ending, tables, Live, SessionsOf
<1>7. Keeper(r)'
  BY <1>2, <1>3 DEF ChangePassword, Keeper, tables, Live, Keepers
<1> HIDE DEF q
<1> QED
  BY <1>1, <1>2, <1>4, <1>5, <1>6, <1>7, Begins

LEMMA ConfirmEmailChangeStep ==
  ASSUME IInv, NEW r \in Requests, NEW t \in Tokens,
         ConfirmEmailChange(r, t)
  PROVE  IInv'
<1> DEFINE q == [op |-> "confirmEmail", user |-> token[t].user, email |-> token[t].email,
                password |-> None, token |-> t, keep |-> None,
                doomed |-> SessionsOf(token[t].user), subject |-> None]
<1> USE RequestType, RowType DEF IInv
<1>1. q \in Request
  BY DEF ConfirmEmailChange, Request, TypeOK, Issuing, Ending, Spending, InFlight,
     Sound, Known, MayConfirm, Usable, Locked, LinkOwners, Spends, SessionsOf
<1>2. request' = [request EXCEPT ![r] = q] /\ UNCHANGED <<tables, mail>>
  BY DEF ConfirmEmailChange
<1>3. request'[r] = q
  BY <1>2 DEF TypeOK
<1>4. Sound(r)'
  BY <1>2, <1>3 DEF ConfirmEmailChange, Sound, InFlight, Known, Issuing, Ending,
     Spending, tables, MayConfirm, Usable, Locked, LinkOwners, Spends, SessionsOf
<1>5. Claims(r)
  BY <1>2, <1>3 DEF ConfirmEmailChange, Claims, Inserting, InFlight, Sound, Issuing,
     Ending, Spending, Known, tables, MayConfirm, Usable, Locked, LinkOwners, Spends,
     SessionsOf
<1>6. \A s2 \in Sessions : CoveredBy(r, s2)'
  BY <1>2, <1>3 DEF CoveredBy, Ending, tables, Live, SessionsOf
<1>7. Keeper(r)'
  BY <1>2, <1>3 DEF ConfirmEmailChange, Keeper, tables, Live
<1> HIDE DEF q
<1> QED
  BY <1>1, <1>2, <1>4, <1>5, <1>6, <1>7, Begins

LEMMA AbandonStep ==
  ASSUME IInv, NEW r \in Requests,
         Abandon(r)
  PROVE  IInv'
<1> DEFINE q == Idle
<1> USE RequestType, RowType DEF IInv
<1>1. q \in Request
  BY DEF Abandon, Request, TypeOK, Issuing, Ending, Spending, InFlight, Sound, Known,
     Ends, Idle
<1>2. request' = [request EXCEPT ![r] = q] /\ UNCHANGED <<tables, mail>>
  BY DEF Abandon, Ends
<1>3. request'[r] = q
  BY <1>2 DEF TypeOK
<1>4. Sound(r)'
  BY <1>2, <1>3 DEF Abandon, Sound, InFlight, Known, Issuing, Ending, Spending, tables,
     Ends, Idle
<1>5. Claims(r)
  BY <1>2, <1>3 DEF Abandon, Claims, Inserting, InFlight, Sound, Issuing, Ending,
     Spending, Known, tables, Ends, Idle
<1>6. \A s2 \in Sessions : CoveredBy(r, s2)'
  BY <1>2, <1>3 DEF CoveredBy, Ending, tables, Live, Idle
<1>7. Keeper(r)'
  BY <1>2, <1>3 DEF Abandon, Keeper, tables, Live, Idle
<1> HIDE DEF q
<1> QED
  BY <1>1, <1>2, <1>4, <1>5, <1>6, <1>7, Begins


--------------------------------------------------------------------------------
(* Steps that only end or store sessions. *)

LEMMA SessionsOnly ==
  ASSUME IInv, TypeOK', UNCHANGED <<account, token, link, mail>>
  PROVE  LinkOwners' /\ GoogleOwners' /\ AddressesProven' /\ PendingHasLink'
BY DEF IInv, LinkOwners, GoogleOwners, AddressesProven, PendingHasLink, Registered

(* Sessions only end: nothing is left to show about those that stay.           *)
LEMMA SessionsEnd ==
  ASSUME IInv, NEW S \in SUBSET Sessions, session' = Without(S),
         UNCHANGED <<account, token, link, mail>>, TypeOK', InFlight', Apart',
         \A r \in Requests : request'[r] = request[r] \/ request'[r] = Idle
  PROVE  IInv'
<1>1. \A s \in Sessions : Live(s)' => Live(s) /\ session'[s] = session[s]
  BY DEF Live, Without, IInv, TypeOK
<1>2. SessionOwners'
  BY <1>1 DEF IInv, SessionOwners
<1>3. Covered'
  BY <1>1 DEF IInv, Covered, CoveredBy, Idle, Ending
<1>4. SessionsVouched'
  BY <1>1 DEF IInv, SessionsVouched
<1>5. Keepers'
  BY <1>1, IdentityAssumption DEF IInv, Keepers, Keeper, Idle, Without, TypeOK
<1> QED
  BY <1>2, <1>3, <1>4, <1>5, SessionsOnly DEF IInv

LEMMA LogoutStep ==
  ASSUME IInv, NEW s \in Sessions, Logout(s)
  PROVE  IInv'
<1>1. TypeOK'
  BY DEF Logout, Without, IInv, TypeOK
<1>2. InFlight' /\ Apart'
  BY DEF Logout, IInv, InFlight, Apart, Sound, Inserting
<1>3. \A r \in Requests : request'[r] = request[r]
  BY DEF Logout
<1> QED
  BY <1>1, <1>2, <1>3, SessionsEnd DEF Logout

LEMMA EndingStep ==
  ASSUME IInv, NEW r \in Requests, Ends(r), NEW S \in SUBSET Sessions, session' =
         Without(S),
         UNCHANGED <<account, token, link, mail>>
  PROVE  IInv'
<1>1. TypeOK'
  BY DEF Ends, Without, IInv, TypeOK, Idle, Request
<1>2. request'[r] = Idle /\ \A r2 \in Requests \ {r} : request'[r2] = request[r2]
  BY DEF Ends, IInv, TypeOK
<1>3. Evolves({r})
  BY DEF Evolves
<1>4. Sound(r)' /\ Claims(r)
  BY <1>2 DEF Sound, Claims, Inserting, Idle, Issuing, Ending, Spending, Known
<1>5. InFlight' /\ Apart'
  BY <1>3, <1>4, Moves DEF Ends
<1> QED
  BY <1>1, <1>2, <1>5, SessionsEnd

LEMMA RevokeSessionStep ==
  ASSUME IInv, NEW r \in Requests, NEW s \in Sessions, RevokeSession(r, s)
  PROVE  IInv'
BY EndingStep DEF RevokeSession

LEMMA RevokeOtherSessionsStep ==
  ASSUME IInv, NEW r \in Requests, RevokeOtherSessions(r)
  PROVE  IInv'
<1>1. SessionsOf(request[r].user) \ {request[r].keep} \in SUBSET Sessions
  BY DEF SessionsOf
<1> QED
  BY <1>1, EndingStep DEF RevokeOtherSessions

LEMMA IssueSessionStep ==
  ASSUME IInv, NEW r \in Requests, NEW s \in Sessions, IssueSession(r, s)
  PROVE  IInv'
<1> DEFINE q == request[r]
           row == [user |-> q.user, password |-> q.password, email |-> q.email,
                   raced |-> Overtaken(q)]
<1>1. session' = [session EXCEPT ![s] = row] /\ q.op = "login"
      /\ UNCHANGED <<account, token, link, mail>> /\ Ends(r) /\ session[s] = None
  BY DEF IssueSession
<1>2. q \in Request /\ q.user \in Users /\ account[q.user] # None /\ account[q.user].active
      /\ q.email \in Emails /\ q.password \in Passwords \union {None}
  BY <1>1 DEF IInv, InFlight, Sound, TypeOK, Request, Known
<1>3. row \in Session
  BY <1>2 DEF Session, Overtaken
<1>4. TypeOK'
  BY <1>1, <1>3 DEF Ends, IInv, TypeOK, Idle, Request
<1>5. request'[r] = Idle /\ \A r2 \in Requests \ {r} : request'[r2] = request[r2]
  BY <1>1 DEF Ends, IInv, TypeOK
<1>6. Evolves({r})
  BY <1>1 DEF Evolves
<1>7. Sound(r)' /\ Claims(r)
  BY <1>5 DEF Sound, Claims, Inserting, Idle, Issuing, Ending, Spending, Known
<1>8. InFlight' /\ Apart'
  BY <1>1, <1>6, <1>7, Moves DEF Ends
<1>9. session'[s] = row /\ \A s2 \in Sessions \ {s} : session'[s2] = session[s2]
  BY <1>1 DEF IInv, TypeOK
<1>10. \A s2 \in Sessions \ {s} : Live(s2)' <=> Live(s2)
  BY <1>9 DEF Live
<1>11. SessionOwners'
  BY <1>1, <1>2, <1>9, <1>10 DEF IInv, SessionOwners
<1>12. SessionsVouched'
  BY <1>1, <1>2, <1>9, <1>10 DEF IInv, SessionsVouched, Overtaken
<1>13. Covered'
  BY <1>1, <1>5, <1>9, <1>10 DEF IInv, Covered, CoveredBy, Overtaken, Idle, Ending
<1>14. Keepers'
  BY <1>1, <1>5, <1>9, <1>10 DEF IInv, Keepers, Keeper, Idle
<1> QED
  BY <1>1, <1>4, <1>8, <1>11, <1>12, <1>13, <1>14, SessionsOnly DEF IInv

--------------------------------------------------------------------------------
(* Commits, deliveries and time. *)

(* A commit changes the account u to a; every session that is still live then   *)
(* was live before, and those of u that stay are vouched for again.           *)
LEMMA Commits ==
  ASSUME IInv, TypeOK', NEW r \in Requests, Ends(r), Evolves({r}), UNCHANGED mail
  PROVE  InFlight' /\ Apart'
<1>1. request'[r] = Idle /\ \A r2 \in Requests \ {r} : request'[r2] = request[r2]
  BY DEF Ends, IInv, TypeOK
<1>2. Sound(r)' /\ Claims(r)
  BY <1>1 DEF Sound, Claims, Inserting, Idle, Issuing, Ending, Spending, Known
<1> QED
  BY <1>2, Moves DEF Ends

LEMMA MailStep ==
  ASSUME IInv, NEW r \in Requests, Mail(r)
  PROVE  IInv'
<1>1. request[r].token \in Tokens
  BY DEF IInv, InFlight, Sound, Mail
<1>2. TypeOK'
  BY <1>1 DEF IInv, TypeOK, Mail, tables
<1>3. InFlight' /\ Apart' /\ Covered' /\ Keepers'
  BY DEF IInv, InFlight, Apart, Sound, Inserting, Covered, CoveredBy, Keepers, Keeper,
     Live,
         Mail, tables
<1>4. LinkOwners' /\ GoogleOwners' /\ SessionOwners' /\ SessionsVouched' /\ AddressesProven'
  BY DEF IInv, LinkOwners, GoogleOwners, SessionOwners, SessionsVouched, AddressesProven,
         Registered, Live, Mail, tables
<1>5. PendingHasLink'
  BY DEF IInv, PendingHasLink, Registered, Mail, tables
<1> QED
  BY <1>2, <1>3, <1>4, <1>5 DEF IInv

LEMMA ExpireStep ==
  ASSUME IInv, NEW t \in Tokens, Expire(t)
  PROVE  IInv'
<1> DEFINE row == [kind |-> token[t].kind, user |-> token[t].user,
                   email |-> token[t].email, state |-> "expired"]
<1>1. token[t] # None /\ token[t].state = "open" /\ token' = [token EXCEPT ![t] = row]
      /\ UNCHANGED <<account, session, link, mail, request>>
  BY DEF Expire
<1>2. row \in Token
  BY <1>1, RowType DEF IInv, Token
<1>3. TypeOK'
  BY <1>1, <1>2 DEF IInv, TypeOK
<1>4. token'[t] = row /\ \A t2 \in Tokens \ {t} : token'[t2] = token[t2]
  BY <1>1 DEF IInv, TypeOK
<1>5. row # None
  BY <1>2, IdentityAssumption
<1> HIDE DEF row
<1>6. row.kind = token[t].kind /\ row.user = token[t].user /\ row.email = token[t].email
      /\ row.state = "expired"
  BY DEF row
<1>7. Evolves({})
  BY <1>1, <1>4, <1>5, <1>6 DEF Evolves
<1>8. InFlight'
  BY <1>1, <1>7, OthersKept DEF InFlight
<1>9. Apart' /\ Covered' /\ Keepers' /\ GoogleOwners' /\ SessionOwners' /\ SessionsVouched'
  BY <1>1 DEF IInv, Apart, Inserting, Covered, CoveredBy, Keepers, Keeper, Live,
     GoogleOwners,
               SessionOwners, SessionsVouched
<1>10. LinkOwners'
  BY <1>1, <1>4, <1>6 DEF IInv, LinkOwners
<1>11. AddressesProven'
  BY <1>1, <1>4, <1>6 DEF IInv, AddressesProven, Registered
<1>12. PendingHasLink'
  BY <1>1, <1>4, <1>5, <1>6 DEF IInv, PendingHasLink, Registered, TypeOK
<1> QED
  BY <1>3, <1>8, <1>9, <1>10, <1>11, <1>12 DEF IInv


LEMMA CommitRegisterStep ==
  ASSUME IInv, NEW r \in Requests, CommitRegister(r)
  PROVE  IInv'
<1> DEFINE q == request[r]
           u == q.user
           t == q.token
           a == [email |-> q.email, password |-> q.password, active |-> FALSE]
           row == Issued("verify", u, q.email)
<1>1. /\ q.op = "register" /\ t \in mail
      /\ account' = [account EXCEPT ![u] = a] /\ token' = [token EXCEPT ![t] = row]
      /\ Ends(r) /\ UNCHANGED <<session, link, mail>>
  BY DEF CommitRegister
<1>2. /\ u \in Users /\ account[u] = None /\ q.email \in Emails /\ q.password \in Passwords
      /\ t \in Tokens /\ token[t] = None
  BY <1>1 DEF IInv, InFlight, Sound, Issuing
<1>3. a \in Account /\ row \in Token
  BY <1>2 DEF Account, Token, Issued
<1>4. a # None /\ row # None
  BY <1>3, IdentityAssumption
<1>5. account'[u] = a /\ \A v \in Users \ {u} : account'[v] = account[v]
  BY <1>1, <1>2 DEF IInv, TypeOK
<1>6. token'[t] = row /\ \A v \in Tokens \ {t} : token'[v] = token[v]
  BY <1>1, <1>2 DEF IInv, TypeOK
<1>7. /\ a.email = q.email /\ a.active = FALSE
      /\ row.kind = "verify" /\ row.user = u /\ row.email = q.email /\ row.state = "open"
  BY DEF Issued
<1> HIDE DEF a, row
<1>8. TypeOK'
  BY <1>1, <1>3 DEF IInv, TypeOK, Ends, Idle, Request
<1>9. Evolves({r})
  BY <1>1, <1>2, <1>5, <1>6, <1>7 DEF Evolves, Inserting, Issuing
<1>10. InFlight' /\ Apart'
  BY <1>1, <1>8, <1>9, Commits
<1>11. LinkOwners'
  BY <1>2, <1>4, <1>5, <1>6, <1>7, RowType DEF IInv, LinkOwners
<1>12. GoogleOwners' /\ SessionOwners'
  BY <1>1, <1>2, <1>5, RowType DEF IInv, GoogleOwners, SessionOwners, Live
<1>13. Covered' /\ Keepers'
  BY <1>1 DEF IInv, Covered, CoveredBy, Keepers, Keeper, Ends, Idle, Ending, Live, TypeOK
<1>14. SessionsVouched'
  BY <1>1, <1>2, <1>5, RowType DEF IInv, SessionsVouched, SessionOwners, Live
<1>15. AddressesProven'
  BY <1>1, <1>2, <1>5, <1>6, <1>7 DEF IInv, AddressesProven, Registered
<1>16. PendingHasLink'
  BY <1>1, <1>2, <1>4, <1>5, <1>6, <1>7 DEF IInv, PendingHasLink, Registered, TypeOK
<1> QED
  BY <1>8, <1>10, <1>11, <1>12, <1>13, <1>14, <1>15, <1>16 DEF IInv

(* The token row after a link was spent.                                     *)
LEMMA Consumed ==
  ASSUME TypeOK, NEW t \in Tokens, token[t] # None, Consume(t)
  PROVE  /\ token' \in [Tokens -> Token \union {None}]
         /\ token'[t] # None /\ token'[t].kind = token[t].kind /\ token'[t].user = token[t].user
         /\ token'[t].email = token[t].email /\ token'[t].state = "used"
         /\ \A v \in Tokens \ {t} : token'[v] = token[v]
<1> DEFINE row == [kind |-> token[t].kind, user |-> token[t].user,
                   email |-> token[t].email, state |-> "used"]
<1>1. row \in Token
  BY RowType DEF Token
<1>2. row # None
  BY <1>1, IdentityAssumption
<1>3. token' = [token EXCEPT ![t] = row]
  BY DEF Consume
<1>4. token'[t] = row
  BY <1>3 DEF TypeOK
<1> QED
  BY <1>1, <1>2, <1>3, <1>4 DEF TypeOK

(* A row of users after its password, its address or its status was written.    *)
LEMMA Written ==
  ASSUME TypeOK, NEW u \in Users, NEW e \in Emails, NEW p \in Passwords \union {None},
         NEW b \in BOOLEAN,
         account' = [account EXCEPT ![u] = [email |-> e, password |-> p, active |-> b]]
  PROVE  /\ account' \in [Users -> Account \union {None}]
         /\ account'[u] # None /\ account'[u].email = e /\ account'[u].password = p
         /\ account'[u].active = b
         /\ \A v \in Users \ {u} : account'[v] = account[v]
<1> DEFINE row == [email |-> e, password |-> p, active |-> b]
<1>1. row \in Account
  BY DEF Account
<1>2. row # None
  BY <1>1, IdentityAssumption
<1>3. account'[u] = row
  BY DEF TypeOK
<1> QED
  BY <1>1, <1>2, <1>3 DEF TypeOK

LEMMA CommitActivateStep ==
  ASSUME IInv, NEW r \in Requests, CommitActivate(r)
  PROVE  IInv'
<1> DEFINE q == request[r]
           u == q.user
           t == q.token
<1>1. /\ q.op = "activate"
      /\ account' = [account EXCEPT ![u] = [email |-> account[u].email,
                       password |-> account[u].password, active |-> TRUE]]
      /\ Consume(t) /\ Ends(r) /\ UNCHANGED <<session, link, mail>>
  BY DEF CommitActivate
<1>2. /\ u \in Users /\ t \in Tokens /\ token[t] # None /\ token[t].user = u
      /\ token[t].kind = "verify"
  BY <1>1 DEF IInv, InFlight, Sound, Spending, Spends
<1>3. account[u] # None
  BY <1>2 DEF IInv, LinkOwners
<1>4. account[u].email \in Emails /\ account[u].password \in Passwords \union {None}
  BY <1>2, <1>3, RowType DEF IInv
<1>5. /\ account' \in [Users -> Account \union {None}]
      /\ account'[u] # None /\ account'[u].email = account[u].email
      /\ account'[u].password = account[u].password /\ account'[u].active = TRUE
      /\ \A v \in Users \ {u} : account'[v] = account[v]
  <2> DEFINE e == account[u].email
             p == account[u].password
  <2>1. account' = [account EXCEPT ![u] = [email |-> e, password |-> p, active |-> TRUE]]
    BY <1>1
  <2>2. e \in Emails /\ p \in Passwords \union {None}
    BY <1>4
  <2>3. u \in Users /\ TypeOK
    BY <1>2 DEF IInv
  <2> HIDE DEF e, p, u
  <2>4. /\ account' \in [Users -> Account \union {None}]
        /\ account'[u] # None /\ account'[u].email = e /\ account'[u].password = p
        /\ account'[u].active = TRUE
        /\ \A v \in Users \ {u} : account'[v] = account[v]
    BY <2>1, <2>2, <2>3, Written
  <2> QED BY <2>4 DEF e, p, u
<1>6. /\ token' \in [Tokens -> Token \union {None}]
      /\ token'[t] # None /\ token'[t].kind = token[t].kind /\ token'[t].user = token[t].user
      /\ token'[t].email = token[t].email /\ token'[t].state = "used"
      /\ \A v \in Tokens \ {t} : token'[v] = token[v]
  BY <1>1, <1>2, Consumed DEF IInv
<1>7. TypeOK'
  BY <1>1, <1>5, <1>6 DEF IInv, TypeOK, Ends, Idle, Request
<1>8. Evolves({r})
  <2>1. \A v \in Users : account[v] # None =>
          account'[v] # None /\ (account[v].active => account'[v].active)
    BY <1>3, <1>5
  <2>2. \A v \in Users : account[v] = None => account'[v] = None
    BY <1>3, <1>5
  <2>3. q.op \in Spending
    BY <1>1 DEF Spending
  <2>4. \A v \in Tokens : token[v] # None =>
          /\ token'[v] # None
          /\ token'[v].kind = token[v].kind
          /\ token'[v].user = token[v].user
          /\ token'[v].email = token[v].email
          /\ token'[v].state = "used" => token[v].state = "used" \/ v = t
    BY <1>2, <1>6
  <2>5. \A v \in Tokens : token[v] = None => token'[v] = None
    BY <1>2, <1>6
  <2> QED BY <2>1, <2>2, <2>3, <2>4, <2>5 DEF Evolves
<1>9. InFlight' /\ Apart'
  BY <1>1, <1>7, <1>8, Commits
<1>10. LinkOwners'
  BY SMTT(30), <1>2, <1>3, <1>5, <1>6, RowType DEF IInv, LinkOwners
<1>11. GoogleOwners' /\ SessionOwners'
  BY <1>1, <1>5, RowType DEF IInv, GoogleOwners, SessionOwners, Live
<1>12. Covered' /\ Keepers'
  BY SMTT(30), <1>1 DEF IInv, Covered, CoveredBy, Keepers, Keeper, Ends, Idle, Ending, Live, TypeOK
<1>13. SessionsVouched'
  BY <1>1, <1>5, RowType DEF IInv, SessionsVouched, SessionOwners, Live
<1>14. AddressesProven'
  <2> SUFFICES ASSUME NEW v \in Users, account'[v] # None, account'[v].active
               PROVE  \/ \E x \in Tokens :
                           /\ token'[x] # None /\ token'[x].user = v
                           /\ token'[x].kind # "reset" /\ token'[x].state = "used"
                           /\ token'[x].email = account'[v].email
                      \/ \E g \in Subjects :
                           link'[g] = [user |-> v, email |-> account'[v].email]
    BY DEF AddressesProven, Registered
  <2>1. CASE v = u /\ ~account[u].active
    BY SMTT(30), <2>1, <1>2, <1>3, <1>5, <1>6 DEF IInv, LinkOwners
  <2>2. CASE v # u \/ account[u].active
    BY <2>2, <1>1, <1>3, <1>5, <1>6 DEF IInv, AddressesProven, Registered
  <2> QED BY <2>1, <2>2
<1>15. PendingHasLink'
  BY <1>1, <1>2, <1>5, <1>6 DEF IInv, PendingHasLink, Registered, TypeOK
<1> QED
  BY <1>7, <1>9, <1>10, <1>11, <1>12, <1>13, <1>14, <1>15 DEF IInv


LEMMA CommitLinkStep ==
  ASSUME IInv, NEW r \in Requests, CommitLink(r)
  PROVE  IInv'
<1> DEFINE q == request[r]
           kind == IF q.op = "requestReset" THEN "reset" ELSE "change"
           t == q.token
           row == Issued(kind, q.user, q.email)
<1>1. /\ q.op \in {"requestReset", "requestChange"} /\ t \in mail
      /\ token' = [token EXCEPT ![t] = row]
      /\ Ends(r) /\ UNCHANGED <<account, session, link, mail>>
  BY DEF CommitLink
<1>2. /\ q.user \in Users /\ account[q.user] # None /\ account[q.user].active
      /\ q.op = "requestChange" => q.email \in Emails
      /\ q.email \in Emails \union {None}
      /\ t \in Tokens /\ token[t] = None
  BY <1>1 DEF IInv, InFlight, Sound, Issuing, Known, TypeOK, Request
<1>3. row \in Token
  BY <1>2 DEF Token, Issued
<1>4. row # None
  BY <1>3, IdentityAssumption
<1>5. token'[t] = row /\ \A v \in Tokens \ {t} : token'[v] = token[v]
  BY <1>1, <1>2 DEF IInv, TypeOK
<1>6. /\ row.kind # "verify" /\ row.user = q.user /\ row.state = "open"
      /\ row.kind # "reset" => row.email \in Emails
  BY <1>1, <1>2 DEF Issued
<1> HIDE DEF row
<1>7. TypeOK'
  BY <1>1, <1>3 DEF IInv, TypeOK, Ends, Idle, Request
<1>8. Evolves({r})
  BY <1>1, <1>2, <1>5, <1>6 DEF Evolves, Issuing
<1>9. InFlight' /\ Apart'
  BY <1>1, <1>7, <1>8, Commits
<1>10. LinkOwners'
  BY <1>1, <1>2, <1>4, <1>5, <1>6 DEF IInv, LinkOwners
<1>11. Keepers'
  BY <1>1 DEF IInv, Keepers, Keeper, Ends, Idle, Live, TypeOK
<1>12. GoogleOwners' /\ SessionOwners' /\ SessionsVouched'
  BY <1>1 DEF IInv, GoogleOwners, SessionOwners, SessionsVouched, Live
<1>13. Covered'
  BY <1>1 DEF IInv, Covered, CoveredBy, Ends, Idle, Ending, Live, TypeOK
<1>14. AddressesProven'
  BY <1>1, <1>2, <1>5 DEF IInv, AddressesProven, Registered
<1>15. PendingHasLink'
  BY <1>1, <1>2, <1>5 DEF IInv, PendingHasLink, Registered, TypeOK
<1> QED
  BY <1>7, <1>9, <1>10, <1>12, <1>13, <1>14, <1>15, <1>11 DEF IInv

LEMMA CommitResetStep ==
  ASSUME IInv, NEW r \in Requests, CommitReset(r)
  PROVE  IInv'
<1> DEFINE q == request[r]
           u == q.user
           t == q.token
<1>1. /\ q.op = "reset"
      /\ account' = [account EXCEPT ![u] = [email |-> account[u].email,
                       password |-> q.password, active |-> account[u].active]]
      /\ Ends(r) /\ UNCHANGED <<link, mail>>
  BY DEF CommitReset, WithPassword
<1>2. u \in Users /\ account[u] # None /\ account[u].active /\ Consume(t)
  BY <1>1 DEF CommitReset, IInv, InFlight, Sound, Known, Ending
<1>3. /\ t \in Tokens /\ token[t] # None /\ token[t].user = u
      /\ token[t].kind = "reset"
  BY <1>1 DEF IInv, InFlight, Sound, Spending, Spends
<1>4. account[u].email \in Emails /\ q.password \in Passwords \union {None}
      /\ account[u].active \in BOOLEAN
  BY <1>1, <1>2, RowType DEF IInv, InFlight, Sound, LinkOwners
<1>5. /\ account' \in [Users -> Account \union {None}]
      /\ account'[u] # None /\ account'[u].email = account[u].email
      /\ account'[u].password = q.password
      /\ account'[u].active = account[u].active
      /\ \A v \in Users \ {u} : account'[v] = account[v]
  <2> DEFINE e == account[u].email
             p == q.password
             b == account[u].active
  <2>1. account' = [account EXCEPT ![u] = [email |-> e, password |-> p, active |-> b]]
    BY <1>1
  <2>2. e \in Emails /\ p \in Passwords \union {None} /\ b \in BOOLEAN
    BY <1>4
  <2>3. u \in Users /\ TypeOK
    BY <1>2 DEF IInv
  <2> HIDE DEF e, p, b, u
  <2>4. /\ account' \in [Users -> Account \union {None}]
        /\ account'[u] # None /\ account'[u].email = e /\ account'[u].password = p
        /\ account'[u].active = b
        /\ \A v \in Users \ {u} : account'[v] = account[v]
    BY <2>1, <2>2, <2>3, Written
  <2> QED BY <2>4 DEF e, p, b, u
<1>6. /\ token' \in [Tokens -> Token \union {None}]
      /\ token'[t] # None /\ token'[t].kind = token[t].kind /\ token'[t].user = token[t].user
      /\ token'[t].email = token[t].email /\ token'[t].state = "used"
      /\ \A v \in Tokens \ {t} : token'[v] = token[v]
  BY <1>2, <1>3, Consumed DEF IInv
<1>7. session' = Without(q.doomed)
  BY DEF CommitReset
<1>8. session' \in [Sessions -> Session \union {None, Gone}]
  BY <1>7 DEF Without, IInv, TypeOK
<1>9. \A s \in Sessions : Live(s)' =>
        Live(s) /\ s \notin q.doomed /\ session'[s] = session[s]
  BY <1>7 DEF Without, Live, IInv, TypeOK
<1>10. \A s \in Sessions : Live(s)' =>
         Live(s) /\ session'[s].user = session[s].user /\ session'[s].raced = session[s].raced
  BY <1>9
<1>11. \A s \in Sessions : Live(s)' /\ session[s].user = u => session[s].raced
  BY <1>1, <1>9 DEF IInv, Covered, CoveredBy, Ending
<1>12. TypeOK'
  BY <1>1, <1>5, <1>6, <1>8 DEF IInv, TypeOK, Ends, Idle, Request
<1>13. Evolves({r})
  <2>1. \A v \in Users : account[v] # None =>
          account'[v] # None /\ (account[v].active => account'[v].active)
    BY <1>2, <1>5
  <2>2. \A v \in Users : account[v] = None => account'[v] = None
    BY <1>2, <1>5
  <2>3. q.op \in Spending
    BY <1>1 DEF Spending
  <2>4. \A v \in Tokens : token[v] # None =>
          /\ token'[v] # None
          /\ token'[v].kind = token[v].kind
          /\ token'[v].user = token[v].user
          /\ token'[v].email = token[v].email
          /\ token'[v].state = "used" => token[v].state = "used" \/ v = t
    BY <1>3, <1>6
  <2>5. \A v \in Tokens : token[v] = None => token'[v] = None
    BY <1>3, <1>6
  <2> QED BY <2>1, <2>2, <2>3, <2>4, <2>5 DEF Evolves
<1>14. InFlight' /\ Apart'
  BY SMTT(30), <1>1, <1>12, <1>13, Commits
<1>15. LinkOwners'
  BY <1>1, <1>2, <1>5, <1>3, <1>6, RowType DEF IInv, LinkOwners
<1>16. GoogleOwners' /\ SessionOwners'
  BY <1>1, <1>2, <1>5, <1>10, RowType DEF IInv, GoogleOwners, SessionOwners
<1>17. \A s \in Sessions : session[s] # None => session'[s] # None
  BY <1>7, IdentityAssumption DEF Without, IInv, TypeOK
<1>18. Keepers'
  BY <1>1, <1>10, <1>17 DEF IInv, Keepers, Keeper, Ends, Idle, TypeOK
<1>19. Covered'
  <2> SUFFICES ASSUME NEW r2 \in Requests, NEW s \in Sessions PROVE CoveredBy(r2, s)'
    BY DEF Covered
  <2>1. CASE r2 = r
    BY <1>1, <2>1 DEF CoveredBy, Ends, Idle, Ending, IInv, TypeOK
  <2>2. CASE r2 # r
    <3>1. request'[r2] = request[r2]
      BY <1>1, <2>2 DEF Ends, IInv, TypeOK
    <3>2. CoveredBy(r2, s)
      BY DEF IInv, Covered
    <3> QED BY <3>1, <3>2, <1>10 DEF CoveredBy
  <2> QED BY <2>1, <2>2
<1>20. SessionsVouched'
  <2> SUFFICES ASSUME NEW s \in Sessions, Live(s)'
               PROVE  LET a == account'[session'[s].user]
                      IN  /\ a # None
                          /\ a.active
                          /\ \/ session'[s].raced
                             \/ session'[s].password = a.password /\ session'[s].email = a.email
    BY DEF SessionsVouched
  <2>1. Live(s) /\ session'[s].user = session[s].user /\ session[s].user \in Users
    BY <1>10, RowType DEF IInv
  <2>2. CASE session[s].user = u
    BY <2>1, <2>2, <1>2, <1>5, <1>10, <1>11 DEF IInv, SessionsVouched
  <2>3. CASE session[s].user # u
    BY SMTT(30), <2>1, <2>3, <1>5, <1>9 DEF IInv, SessionsVouched
  <2> QED BY <2>2, <2>3
<1>21. AddressesProven'
  BY <1>1, <1>2, <1>5, <1>3, <1>6 DEF IInv, AddressesProven, Registered
<1>22. PendingHasLink'
  BY <1>1, <1>2, <1>5, <1>3, <1>6 DEF IInv, PendingHasLink, Registered, TypeOK
<1> QED
  BY <1>12, <1>14, <1>15, <1>16, <1>19, <1>20, <1>21, <1>22, <1>18 DEF IInv

LEMMA CommitConfirmEmailStep ==
  ASSUME IInv, NEW r \in Requests, CommitConfirmEmail(r)
  PROVE  IInv'
<1> DEFINE q == request[r]
           u == q.user
           t == q.token
<1>1. /\ q.op = "confirmEmail"
      /\ account' = [account EXCEPT ![u] = [email |-> q.email,
                       password |-> account[u].password, active |-> account[u].active]]
      /\ Ends(r) /\ UNCHANGED <<link, mail>>
  BY DEF CommitConfirmEmail
<1>2. u \in Users /\ account[u] # None /\ account[u].active /\ Consume(t)
  BY <1>1 DEF CommitConfirmEmail, IInv, InFlight, Sound, Known, Ending
<1>3. /\ t \in Tokens /\ token[t] # None /\ token[t].user = u
      /\ token[t].kind = "change" /\ q.email = token[t].email
  BY <1>1 DEF IInv, InFlight, Sound, Spending, Spends
<1>4. q.email \in Emails /\ account[u].password \in Passwords \union {None}
      /\ account[u].active \in BOOLEAN
  BY <1>1, <1>2, <1>3, RowType DEF IInv, InFlight, Sound, LinkOwners
<1>5. /\ account' \in [Users -> Account \union {None}]
      /\ account'[u] # None /\ account'[u].email = q.email
      /\ account'[u].password = account[u].password
      /\ account'[u].active = account[u].active
      /\ \A v \in Users \ {u} : account'[v] = account[v]
  <2> DEFINE e == q.email
             p == account[u].password
             b == account[u].active
  <2>1. account' = [account EXCEPT ![u] = [email |-> e, password |-> p, active |-> b]]
    BY <1>1
  <2>2. e \in Emails /\ p \in Passwords \union {None} /\ b \in BOOLEAN
    BY <1>4
  <2>3. u \in Users /\ TypeOK
    BY <1>2 DEF IInv
  <2> HIDE DEF e, p, b, u
  <2>4. /\ account' \in [Users -> Account \union {None}]
        /\ account'[u] # None /\ account'[u].email = e /\ account'[u].password = p
        /\ account'[u].active = b
        /\ \A v \in Users \ {u} : account'[v] = account[v]
    BY <2>1, <2>2, <2>3, Written
  <2> QED BY <2>4 DEF e, p, b, u
<1>6. /\ token' \in [Tokens -> Token \union {None}]
      /\ token'[t] # None /\ token'[t].kind = token[t].kind /\ token'[t].user = token[t].user
      /\ token'[t].email = token[t].email /\ token'[t].state = "used"
      /\ \A v \in Tokens \ {t} : token'[v] = token[v]
  BY <1>2, <1>3, Consumed DEF IInv
<1>7. session' = Without(q.doomed)
  BY DEF CommitConfirmEmail
<1>8. session' \in [Sessions -> Session \union {None, Gone}]
  BY <1>7 DEF Without, IInv, TypeOK
<1>9. \A s \in Sessions : Live(s)' =>
        Live(s) /\ s \notin q.doomed /\ session'[s] = session[s]
  BY <1>7 DEF Without, Live, IInv, TypeOK
<1>10. \A s \in Sessions : Live(s)' =>
         Live(s) /\ session'[s].user = session[s].user /\ session'[s].raced = session[s].raced
  BY <1>9
<1>11. \A s \in Sessions : Live(s)' /\ session[s].user = u => session[s].raced
  BY <1>1, <1>9 DEF IInv, Covered, CoveredBy, Ending
<1>12. TypeOK'
  BY <1>1, <1>5, <1>6, <1>8 DEF IInv, TypeOK, Ends, Idle, Request
<1>13. Evolves({r})
  <2>1. \A v \in Users : account[v] # None =>
          account'[v] # None /\ (account[v].active => account'[v].active)
    BY <1>2, <1>5
  <2>2. \A v \in Users : account[v] = None => account'[v] = None
    BY <1>2, <1>5
  <2>3. q.op \in Spending
    BY <1>1 DEF Spending
  <2>4. \A v \in Tokens : token[v] # None =>
          /\ token'[v] # None
          /\ token'[v].kind = token[v].kind
          /\ token'[v].user = token[v].user
          /\ token'[v].email = token[v].email
          /\ token'[v].state = "used" => token[v].state = "used" \/ v = t
    BY <1>3, <1>6
  <2>5. \A v \in Tokens : token[v] = None => token'[v] = None
    BY <1>3, <1>6
  <2> QED BY <2>1, <2>2, <2>3, <2>4, <2>5 DEF Evolves
<1>14. InFlight' /\ Apart'
  BY SMTT(30), <1>1, <1>12, <1>13, Commits
<1>15. LinkOwners'
  BY SMTT(30), <1>1, <1>2, <1>5, <1>3, <1>6, RowType DEF IInv, LinkOwners
<1>16. GoogleOwners' /\ SessionOwners'
  BY <1>1, <1>2, <1>5, <1>10, RowType DEF IInv, GoogleOwners, SessionOwners
<1>17. \A s \in Sessions : session[s] # None => session'[s] # None
  BY <1>7, IdentityAssumption DEF Without, IInv, TypeOK
<1>18. Keepers'
  BY <1>1, <1>10, <1>17 DEF IInv, Keepers, Keeper, Ends, Idle, TypeOK
<1>19. Covered'
  <2> SUFFICES ASSUME NEW r2 \in Requests, NEW s \in Sessions PROVE CoveredBy(r2, s)'
    BY DEF Covered
  <2>1. CASE r2 = r
    BY <1>1, <2>1 DEF CoveredBy, Ends, Idle, Ending, IInv, TypeOK
  <2>2. CASE r2 # r
    <3>1. request'[r2] = request[r2]
      BY <1>1, <2>2 DEF Ends, IInv, TypeOK
    <3>2. CoveredBy(r2, s)
      BY DEF IInv, Covered
    <3> QED BY <3>1, <3>2, <1>10 DEF CoveredBy
  <2> QED BY <2>1, <2>2
<1>20. SessionsVouched'
  <2> SUFFICES ASSUME NEW s \in Sessions, Live(s)'
               PROVE  LET a == account'[session'[s].user]
                      IN  /\ a # None
                          /\ a.active
                          /\ \/ session'[s].raced
                             \/ session'[s].password = a.password /\ session'[s].email = a.email
    BY DEF SessionsVouched
  <2>1. Live(s) /\ session'[s].user = session[s].user /\ session[s].user \in Users
    BY <1>10, RowType DEF IInv
  <2>2. CASE session[s].user = u
    BY <2>1, <2>2, <1>2, <1>5, <1>10, <1>11 DEF IInv, SessionsVouched
  <2>3. CASE session[s].user # u
    BY SMTT(30), <2>1, <2>3, <1>5, <1>9 DEF IInv, SessionsVouched
  <2> QED BY <2>2, <2>3
<1>21. AddressesProven'
  BY SMTT(30), <1>1, <1>2, <1>5, <1>3, <1>6 DEF IInv, AddressesProven, Registered
<1>22. PendingHasLink'
  BY <1>1, <1>2, <1>5, <1>3, <1>6 DEF IInv, PendingHasLink, Registered, TypeOK
<1> QED
  BY <1>12, <1>14, <1>15, <1>16, <1>19, <1>20, <1>21, <1>22, <1>18 DEF IInv


LEMMA CommitChangeStep ==
  ASSUME IInv, NEW r \in Requests, CommitChange(r)
  PROVE  IInv'
<1> DEFINE q == request[r]
           u == q.user
<1>1. /\ q.op = "change"
      /\ account' = [account EXCEPT ![u] = [email |-> account[u].email,
                       password |-> q.password, active |-> account[u].active]]
      /\ Ends(r) /\ UNCHANGED <<link, mail, token>>
  BY DEF CommitChange, WithPassword
<1>2. u \in Users /\ account[u] # None /\ account[u].active
  BY <1>1 DEF CommitChange, IInv, InFlight, Sound, Known, Ending
<1>4. account[u].email \in Emails /\ q.password \in Passwords \union {None}
      /\ account[u].active \in BOOLEAN
  BY <1>1, <1>2, RowType DEF IInv, InFlight, Sound, LinkOwners
<1>5. /\ account' \in [Users -> Account \union {None}]
      /\ account'[u] # None /\ account'[u].email = account[u].email
      /\ account'[u].password = q.password
      /\ account'[u].active = account[u].active
      /\ \A v \in Users \ {u} : account'[v] = account[v]
  <2> DEFINE e == account[u].email
             p == q.password
             b == account[u].active
  <2>1. account' = [account EXCEPT ![u] = [email |-> e, password |-> p, active |-> b]]
    BY <1>1
  <2>2. e \in Emails /\ p \in Passwords \union {None} /\ b \in BOOLEAN
    BY <1>4
  <2>3. u \in Users /\ TypeOK
    BY <1>2 DEF IInv
  <2> HIDE DEF e, p, b, u
  <2>4. /\ account' \in [Users -> Account \union {None}]
        /\ account'[u] # None /\ account'[u].email = e /\ account'[u].password = p
        /\ account'[u].active = b
        /\ \A v \in Users \ {u} : account'[v] = account[v]
    BY <2>1, <2>2, <2>3, Written
  <2> QED BY <2>4 DEF e, p, b, u
<1> DEFINE kept(s) == [user |-> session[s].user, password |-> q.password,
                   email |-> session[s].email, raced |-> session[s].raced]
<1>7. session' = [s \in Sessions |-> IF s \in q.doomed THEN Gone
                    ELSE IF s = q.keep /\ Live(s) THEN kept(s) ELSE session[s]]
  BY DEF CommitChange
<1>8. \A s \in Sessions : Live(s) => kept(s) \in Session
  BY <1>1, RowType DEF IInv, InFlight, Sound, Session
<1>9. session' \in [Sessions -> Session \union {None, Gone}]
  <2> HIDE DEF kept
  <2> QED BY <1>7, <1>8 DEF IInv, TypeOK
<1>10. \A s \in Sessions : Live(s)' =>
         /\ Live(s) /\ session'[s].user = session[s].user /\ session'[s].raced = session[s].raced
         /\ s \notin q.doomed
         /\ session'[s].email = session[s].email
         /\ s = q.keep => session'[s].password = q.password
         /\ s # q.keep => session'[s].password = session[s].password
  BY <1>7 DEF Live, IInv, TypeOK
<1>11. \A s \in Sessions : Live(s)' /\ session[s].user = u => session[s].raced \/ s = q.keep
  BY <1>1, <1>10 DEF IInv, Covered, CoveredBy, Ending
<1>12. TypeOK'
  BY <1>1, <1>5, <1>9 DEF IInv, TypeOK, Ends, Idle, Request
<1>13. Evolves({r})
  <2>1. \A v \in Users : account[v] # None =>
          account'[v] # None /\ (account[v].active => account'[v].active)
    BY <1>2, <1>5
  <2>2. \A v \in Users : account[v] = None => account'[v] = None
    BY <1>2, <1>5
  <2>3. token' = token
    BY <1>1
  <2> QED BY <2>1, <2>2, <2>3 DEF Evolves
<1>14. InFlight' /\ Apart'
  BY <1>1, <1>12, <1>13, Commits
<1>15. LinkOwners'
  BY SMTT(30), <1>1, <1>2, <1>5, RowType DEF IInv, LinkOwners
<1>16. GoogleOwners' /\ SessionOwners'
  BY <1>1, <1>2, <1>5, <1>10, RowType DEF IInv, GoogleOwners, SessionOwners
<1>17. \A s \in Sessions : session[s] # None => session'[s] # None
  BY <1>7, <1>8, IdentityAssumption DEF Live, IInv, TypeOK
<1>18. Keepers'
  BY <1>1, <1>10, <1>17 DEF IInv, Keepers, Keeper, Ends, Idle, TypeOK
<1>19. Covered'
  <2> SUFFICES ASSUME NEW r2 \in Requests, NEW s \in Sessions PROVE CoveredBy(r2, s)'
    BY DEF Covered
  <2>1. CASE r2 = r
    BY <1>1, <2>1 DEF CoveredBy, Ends, Idle, Ending, IInv, TypeOK
  <2>2. CASE r2 # r
    <3>1. request'[r2] = request[r2]
      BY <1>1, <2>2 DEF Ends, IInv, TypeOK
    <3>2. CoveredBy(r2, s)
      BY DEF IInv, Covered
    <3> QED BY <3>1, <3>2, <1>10 DEF CoveredBy
  <2> QED BY <2>1, <2>2
<1>20. SessionsVouched'
  <2> SUFFICES ASSUME NEW s \in Sessions, Live(s)'
               PROVE  LET a == account'[session'[s].user]
                      IN  /\ a # None
                          /\ a.active
                          /\ \/ session'[s].raced
                             \/ session'[s].password = a.password /\ session'[s].email = a.email
    BY DEF SessionsVouched
  <2>1. Live(s) /\ session'[s].user = session[s].user /\ session[s].user \in Users
    BY <1>10, RowType DEF IInv
  <2>2. CASE session[s].user = u
    BY SMTT(30), <2>1, <2>2, <1>2, <1>5, <1>10, <1>11 DEF IInv, SessionsVouched
  <2>3. CASE session[s].user # u
    BY <2>1, <2>3, <1>1, <1>5, <1>7, <1>10 DEF IInv, SessionsVouched, Keepers, Keeper
  <2> QED BY <2>2, <2>3
<1>21. AddressesProven'
  BY <1>1, <1>2, <1>5 DEF IInv, AddressesProven, Registered
<1>22. PendingHasLink'
  BY <1>1, <1>2, <1>5 DEF IInv, PendingHasLink, Registered, TypeOK
<1> QED
  BY <1>12, <1>14, <1>15, <1>16, <1>19, <1>20, <1>21, <1>22, <1>18 DEF IInv


LEMMA CommitGoogleStep ==
  ASSUME IInv, NEW r \in Requests, CommitGoogle(r)
  PROVE  IInv'
<1> DEFINE q == request[r]
           u == q.user
           g == q.subject
           row == [user |-> u, email |-> q.email]
           next == [op |-> "login", user |-> u, email |-> q.email, password |->
           q.password,
                    token |-> None, keep |-> None, doomed |-> {}, subject |-> None]
<1>1. /\ q.op = "google" /\ link[g] = None /\ link' = [link EXCEPT ![g] = row]
      /\ account[u] = None => account' = [account EXCEPT ![u] =
                                 [email |-> q.email, password |-> None, active |-> TRUE]]
      /\ account[u] # None => account' = account
      /\ request' = [request EXCEPT ![r] = next]
      /\ UNCHANGED <<token, session, mail>>
  BY DEF CommitGoogle
<1>2. /\ u \in Users /\ q.email \in Emails /\ g \in Subjects
      /\ account[u] # None => account[u].active
      /\ q.password \in Passwords \union {None}
  BY <1>1 DEF IInv, InFlight, Sound, TypeOK, Request
<1>3. row \in Link /\ row # None /\ next \in Request
  BY <1>2, IdentityAssumption DEF Link, Request
<1>4. /\ account' \in [Users -> Account \union {None}]
      /\ account'[u] # None /\ account'[u].active
      /\ account[u] = None => account'[u].email = q.email
      /\ account[u] # None => account'[u] = account[u]
      /\ \A v \in Users \ {u} : account'[v] = account[v]
  <2>1. CASE account[u] = None
    <3> DEFINE e == q.email
    <3>1. account' = [account EXCEPT ![u] = [email |-> e, password |-> None, active |->
    TRUE]]
      BY <1>1, <2>1
    <3>2. e \in Emails
      BY <1>2
    <3> HIDE DEF e, u
    <3>3. /\ account' \in [Users -> Account \union {None}]
          /\ account'[u] # None /\ account'[u].email = e /\ account'[u].active = TRUE
          /\ \A v \in Users \ {u} : account'[v] = account[v]
      BY <1>2, <3>1, <3>2, Written DEF IInv
    <3> QED BY <2>1, <3>3 DEF e
  <2>2. CASE account[u] # None
    BY <1>1, <1>2, <2>2 DEF IInv, TypeOK
  <2> QED BY <2>1, <2>2
<1>5. link'[g] = row /\ \A h \in Subjects \ {g} : link'[h] = link[h]
  BY <1>1, <1>2 DEF IInv, TypeOK
<1>6. TypeOK'
  BY <1>1, <1>2, <1>3, <1>4 DEF IInv, TypeOK
<1>7. Evolves({r})
  BY <1>1, <1>4 DEF Evolves, Inserting
<1>8. request'[r] = next /\ \A r2 \in Requests \ {r} : request'[r2] = request[r2]
  BY <1>1 DEF IInv, TypeOK
<1>9. Sound(r)' /\ Claims(r)
  BY <1>2, <1>4, <1>8 DEF Sound, Claims, Inserting, Issuing, Ending, Spending, Known
<1> HIDE DEF next
<1>10. InFlight' /\ Apart'
  BY <1>1, <1>7, <1>9, Moves
<1>11. LinkOwners'
  BY <1>1, <1>4, RowType DEF IInv, LinkOwners
<1>12. GoogleOwners' /\ SessionOwners'
  BY <1>1, <1>3, <1>4, <1>5, RowType DEF IInv, GoogleOwners, SessionOwners, Live
<1>13. Covered' /\ Keepers'
  BY <1>1, <1>8 DEF next, IInv, Covered, CoveredBy, Keepers, Keeper, Ending, Live
<1>14. SessionsVouched'
  BY <1>1, <1>4, RowType DEF IInv, SessionsVouched, SessionOwners, Live
<1>15. AddressesProven'
  <2> SUFFICES ASSUME NEW v \in Users, account'[v] # None, account'[v].active
               PROVE  \/ \E x \in Tokens :
                           /\ token'[x] # None /\ token'[x].user = v
                           /\ token'[x].kind # "reset" /\ token'[x].state = "used"
                           /\ token'[x].email = account'[v].email
                      \/ \E h \in Subjects :
                           link'[h] = [user |-> v, email |-> account'[v].email]
    BY DEF AddressesProven, Registered
  <2>1. CASE account[v] = None
    BY <2>1, <1>2, <1>4, <1>5
  <2>2. CASE account[v] # None
    <3>1. account'[v] = account[v]
      BY <2>2, <1>4
    <3>2. CASE \E h \in Subjects : link[h] = [user |-> v, email |-> account[v].email]
      <4>1. PICK h \in Subjects : link[h] = [user |-> v, email |-> account[v].email]
        BY <3>2
      <4>2. [user |-> v, email |-> account[v].email] \in Link
        BY <2>2, RowType DEF IInv, Link
      <4>3. h # g
        BY <4>1, <4>2, <1>1, IdentityAssumption
      <4>4. link'[h] = link[h]
        BY <4>3, <1>5
      <4>5. link'[h] = [user |-> v, email |-> account'[v].email]
        BY <4>1, <4>4, <3>1
      <4> QED BY <4>5
    <3> QED BY <2>2, <3>1, <3>2, <1>1 DEF IInv, AddressesProven, Registered
  <2> QED BY <2>1, <2>2
<1>16. PendingHasLink'
  BY <1>1, <1>4 DEF IInv, PendingHasLink, Registered
<1> QED
  BY <1>6, <1>10, <1>11, <1>12, <1>13, <1>14, <1>15, <1>16 DEF IInv

--------------------------------------------------------------------------------
(* The theorems. *)

LEMMA NextIInv == IInv /\ [Next]_vars => IInv'
<1> SUFFICES ASSUME IInv, [Next]_vars PROVE IInv'
  OBVIOUS
<1>1. CASE UNCHANGED vars
  BY <1>1 DEF vars, tables, IInv, TypeOK, InFlight, Sound, Apart, Inserting, LinkOwners,
              GoogleOwners, SessionOwners, Keepers, Keeper, Covered, CoveredBy,
              SessionsVouched, AddressesProven, PendingHasLink, Registered, Live
<1>2. CASE \E s \in Sessions : Logout(s)
  BY <1>2, LogoutStep
<1>3. CASE \E t \in Tokens : Expire(t)
  BY <1>3, ExpireStep
<1>4. ASSUME NEW r \in Requests, SignIn(r) PROVE IInv'
  BY <1>4, LoginStep, IssueSessionStep, GoogleKnownStep, GoogleCallbackStep,
     CommitGoogleStep DEF SignIn
<1>5. ASSUME NEW r \in Requests, Registration(r) PROVE IInv'
  BY <1>5, RegisterStep, MailStep, CommitRegisterStep, VerifyEmailStep,
     CommitActivateStep DEF Registration
<1>6. ASSUME NEW r \in Requests, AccountSettings(r) PROVE IInv'
  BY <1>6, CurrentIdentityStep, RevokeSessionStep, RevokeOtherSessionsStep,
     ChangePasswordStep, CommitChangeStep, ChangeEmailStep, ConfirmEmailChangeStep,
     CommitConfirmEmailStep DEF AccountSettings
<1>7. ASSUME NEW r \in Requests, PasswordReset(r) PROVE IInv'
  BY <1>7, ForgotPasswordStep, CommitLinkStep, ResetPasswordStep, CommitResetStep
     DEF PasswordReset
<1>8. ASSUME NEW r \in Requests, Abandon(r) PROVE IInv'
  BY <1>8, AbandonStep
<1> QED
  BY <1>1, <1>2, <1>3, <1>4, <1>5, <1>6, <1>7, <1>8 DEF Next

(* In every state the program can reach, whatever the requests do and in        *)
(* whatever order they commit.                                              *)
THEOREM Invariance == Spec => []IInv
BY InitIInv, NextIInv, PTL DEF Spec

(* Rows and requests keep their shape.                                       *)
THEOREM TypeCorrect == Spec => []TypeOK
<1>1. IInv => TypeOK
  BY DEF IInv
<1> QED BY <1>1, Invariance, PTL

(* reset_password, change_password and confirm_email_change end every session   *)
(* that was not being stored while they ran.                                *)
THEOREM SessionsAreVouched == Spec => []SessionsVouched
<1>1. IInv => SessionsVouched
  BY DEF IInv
<1> QED BY <1>1, Invariance, PTL

(* with_for_update and the check of consumed_at spend each link once.          *)
THEOREM LinksWorkOnce == Spec => []UsedOnce
<1>1. IInv => UsedOnce
  BY DEF IInv, InFlight, Sound, UsedOnce
<1> QED BY <1>1, Invariance, PTL

(* No way to an active account but through its mailbox or Google.              *)
THEOREM AddressesAreProven == Spec => []AddressesProven
<1>1. IInv => AddressesProven
  BY DEF IInv
<1> QED BY <1>1, Invariance, PTL

(* register delivers before it commits, and only activate uses the link.       *)
THEOREM PendingKeepLink == Spec => []PendingHasLink
<1>1. IInv => PendingHasLink
  BY DEF IInv
<1> QED BY <1>1, Invariance, PTL
================================================================================
