--------------------------------- MODULE Identity ---------------------------------
(***************************************************************************)
(* Accounts, their one-time links and their sessions: RegistrationService,  *)
(* AuthenticationService, PasswordResetService, AccountService and          *)
(* GoogleAuthenticationService behind the handlers of routes/auth.py and    *)
(* routes/google_oauth.py.                                                  *)
(*                                                                         *)
(* A handler begins by reading rows and goes on to commit; other requests    *)
(* run in between.  READ COMMITTED locks no row that is only read; the       *)
(* exceptions are the three look-ups of a one-time token, which are          *)
(* SELECT ... FOR UPDATE, and the e-mail address of an inserted user, which   *)
(* the unique index holds until its transaction ends.  The row locks two     *)
(* overlapping DELETEs of sessions take only order their commits, and are     *)
(* left out.                                                                *)
(*                                                                         *)
(* A request that signs somebody in takes two transactions: one that reads   *)
(* the account and checks the credentials, one that stores the session.  So  *)
(* does a request of a signed-in user: one resolves the session cookie, one   *)
(* does the work.                                                           *)
(***************************************************************************)
CONSTANTS
  Users,      \* bound: ids of the accounts that can be created
  Emails,     \* valid addresses, normalized
  Passwords,  \* valid passwords
  Sessions,   \* bound: the sessions that can be stored
  Tokens,     \* bound: the one-time links that can be issued
  Requests,   \* slots for API requests being served
  Subjects,   \* Google accounts
  None,       \* no row, no value
  Gone        \* a session whose row was deleted, or that has expired

VARIABLES
  account,  \* the users table
  token,    \* the three tables of one-time tokens
  session,  \* authenticated_sessions
  link,     \* google_identities, by subject
  mail,     \* tokens whose link was delivered
  request   \* what each request has read and goes on to do

tables == <<account, token, session, link>>
vars == <<tables, mail, request>>

(* Google creates accounts without a password.                              *)
Account == [email : Emails, password : Passwords \union {None}, active : BOOLEAN]

(* One row of the three token tables; "expired" once expires_at has passed.   *)
(* A reset link has no address of its own.                                  *)
Token == [kind : {"verify", "reset", "change"}, user : Users,
          email : Emails \union {None}, state : {"open", "expired", "used"}]

(* History of a session: the credentials of the account when its sign-in     *)
(* read them; raced: they were being replaced when the session was stored.   *)
Session == [user : Users, password : Passwords \union {None}, email : Emails,
            raced : BOOLEAN]

Link == [user : Users, email : Emails]

(* The handlers that deliver a link.                                        *)
Issuing == {"register", "requestReset", "requestChange"}

ASSUME IdentityAssumption ==
  /\ None \notin Passwords \union Emails
  /\ None \notin Account \union Token \union Session \union Link
  /\ Gone # None /\ Gone \notin Session

(* The handlers that end sessions, and those that spend a link.              *)
Ending == {"reset", "change", "confirmEmail"}

Spending == {"reset", "confirmEmail", "activate"}

(* doomed: the sessions its DELETE found.                                   *)
Request == [op : {"idle", "signed", "login", "google"} \union Issuing \union Ending \union Spending,
            user : Users \union {None}, email : Emails \union {None},
            password : Passwords \union {None}, token : Tokens \union {None},
            keep : Sessions \union {None}, doomed : SUBSET Sessions,
            subject : Subjects \union {None}]

Idle == [op |-> "idle", user |-> None, email |-> None, password |-> None,
         token |-> None, keep |-> None, doomed |-> {}, subject |-> None]

Init ==
  /\ account = [u \in Users |-> None]
  /\ token = [t \in Tokens |-> None]
  /\ session = [s \in Sessions |-> None]
  /\ link = [g \in Subjects |-> None]
  /\ mail = {}
  /\ request = [r \in Requests |-> Idle]

--------------------------------------------------------------------------------
(* What the repository reads, and what its locks and unique indexes admit.   *)

Registered == {u \in Users : account[u] # None}

(* get_user_by_email *)
OwnersOf(e) == {u \in Registered : account[u].email = e}

(* An INSERT INTO users that was flushed and not committed: another one of   *)
(* the same address waits for it.                                           *)
Inserting(r) ==
  \/ request[r].op = "register"
  \/ request[r].op = "google" /\ account[request[r].user] = None

Reserved(e) == \E r \in Requests : Inserting(r) /\ request[r].email = e

(* A token look-up waits while another request holds the row FOR UPDATE.      *)
Locked(t) == \E r \in Requests : request[r].op \in Spending /\ request[r].token = t

FreshUsers ==
  (Users \ Registered) \ {request[r].user : r \in Requests}

(* A link that was mailed before its transaction was rolled back has no row, *)
(* and its token never comes again.                                         *)
FreshTokens ==
  {t \in Tokens : token[t] = None} \ (mail \union {request[r].token : r \in Requests})

Live(s) == session[s] \notin {None, Gone}

(* delete_sessions_for_user, and with keep delete_other_sessions_for_user: a   *)
(* Core DELETE, executed at once, before the UPDATE of the users row that the  *)
(* commit flushes.                                                          *)
SessionsOf(u) == {s \in Sessions : Live(s) /\ session[s].user = u}

(* The rows a DELETE found are gone when it commits.                        *)
Without(S) == [s \in Sessions |-> IF s \in S THEN Gone ELSE session[s]]

Ends(r) == request' = [request EXCEPT ![r] = Idle]

--------------------------------------------------------------------------------
(* Registration and activation. *)

(* register: no user has the address, and the INSERT is flushed.             *)
MayRegister(e) == OwnersOf(e) = {} /\ ~Reserved(e)

Register(r, u, e, p, t) ==
  /\ request[r] = Idle
  /\ u \in FreshUsers
  /\ t \in FreshTokens
  /\ MayRegister(e)
  /\ request' = [request EXCEPT ![r] =
       [op |-> "register", user |-> u, email |-> e, password |-> p, token |-> t,
        keep |-> None, doomed |-> {}, subject |-> None]]
  /\ UNCHANGED <<tables, mail>>

(* The three services that issue a link deliver it before they commit; when   *)
(* the delivery fails the handler is abandoned.                             *)
Mail(r) ==
  /\ request[r].op \in Issuing
  /\ mail' = mail \union {request[r].token}
  /\ UNCHANGED <<tables, request>>

(* The token of each kind, as its service builds it.                        *)
Issued(kind, u, e) == [kind |-> kind, user |-> u, email |-> e, state |-> "open"]

(* Mutant: the transaction commits before the delivery. *)
CommitRegisterFirst(r) ==
  LET q == request[r]
  IN  /\ q.op = "register"
      /\ account' = [account EXCEPT ![q.user] =
           [email |-> q.email, password |-> q.password, active |-> FALSE]]
      /\ token' = [token EXCEPT ![q.token] = Issued("verify", q.user, q.email)]
      /\ Ends(r)
      /\ UNCHANGED <<session, link, mail>>

CommitRegister(r) ==
  LET q == request[r]
  IN  /\ q.op = "register"
      /\ q.token \in mail
      /\ account' = [account EXCEPT ![q.user] =
           [email |-> q.email, password |-> q.password, active |-> FALSE]]
      /\ token' = [token EXCEPT ![q.token] = Issued("verify", q.user, q.email)]
      /\ Ends(r)
      /\ UNCHANGED <<session, link, mail>>

(* Mutant: a look-up without FOR UPDATE. *)
UsableUnlocked(t, kind) ==
  /\ t \in mail
  /\ token[t] # None
  /\ token[t].kind = kind
  /\ token[t].state = "open"

(* What each of the three look-ups of a token requires: a row, not used, not  *)
(* expired.                                                                 *)
Usable(t, kind) ==
  /\ t \in mail
  /\ token[t] # None
  /\ token[t].kind = kind
  /\ token[t].state = "open"
  /\ ~Locked(t)

(* User.activate refuses an account that is not pending.                    *)
MayActivate(t) == Usable(t, "verify") /\ ~account[token[t].user].active

VerifyEmail(r, t) ==
  /\ request[r] = Idle
  /\ MayActivate(t)
  /\ request' = [request EXCEPT ![r] =
       [op |-> "activate", user |-> token[t].user, email |-> None, password |-> None,
        token |-> t, keep |-> None, doomed |-> {}, subject |-> None]]
  /\ UNCHANGED <<tables, mail>>

(* consume, of the three kinds of token                                     *)
Consume(t) ==
  token' = [token EXCEPT ![t] =
    [kind |-> token[t].kind, user |-> token[t].user, email |-> token[t].email,
     state |-> "used"]]

CommitActivate(r) ==
  LET q == request[r]
  IN  /\ q.op = "activate"
      /\ account' = [account EXCEPT ![q.user] =
           [email |-> account[q.user].email, password |-> account[q.user].password,
            active |-> TRUE]]
      /\ Consume(q.token)
      /\ Ends(r)
      /\ UNCHANGED <<session, link, mail>>

--------------------------------------------------------------------------------
(* Signing in and out. *)

(* The account the credentials belong to, and whether it may sign in.  An     *)
(* account without a password verifies against nothing.                     *)
MaySignIn(u) ==
  /\ account[u] # None
  /\ account[u].password # None
  /\ account[u].active

(* What a sign-in has read of the account when it goes on to store a session.  *)
SigningIn(u) ==
  [op |-> "login", user |-> u, email |-> account[u].email,
   password |-> account[u].password, token |-> None, keep |-> None, doomed |-> {},
   subject |-> None]

Login(r, u) ==
  /\ request[r] = Idle
  /\ MaySignIn(u)
  /\ request' = [request EXCEPT ![r] = SigningIn(u)]
  /\ UNCHANGED <<tables, mail>>

(* The credentials read are not the account's any more, or a request that     *)
(* replaces them has deleted the sessions and not committed yet.             *)
Overtaken(q) ==
  \/ q.password # account[q.user].password
  \/ q.email # account[q.user].email
  \/ \E r \in Requests : request[r].op \in Ending /\ request[r].user = q.user

IssueSession(r, s) ==
  LET q == request[r]
  IN  /\ q.op = "login"
      /\ session[s] = None
      /\ session' = [session EXCEPT ![s] =
           [user |-> q.user, password |-> q.password, email |-> q.email,
            raced |-> Overtaken(q)]]
      /\ Ends(r)
      /\ UNCHANGED <<account, token, link, mail>>

Authenticates(s) == Live(s) /\ account[session[s].user].active

CurrentIdentity(r, s) ==
  /\ request[r] = Idle
  /\ Authenticates(s)
  /\ request' = [request EXCEPT ![r] =
       [op |-> "signed", user |-> session[s].user, email |-> None, password |-> None,
        token |-> None, keep |-> s, doomed |-> {}, subject |-> None]]
  /\ UNCHANGED <<tables, mail>>

(* The cookie's session, whoever shows it; also the session that expires.    *)
Logout(s) ==
  /\ Live(s)
  /\ session' = Without({s})
  /\ UNCHANGED <<account, token, link, mail, request>>

(* One of the caller's own sessions, its own included.                      *)
RevokeSession(r, s) ==
  /\ request[r].op = "signed"
  /\ s \in SessionsOf(request[r].user)
  /\ session' = Without({s})
  /\ Ends(r)
  /\ UNCHANGED <<account, token, link, mail>>

RevokeOtherSessions(r) ==
  /\ request[r].op = "signed"
  /\ session' = Without(SessionsOf(request[r].user) \ {request[r].keep})
  /\ Ends(r)
  /\ UNCHANGED <<account, token, link, mail>>

--------------------------------------------------------------------------------
(* Signing in with Google. *)

(* complete_login, when the subject is linked: its account must be active.    *)
GoogleKnown(r, g) ==
  /\ request[r] = Idle
  /\ link[g] # None
  /\ account[link[g].user].active
  /\ request' = [request EXCEPT ![r] = SigningIn(link[g].user)]
  /\ UNCHANGED <<tables, mail>>

(* When it is not: the account with that address, which must be active, or    *)
(* else a new one, inserted and flushed without a password.                 *)
GoogleOwner(u, e) ==
  \/ u \in OwnersOf(e) /\ account[u].active
  \/ u \in FreshUsers /\ MayRegister(e)

GoogleCallback(r, g, u, e) ==
  /\ request[r] = Idle
  /\ link[g] = None
  /\ GoogleOwner(u, e)
  /\ request' = [request EXCEPT ![r] =
       [op |-> "google", user |-> u, email |-> e,
        password |-> IF account[u] = None THEN None ELSE account[u].password,
        token |-> None, keep |-> None, doomed |-> {}, subject |-> g]]
  /\ UNCHANGED <<tables, mail>>

(* The subject is unique: the second of two callbacks is refused.            *)
CommitGoogle(r) ==
  LET q == request[r]
  IN  /\ q.op = "google"
      /\ link[q.subject] = None
      /\ link' = [link EXCEPT ![q.subject] = [user |-> q.user, email |-> q.email]]
      /\ account' = IF account[q.user] = None
                    THEN [account EXCEPT ![q.user] =
                           [email |-> q.email, password |-> None, active |-> TRUE]]
                    ELSE account
      /\ request' = [request EXCEPT ![r] =
           [op |-> "login", user |-> q.user, email |-> q.email, password |-> q.password,
            token |-> None, keep |-> None, doomed |-> {}, subject |-> None]]
      /\ UNCHANGED <<token, session, mail>>

--------------------------------------------------------------------------------
(* Forgotten passwords, and the signed-in user's password and address. *)

(* A link is sent only to an active account; otherwise nothing happens.      *)
MayRequestReset(u) == account[u] # None /\ account[u].active

ForgotPassword(r, u, t) ==
  /\ request[r] = Idle
  /\ MayRequestReset(u)
  /\ t \in FreshTokens
  /\ request' = [request EXCEPT ![r] =
       [op |-> "requestReset", user |-> u, email |-> None, password |-> None,
        token |-> t, keep |-> None, doomed |-> {}, subject |-> None]]
  /\ UNCHANGED <<tables, mail>>

(* request_email_change: the current password is checked, the new address is  *)
(* nobody's.                                                                *)
MayRequestChange(u, e) == account[u].password # None /\ OwnersOf(e) = {}

(* Mutant: the new address is the account's before its owner confirmed it. *)
ChangeEmailAtOnce(r, e, t) ==
  LET u == request[r].user
  IN  /\ request[r].op = "signed"
      /\ MayRequestChange(u, e)
      /\ t \in FreshTokens
      /\ account' = [account EXCEPT ![u].email = e]
      /\ session' = Without(SessionsOf(u))
      /\ Ends(r)
      /\ UNCHANGED <<token, link, mail>>

ChangeEmail(r, e, t) ==
  LET u == request[r].user
  IN  /\ request[r].op = "signed"
      /\ MayRequestChange(u, e)
      /\ t \in FreshTokens
      /\ request' = [request EXCEPT ![r] =
           [op |-> "requestChange", user |-> u, email |-> e, password |-> None,
            token |-> t, keep |-> None, doomed |-> {}, subject |-> None]]
      /\ UNCHANGED <<tables, mail>>

CommitLink(r) ==
  LET q == request[r]
      kind == IF q.op = "requestReset" THEN "reset" ELSE "change"
  IN  /\ q.op \in {"requestReset", "requestChange"}
      /\ q.token \in mail
      /\ token' = [token EXCEPT ![q.token] = Issued(kind, q.user, q.email)]
      /\ Ends(r)
      /\ UNCHANGED <<account, session, link, mail>>

ResetPassword(r, t, p) ==
  /\ request[r] = Idle
  /\ Usable(t, "reset")
  /\ request' = [request EXCEPT ![r] =
       [op |-> "reset", user |-> token[t].user, email |-> None, password |-> p,
        token |-> t, keep |-> None, doomed |-> SessionsOf(token[t].user),
        subject |-> None]]
  /\ UNCHANGED <<tables, mail>>

WithPassword(u, p) ==
  [account EXCEPT ![u] =
    [email |-> account[u].email, password |-> p, active |-> account[u].active]]

CommitReset(r) ==
  LET q == request[r]
  IN  /\ q.op = "reset"
      /\ account' = WithPassword(q.user, q.password)
      /\ Consume(q.token)
      /\ session' = Without(q.doomed)
      /\ Ends(r)
      /\ UNCHANGED <<link, mail>>

ChangePassword(r, p) ==
  LET u == request[r].user
  IN  /\ request[r].op = "signed"
      /\ account[u].password # None
      /\ request' = [request EXCEPT ![r] =
           [op |-> "change", user |-> u, email |-> None, password |-> p, token |-> None,
            keep |-> request[r].keep, doomed |-> SessionsOf(u) \ {request[r].keep},
            subject |-> None]]
      /\ UNCHANGED <<tables, mail>>

(* The session that stays is the one that gave the old password and set the   *)
(* new one: from now on the new one is its.                                 *)
CommitChange(r) ==
  LET q == request[r]
  IN  /\ q.op = "change"
      /\ account' = WithPassword(q.user, q.password)
      /\ session' = [s \in Sessions |->
           IF s \in q.doomed THEN Gone
           ELSE IF s = q.keep /\ Live(s)
           THEN [user |-> session[s].user, password |-> q.password,
                 email |-> session[s].email, raced |-> session[s].raced]
           ELSE session[s]]
      /\ Ends(r)
      /\ UNCHANGED <<token, link, mail>>

(* confirm_email_change, whose look-up finds nobody else at the address.      *)
MayConfirm(t) == Usable(t, "change") /\ OwnersOf(token[t].email) \subseteq {token[t].user}

(* Mutant: the sessions signed in at the old address stay. *)
ConfirmEmailChangeOnly(r, t) ==
  /\ request[r] = Idle
  /\ MayConfirm(t)
  /\ request' = [request EXCEPT ![r] =
       [op |-> "confirmEmail", user |-> token[t].user, email |-> token[t].email,
        password |-> None, token |-> t, keep |-> None, doomed |-> {},
        subject |-> None]]
  /\ UNCHANGED <<tables, mail>>

ConfirmEmailChange(r, t) ==
  /\ request[r] = Idle
  /\ MayConfirm(t)
  /\ request' = [request EXCEPT ![r] =
       [op |-> "confirmEmail", user |-> token[t].user, email |-> token[t].email,
        password |-> None, token |-> t, keep |-> None,
        doomed |-> SessionsOf(token[t].user), subject |-> None]]
  /\ UNCHANGED <<tables, mail>>

(* The unique index once more, at the UPDATE: a flushed INSERT of the address  *)
(* makes it wait, a committed one makes it fail.                            *)
CommitConfirmEmail(r) ==
  LET q == request[r]
  IN  /\ q.op = "confirmEmail"
      /\ OwnersOf(q.email) \subseteq {q.user}
      /\ ~Reserved(q.email)
      /\ account' = [account EXCEPT ![q.user] =
           [email |-> q.email, password |-> account[q.user].password,
            active |-> account[q.user].active]]
      /\ Consume(q.token)
      /\ session' = Without(q.doomed)
      /\ Ends(r)
      /\ UNCHANGED <<link, mail>>

--------------------------------------------------------------------------------
(* Time passes; requests die. *)

Expire(t) ==
  /\ token[t] # None
  /\ token[t].state = "open"
  /\ token' = [token EXCEPT ![t] =
       [kind |-> token[t].kind, user |-> token[t].user, email |-> token[t].email,
        state |-> "expired"]]
  /\ UNCHANGED <<account, session, link, mail, request>>

(* An exception, a refused write or the end of the process: the open           *)
(* transaction is rolled back, a delivered link stays delivered.             *)
Abandon(r) ==
  /\ request[r] # Idle
  /\ Ends(r)
  /\ UNCHANGED <<tables, mail>>

SignIn(r) ==
  \/ \E u \in Users : Login(r, u)
  \/ \E s \in Sessions : IssueSession(r, s)
  \/ \E g \in Subjects : GoogleKnown(r, g)
  \/ \E g \in Subjects, u \in Users, e \in Emails : GoogleCallback(r, g, u, e)
  \/ CommitGoogle(r)

Registration(r) ==
  \/ \E u \in Users, e \in Emails, p \in Passwords, t \in Tokens : Register(r, u, e, p, t)
  \/ Mail(r)
  \/ CommitRegister(r)
  \/ \E t \in Tokens : VerifyEmail(r, t)
  \/ CommitActivate(r)

AccountSettings(r) ==
  \/ \E s \in Sessions : CurrentIdentity(r, s)
  \/ \E s \in Sessions : RevokeSession(r, s)
  \/ RevokeOtherSessions(r)
  \/ \E p \in Passwords : ChangePassword(r, p)
  \/ CommitChange(r)
  \/ \E e \in Emails, t \in Tokens : ChangeEmail(r, e, t)
  \/ \E t \in Tokens : ConfirmEmailChange(r, t)
  \/ CommitConfirmEmail(r)

PasswordReset(r) ==
  \/ \E u \in Users, t \in Tokens : ForgotPassword(r, u, t)
  \/ CommitLink(r)
  \/ \E t \in Tokens, p \in Passwords : ResetPassword(r, t, p)
  \/ CommitReset(r)

Next ==
  \/ \E r \in Requests :
       SignIn(r) \/ Registration(r) \/ AccountSettings(r) \/ PasswordReset(r) \/ Abandon(r)
  \/ \E s \in Sessions : Logout(s)
  \/ \E t \in Tokens : Expire(t)

Spec == Init /\ [][Next]_vars

--------------------------------------------------------------------------------
(* Properties. *)

(* Every row and every request has its shape; requests name what they hold.   *)
TypeOK ==
  /\ account \in [Users -> Account \union {None}]
  /\ token \in [Tokens -> Token \union {None}]
  /\ session \in [Sessions -> Session \union {None, Gone}]
  /\ link \in [Subjects -> Link \union {None}]
  /\ mail \subseteq Tokens
  /\ request \in [Requests -> Request]

(* A reset, a change of the password or of the address ends the sessions of   *)
(* the account: every live session was signed in with the credentials the      *)
(* account has now, unless it was being stored while they were replaced, and   *)
(* its account is active.                                                   *)
SessionsVouched ==
  \A s \in Sessions : Live(s) =>
    LET a == account[session[s].user]
    IN  /\ a # None
        /\ a.active
        /\ session[s].raced \/ (session[s].password = a.password /\ session[s].email = a.email)

(* A one-time link works once: while a request that checked a link has not     *)
(* committed, nobody else has used it.  Two clicks on one link, on two workers, *)
(* both pass the check unless the look-up locks the row.                     *)
UsedOnce ==
  \A r \in Requests : request[r].op \in Spending => token[request[r].token].state # "used"

(* The owner of an active account has shown that its address is theirs: by a   *)
(* used activation or change link sent to that address, or by Google.        *)
AddressesProven ==
  \A u \in Registered : account[u].active =>
    \/ \E t \in Tokens :
         /\ token[t] # None
         /\ token[t].user = u
         /\ token[t].kind # "reset"
         /\ token[t].state = "used"
         /\ token[t].email = account[u].email
    \/ \E g \in Subjects : link[g] = [user |-> u, email |-> account[u].email]

(* There is no other way to activate an account than the link register sends, *)
(* and none to send it again: a pending account always has one, delivered and   *)
(* not used.  (It may have expired: then the address cannot be used any more.) *)
PendingHasLink ==
  \A u \in Registered : ~account[u].active =>
    \E t \in mail :
      /\ token[t] # None
      /\ token[t].kind = "verify"
      /\ token[t].user = u
      /\ token[t].state # "used"
================================================================================
