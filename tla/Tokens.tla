---------------------------------- MODULE Tokens ----------------------------------
(***************************************************************************)
(* Accounts and refresh tokens: registration, login, rotation of a refresh *)
(* token, and logout.                                                      *)
(*                                                                         *)
(* A request looks up the account or the token, decides, and commits what  *)
(* it writes; the lookup locks nothing.  Two registrations of one email    *)
(* are kept apart by its unique key.  Two uses of one refresh token are    *)
(* not kept apart: the UPDATE that revokes it has no condition on revoked. *)
(*                                                                         *)
(* Passwords are taken to be right: a login with a wrong one is answered   *)
(* 401 and changes nothing.  No code deactivates an account.               *)
(***************************************************************************)
EXTENDS Naturals

CONSTANTS
  Emails,
  AccountIds,   \* the uuids that can be drawn for users
  TokenIds,     \* the refresh tokens that can be generated
  Workers,      \* requests that can be in progress at once
  NoAccount,    \* no committed user has this id
  NoToken,      \* no committed refresh token has this hash; no token
  NoSession     \* a worker between two requests

Account == AccountIds \cup {NoAccount}

Token ==
  [user      : AccountIds,
   parent    : TokenIds \cup {NoToken},   \* history: the token it replaced
   since     : Nat,        \* history: when the request that issued it began
   revoked   : BOOLEAN,
   revokedAt : Nat,        \* history: when it was first revoked, or 0
   expired   : BOOLEAN]

Session ==
  [kind  : {"register", "login", "refresh", "logout"},
   email : Emails \cup {NoAccount},
   user  : Account,
   token : TokenIds \cup {NoToken},
   since : Nat]

ASSUME TokensAssumption ==
  /\ NoAccount \notin Emails \cup AccountIds
  /\ NoToken \notin TokenIds \cup Token
  /\ NoSession \notin Session

VARIABLES
  accounts,   \* accounts[u]: the email of user u
  tokens,     \* tokens[t]: the committed row of refresh token t
  pc,         \* pc[w]: the next await of request w, or its answer
  session,    \* session[w]: what request w is about to write
  clock       \* history: how many commits have revoked tokens, and one

vars == <<accounts, tokens, pc, session, clock>>

Answered == {"idle", "200", "201", "204", "401", "409", "500"}

Init ==
  /\ accounts = [u \in AccountIds |-> NoAccount]
  /\ tokens = [t \in TokenIds |-> NoToken]
  /\ pc = [w \in Workers |-> "idle"]
  /\ session = [w \in Workers |-> NoSession]
  /\ clock = 1

Answer(w, code) ==
  /\ pc' = [pc EXCEPT ![w] = code]
  /\ session' = [session EXCEPT ![w] = NoSession]

\* The lookup succeeded: w goes on with session s.
Proceed(w, point, s) ==
  /\ pc' = [pc EXCEPT ![w] = point]
  /\ session' = [session EXCEPT ![w] = s]

Used(e) == \E u \in AccountIds : accounts[u] = e
-----------------------------------------------------------------------------------
(* Accounts.                                                               *)

\* register looks for the email.
LookUpEmail(w, e) ==
  /\ pc[w] \in Answered
  /\ IF Used(e)
     THEN Answer(w, "409")
     ELSE Proceed(w, "insert", [kind |-> "register", email |-> e, user |-> NoAccount,
                                token |-> NoToken, since |-> clock])
  /\ UNCHANGED <<accounts, tokens, clock>>

\* Another transaction has inserted a user with this email and is not over.
Inserting(e) ==
  \E v \in Workers : pc[v] = "commit" /\ session[v].kind = "register" /\ session[v].email = e

MutantEmailTaken(e) == FALSE

\* A committed user has this email.
EmailTaken(e) == Used(e)

\* The flush inserts the user, or fails on the unique email.
InsertAccount(w, u) ==
  LET s == session[w] IN
  /\ pc[w] = "insert"
  /\ accounts[u] = NoAccount
  /\ \A v \in Workers : session[v] # NoSession => session[v].user # u
  /\ ~Inserting(s.email)
  /\ IF EmailTaken(s.email)
     THEN Answer(w, "500")
     ELSE Proceed(w, "commit", [s EXCEPT !.user = u])
  /\ UNCHANGED <<accounts, tokens, clock>>

CommitAccount(w) ==
  /\ pc[w] = "commit" /\ session[w].kind = "register"
  /\ accounts' = [accounts EXCEPT ![session[w].user] = session[w].email]
  /\ Answer(w, "201")
  /\ UNCHANGED <<tokens, clock>>
-----------------------------------------------------------------------------------
(* Tokens.                                                                 *)

\* login finds the account, or answers 401.
LookUpAccount(w, e) ==
  /\ pc[w] \in Answered
  /\ \/ ~Used(e) /\ Answer(w, "401")
     \/ \E u \in AccountIds :
          /\ accounts[u] = e
          /\ Proceed(w, "commit", [kind |-> "login", email |-> e, user |-> u,
                                   token |-> NoToken, since |-> clock])
  /\ UNCHANGED <<accounts, tokens, clock>>

MutantUsable(t) == tokens[t] # NoToken /\ ~tokens[t].expired

\* What refresh asks of the token it is shown.
Usable(t) == tokens[t] # NoToken /\ ~tokens[t].revoked /\ ~tokens[t].expired

\* refresh looks up the token, marks it in the session, and loads its user.
LookUpToken(w, t) ==
  /\ pc[w] \in Answered
  /\ \/ ~Usable(t) /\ Answer(w, "401")
     \/ /\ Usable(t)
        /\ Proceed(w, "commit", [kind |-> "refresh", email |-> NoAccount,
                                 user |-> tokens[t].user, token |-> t, since |-> clock])
  /\ UNCHANGED <<accounts, tokens, clock>>

\* Row t once the commit of s is through: revoked if s was shown it, whatever it
\* has become in the meantime.
AfterCommit(s, t) ==
  IF t # s.token THEN tokens[t]
  ELSE [tokens[t] EXCEPT !.revoked = TRUE,
                         !.revokedAt = IF @ = 0 THEN clock + 1 ELSE @]

\* _issue_token_pair and the commit: a new token, and for a refresh the revocation
\* of the one it replaces.
CommitPair(w, new) ==
  LET s == session[w] IN
  /\ pc[w] = "commit" /\ s.kind \in {"login", "refresh"}
  /\ tokens[new] = NoToken
  /\ tokens' = [t \in TokenIds |->
       IF t = new
       THEN [user |-> s.user, parent |-> s.token, since |-> s.since,
             revoked |-> FALSE, revokedAt |-> 0, expired |-> FALSE]
       ELSE AfterCommit(s, t)]
  /\ clock' = IF s.kind = "refresh" THEN clock + 1 ELSE clock
  /\ Answer(w, "200")
  /\ UNCHANGED accounts

\* logout looks up the token; there is nothing to write if it is unknown or was
\* revoked before.
LookUpLogout(w, t) ==
  /\ pc[w] \in Answered
  /\ IF tokens[t] = NoToken \/ tokens[t].revoked
     THEN Answer(w, "204")
     ELSE Proceed(w, "commit", [kind |-> "logout", email |-> NoAccount,
                                user |-> tokens[t].user, token |-> t, since |-> clock])
  /\ UNCHANGED <<accounts, tokens, clock>>

CommitLogout(w) ==
  /\ pc[w] = "commit" /\ session[w].kind = "logout"
  /\ tokens' = [t \in TokenIds |-> AfterCommit(session[w], t)]
  /\ clock' = clock + 1
  /\ Answer(w, "204")
  /\ UNCHANGED accounts

\* expires_at passes.
Expire(t) ==
  /\ tokens[t] # NoToken
  /\ ~tokens[t].expired
  /\ tokens' = [tokens EXCEPT ![t].expired = TRUE]
  /\ UNCHANGED <<accounts, pc, session, clock>>

MutantAbort(w) ==
  /\ pc[w] \notin Answered
  /\ pc' = [pc EXCEPT ![w] = "500"]
  /\ UNCHANGED <<accounts, tokens, session, clock>>

\* Postgres or the process fails: nothing of the transaction remains.
Abort(w) ==
  /\ pc[w] \notin Answered
  /\ Answer(w, "500")
  /\ UNCHANGED <<accounts, tokens, clock>>
-----------------------------------------------------------------------------------
Next ==
  \/ \E w \in Workers :
       \/ \E e \in Emails : LookUpEmail(w, e) \/ LookUpAccount(w, e)
       \/ \E u \in AccountIds : InsertAccount(w, u)
       \/ \E t \in TokenIds : LookUpToken(w, t) \/ LookUpLogout(w, t) \/ CommitPair(w, t)
       \/ CommitAccount(w) \/ CommitLogout(w) \/ Abort(w)
  \/ \E t \in TokenIds : Expire(t)

Spec == Init /\ [][Next]_vars
-----------------------------------------------------------------------------------
\* Rows and sessions have the types of their columns and fields, and a request in
\* progress has a session.
TypeOK ==
  /\ accounts \in [AccountIds -> Emails \cup {NoAccount}]
  /\ tokens \in [TokenIds -> Token \cup {NoToken}]
  /\ pc \in [Workers -> Answered \cup {"insert", "commit"}]
  /\ session \in [Workers -> Session \cup {NoSession}]
  /\ clock \in Nat
  /\ \A w \in Workers : (session[w] = NoSession) = (pc[w] \in Answered)

\* However registrations overlap, an email belongs to one account.
AccountsAreUnique ==
  \A u, v \in AccountIds : accounts[u] # NoAccount /\ accounts[u] = accounts[v] => u = v

\* "reuse of a rotated token is rejected": a token was replaced only by requests
\* that began before it was revoked, by its first rotation or by a logout, and it
\* is revoked from the moment it has been replaced.
ReplacedBeforeRevoked ==
  \A t \in TokenIds : tokens[t] # NoToken /\ tokens[t].parent # NoToken =>
    LET old == tokens[tokens[t].parent] IN
    /\ old # NoToken
    /\ old.revoked
    /\ tokens[t].since < old.revokedAt
    /\ tokens[t].user = old.user
===================================================================================
