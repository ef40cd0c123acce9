------------------------------- MODULE TokensProofs -------------------------------
(***************************************************************************)
(* Proofs about Tokens, for any number of requests, emails, accounts and   *)
(* refresh tokens: an email belongs to one account, and a token that was   *)
(* revoked is not replaced by a request that began afterwards.             *)
(***************************************************************************)
EXTENDS Tokens, TLAPS

-----------------------------------------------------------------------------------
(* The inductive invariant.                                                *)

\* Requests on their way to the commit of a new account.
Registering(w) == pc[w] = "commit" /\ session[w].kind = "register"

\* A user that is about to be committed is new, and so is its email.
NewAccounts ==
  \A w \in Workers : Registering(w) =>
    /\ session[w].email \in Emails
    /\ session[w].user \in AccountIds
    /\ accounts[session[w].user] = NoAccount
    /\ ~Used(session[w].email)

\* Uncommitted users differ in their ids, and the unique key keeps their emails apart.
RegisteringAlone ==
  \A v, w \in Workers : Registering(v) /\ Registering(w) /\ v # w =>
    /\ session[v].user # session[w].user
    /\ session[v].email # session[w].email

\* What a request is about to insert is a user.
InsertsAccounts ==
  \A w \in Workers : pc[w] = "insert" =>
    session[w].kind = "register" /\ session[w].email \in Emails

\* A token is revoked from the moment in its row, which is not in the future.
RevokedInTime ==
  \A t \in TokenIds : tokens[t] # NoToken =>
    /\ tokens[t].revoked <=> tokens[t].revokedAt # 0
    /\ tokens[t].revokedAt <= clock

\* A refresh or a logout shows a token that exists, and began before it was revoked.
\* A login shows none.
ShowsToken ==
  \A w \in Workers : pc[w] = "commit" =>
    LET s == session[w] IN
    /\ s.kind = "login" => s.token = NoToken /\ s.user \in AccountIds
    /\ s.kind \in {"refresh", "logout"} =>
         /\ s.token \in TokenIds
         /\ tokens[s.token] # NoToken
         /\ s.user = tokens[s.token].user
         /\ s.since <= clock
         /\ tokens[s.token].revoked => s.since < tokens[s.token].revokedAt

TokensInv ==
  /\ TypeOK
  /\ AccountsAreUnique
  /\ NewAccounts
  /\ RegisteringAlone
  /\ InsertsAccounts
  /\ RevokedInTime
  /\ ShowsToken
  /\ ReplacedBeforeRevoked
-----------------------------------------------------------------------------------
\* A step of request w, or of none, leaves the other requests alone.
Others(w) ==
  \A v \in Workers \ {w} : pc'[v] = pc[v] /\ session'[v] = session[v]

\* The point at which request w is after it answered.
Idle(w) == pc'[w] \in Answered /\ session'[w] = NoSession

LEMMA AnswerIdles ==
  ASSUME TypeOK, NEW w \in Workers, NEW code \in Answered, Answer(w, code)
  PROVE  /\ Idle(w) /\ Others(w)
         /\ pc' \in [Workers -> Answered \cup {"insert", "commit"}]
         /\ session' \in [Workers -> Session \cup {NoSession}]
         /\ \A v \in Workers : (session'[v] = NoSession) = (pc'[v] \in Answered)
<1>1. Idle(w) /\ Others(w)
  BY DEF Answer, Idle, Others, TypeOK
<1>2. /\ pc' \in [Workers -> Answered \cup {"insert", "commit"}]
      /\ session' \in [Workers -> Session \cup {NoSession}]
  BY DEF Answer, TypeOK
<1> QED
  BY <1>1, <1>2 DEF Idle, Others, TypeOK

LEMMA ProceedMoves ==
  ASSUME TypeOK, NEW w \in Workers, NEW point \in {"insert", "commit"},
         NEW s \in Session, Proceed(w, point, s)
  PROVE  /\ pc'[w] = point /\ session'[w] = s /\ Others(w)
         /\ pc' \in [Workers -> Answered \cup {"insert", "commit"}]
         /\ session' \in [Workers -> Session \cup {NoSession}]
         /\ \A v \in Workers : (session'[v] = NoSession) = (pc'[v] \in Answered)
<1>1. pc'[w] = point /\ session'[w] = s /\ Others(w)
  BY DEF Proceed, Others, TypeOK
<1>2. /\ pc' \in [Workers -> Answered \cup {"insert", "commit"}]
      /\ session' \in [Workers -> Session \cup {NoSession}]
  BY DEF Proceed, TypeOK
<1>3. s # NoSession
  BY TokensAssumption
<1>4. point \notin Answered
  BY DEF Answered
<1> QED
  BY <1>1, <1>2, <1>3, <1>4 DEF Others, TypeOK

\* A request that is in progress has a session.
LEMMA InProgress ==
  ASSUME TypeOK, NEW w \in Workers, pc[w] \in {"insert", "commit"}
  PROVE  session[w] \in Session
BY DEF TypeOK, Answered
-----------------------------------------------------------------------------------
(* Steps that write no row.                                                *)

\* The rows are as they were, and request w, if its step was not the last, is at a
\* point that the invariant allows.
LEMMA ReadStep ==
  ASSUME TokensInv, TypeOK', NEW w \in Workers, Others(w),
         UNCHANGED <<accounts, tokens, clock>>,
         \/ Idle(w)
         \/ /\ pc'[w] = "insert"
            /\ session'[w].kind = "register" /\ session'[w].email \in Emails
         \/ /\ pc'[w] = "commit" /\ session'[w].kind = "login"
            /\ session'[w].token = NoToken /\ session'[w].user \in AccountIds
         \/ /\ pc'[w] = "commit" /\ session'[w].kind \in {"refresh", "logout"}
            /\ session'[w].token \in TokenIds /\ tokens[session'[w].token] # NoToken
            /\ session'[w].user = tokens[session'[w].token].user
            /\ session'[w].since = clock /\ ~tokens[session'[w].token].revoked
  PROVE  TokensInv'
<1>1. ~Registering(w)'
  BY DEF Idle, Answered, Registering
<1>2. \A v \in Workers \ {w} : Registering(v)' <=> Registering(v)
  BY DEF Others, Registering
<1>3. NewAccounts'
  BY <1>1, <1>2 DEF TokensInv, NewAccounts, Others, Used
<1>4. RegisteringAlone'
  BY <1>1, <1>2 DEF TokensInv, RegisteringAlone, Others
<1>5. InsertsAccounts'
  BY DEF TokensInv, InsertsAccounts, Others, Idle, Answered
<1>6. clock \in Nat
  BY DEF TokensInv, TypeOK
<1>7. ShowsToken'
  <2> SUFFICES ASSUME NEW v \in Workers, pc'[v] = "commit"
               PROVE  (/\ session[v].kind = "login" =>
                            session[v].token = NoToken /\ session[v].user \in AccountIds
                       /\ session[v].kind \in {"refresh", "logout"} =>
                            /\ session[v].token \in TokenIds
                            /\ tokens[session[v].token] # NoToken
                            /\ session[v].user = tokens[session[v].token].user
                            /\ session[v].since <= clock
                            /\ tokens[session[v].token].revoked =>
                                 session[v].since < tokens[session[v].token].revokedAt)'
    BY DEF ShowsToken
  <2>1. CASE v = w
    BY <1>6, <2>1 DEF Idle, Answered
  <2>2. CASE v # w
    BY <2>2 DEF TokensInv, ShowsToken, Others
  <2> QED
    BY <2>1, <2>2
<1>8. AccountsAreUnique' /\ RevokedInTime' /\ ReplacedBeforeRevoked'
  BY DEF TokensInv, AccountsAreUnique, RevokedInTime, ReplacedBeforeRevoked
<1> QED
  BY <1>3, <1>4, <1>5, <1>7, <1>8 DEF TokensInv

LEMMA InsertStep ==
  ASSUME TokensInv, NEW w \in Workers, NEW u \in AccountIds, InsertAccount(w, u)
  PROVE  TokensInv'
<1> DEFINE s == session[w]
<1>1. /\ TypeOK /\ s \in Session /\ s.kind = "register" /\ s.email \in Emails
  BY InProgress DEF TokensInv, InsertsAccounts, InsertAccount
<1>2. CASE EmailTaken(s.email)
  <2>1. Answer(w, "500") /\ UNCHANGED <<accounts, tokens, clock>>
    BY <1>2 DEF InsertAccount
  <2>2. Idle(w) /\ Others(w) /\ TypeOK'
    BY <1>1, <2>1, AnswerIdles DEF TypeOK, Answered
  <2> QED
    BY <2>1, <2>2, ReadStep
<1>3. CASE ~EmailTaken(s.email)
  <2> DEFINE n == [s EXCEPT !.user = u]
  <2>1. Proceed(w, "commit", n) /\ UNCHANGED <<accounts, tokens, clock>>
    BY <1>3 DEF InsertAccount
  <2>2. n \in Session /\ n.kind = "register" /\ n.email = s.email /\ n.user = u
    BY <1>1 DEF Session, Account
  <2> HIDE DEF n
  <2>3. pc'[w] = "commit" /\ session'[w] = n /\ Others(w)
    BY <1>1, <2>1, <2>2, ProceedMoves
  <2>4. TypeOK'
    <3>1. /\ pc' \in [Workers -> Answered \cup {"insert", "commit"}]
          /\ session' \in [Workers -> Session \cup {NoSession}]
          /\ \A v \in Workers : (session'[v] = NoSession) = (pc'[v] \in Answered)
      BY <1>1, <2>1, <2>2, ProceedMoves
    <3> QED
      BY <1>1, <2>1, <3>1 DEF TypeOK
  <2>5. \A v \in Workers \ {w} : Registering(v)' <=> Registering(v)
    BY <2>3 DEF Others, Registering
  <2>6. NewAccounts'
    <3>1. ~Used(s.email)
      BY <1>3 DEF EmailTaken
    <3>2. accounts[u] = NoAccount
      BY DEF InsertAccount
    <3> QED
      BY <1>1, <2>1, <2>2, <2>3, <2>5, <3>1, <3>2
      DEF TokensInv, NewAccounts, Others, Used
  <2>7. RegisteringAlone'
    <3>1. ASSUME NEW v \in Workers \ {w}, Registering(v)
          PROVE  session[v].user # u /\ session[v].email # s.email
      <4>1. session[v] # NoSession
        BY <1>1, <3>1 DEF Registering, TypeOK, Answered
      <4> QED
        BY <3>1, <4>1 DEF InsertAccount, Inserting, Registering
    <3> QED
      BY <2>2, <2>3, <2>5, <3>1 DEF TokensInv, RegisteringAlone, Others
  <2>8. InsertsAccounts'
    BY <2>3 DEF TokensInv, InsertsAccounts, Others
  <2>9. ShowsToken'
    <3>1. n.kind \notin {"login", "refresh", "logout"}
      BY <2>2
    <3> QED
      BY <2>1, <2>3, <3>1 DEF TokensInv, ShowsToken, Others
  <2>10. AccountsAreUnique' /\ RevokedInTime' /\ ReplacedBeforeRevoked'
    BY <2>1 DEF TokensInv, AccountsAreUnique, RevokedInTime, ReplacedBeforeRevoked
  <2> QED
    BY <2>4, <2>6, <2>7, <2>8, <2>9, <2>10 DEF TokensInv
<1> QED
  BY <1>2, <1>3
-----------------------------------------------------------------------------------
(* Steps that write rows.                                                  *)

\* A request that answers is not between the lookup and the commit.
LEMMA AnswerStep ==
  ASSUME TokensInv, NEW w \in Workers, Idle(w), Others(w)
  PROVE  /\ InsertsAccounts'
         /\ RegisteringAlone'
         /\ ~Registering(w)'
         /\ \A v \in Workers \ {w} : Registering(v)' <=> Registering(v)
<1>1. ~Registering(w)'
  BY DEF Idle, Answered, Registering
<1>2. \A v \in Workers \ {w} : Registering(v)' <=> Registering(v)
  BY DEF Others, Registering
<1>3. RegisteringAlone'
  BY <1>1, <1>2 DEF TokensInv, RegisteringAlone, Others
<1>4. InsertsAccounts'
  BY DEF TokensInv, InsertsAccounts, Others, Idle, Answered
<1> QED
  BY <1>1, <1>2, <1>3, <1>4

LEMMA CommitAccountStep ==
  ASSUME TokensInv, NEW w \in Workers, CommitAccount(w)
  PROVE  TokensInv'
<1> DEFINE u == session[w].user
           e == session[w].email
<1>1. /\ Registering(w) /\ Answer(w, "201") /\ UNCHANGED <<tokens, clock>>
      /\ accounts' = [accounts EXCEPT ![u] = e]
  BY DEF CommitAccount, Registering
<1>2. /\ e \in Emails /\ u \in AccountIds /\ accounts[u] = NoAccount /\ ~Used(e)
  BY <1>1 DEF TokensInv, NewAccounts
<1>3. /\ Idle(w) /\ Others(w)
      /\ pc' \in [Workers -> Answered \cup {"insert", "commit"}]
      /\ session' \in [Workers -> Session \cup {NoSession}]
      /\ \A v \in Workers : (session'[v] = NoSession) = (pc'[v] \in Answered)
  BY <1>1, AnswerIdles DEF TokensInv, Answered
<1>4. accounts \in [AccountIds -> Emails \cup {NoAccount}]
  BY DEF TokensInv, TypeOK
<1>5. accounts' \in [AccountIds -> Emails \cup {NoAccount}]
  BY <1>1, <1>2, <1>4
<1>6. accounts'[u] = e /\ \A v \in AccountIds \ {u} : accounts'[v] = accounts[v]
  BY <1>1, <1>2, <1>4
<1>7. TypeOK'
  BY <1>1, <1>3, <1>5 DEF TokensInv, TypeOK
<1>8. AccountsAreUnique'
  BY <1>2, <1>6 DEF TokensInv, AccountsAreUnique, Used
<1>9. NewAccounts'
  <2> SUFFICES ASSUME NEW v \in Workers, Registering(v)'
               PROVE  /\ session'[v].email \in Emails
                      /\ session'[v].user \in AccountIds
                      /\ accounts'[session'[v].user] = NoAccount
                      /\ ~Used(session[v].email)'
    BY DEF NewAccounts
  <2>1. v # w /\ Registering(v) /\ session'[v] = session[v]
    BY <1>3, AnswerStep DEF Others
  <2>2. session[v].user # u /\ session[v].email # e
    BY <1>1, <2>1 DEF TokensInv, RegisteringAlone
  <2>3. /\ session[v].email \in Emails /\ session[v].user \in AccountIds
        /\ accounts[session[v].user] = NoAccount /\ ~Used(session[v].email)
    BY <2>1 DEF TokensInv, NewAccounts
  <2> QED
    BY <1>6, <2>1, <2>2, <2>3 DEF Used
<1>10. RegisteringAlone' /\ InsertsAccounts'
  BY <1>3, AnswerStep
<1>11. ShowsToken'
  BY <1>1, <1>3 DEF TokensInv, ShowsToken, Others, Idle, Answered
<1>12. RevokedInTime' /\ ReplacedBeforeRevoked'
  BY <1>1 DEF TokensInv, RevokedInTime, ReplacedBeforeRevoked
<1> QED
  BY <1>7, <1>8, <1>9, <1>10, <1>11, <1>12 DEF TokensInv

\* Rows are kept, and a revocation is for good: its moment is the commit's.
RowsKept ==
  \A t \in TokenIds : tokens[t] # NoToken =>
    /\ tokens'[t] # NoToken
    /\ tokens'[t].user = tokens[t].user
    /\ tokens'[t].parent = tokens[t].parent
    /\ tokens'[t].since = tokens[t].since
    /\ \/ /\ tokens'[t].revoked = tokens[t].revoked
          /\ tokens'[t].revokedAt = tokens[t].revokedAt
       \/ /\ ~tokens[t].revoked /\ tokens'[t].revoked
          /\ tokens'[t].revokedAt = clock + 1 /\ clock' = clock + 1

\* A step of w that keeps the rows of tokens disturbs nothing but what is said of new
\* rows.
LEMMA KeptStep ==
  ASSUME TokensInv, TypeOK', RowsKept, NEW w, Others(w),
         Idle(w) \/ (pc' = pc /\ session' = session),
         UNCHANGED accounts, clock' \in {clock, clock + 1}
  PROVE  /\ AccountsAreUnique' /\ NewAccounts' /\ RegisteringAlone'
         /\ InsertsAccounts' /\ ShowsToken'
<1>1. AccountsAreUnique'
  BY DEF TokensInv, AccountsAreUnique
<1>2. \A v \in Workers : Registering(v)' =>
        Registering(v) /\ session'[v] = session[v]
  BY DEF Registering, Others, Idle, Answered
<1>3. NewAccounts'
  BY <1>2 DEF TokensInv, NewAccounts, Used
<1>4. RegisteringAlone'
  BY <1>2 DEF TokensInv, RegisteringAlone
<1>5. InsertsAccounts'
  BY DEF TokensInv, InsertsAccounts, Others, Idle, Answered
<1>6. ShowsToken'
  <2> SUFFICES ASSUME NEW v \in Workers, pc'[v] = "commit"
               PROVE  (/\ session[v].kind = "login" =>
                            session[v].token = NoToken /\ session[v].user \in AccountIds
                       /\ session[v].kind \in {"refresh", "logout"} =>
                            /\ session[v].token \in TokenIds
                            /\ tokens[session[v].token] # NoToken
                            /\ session[v].user = tokens[session[v].token].user
                            /\ session[v].since <= clock
                            /\ tokens[session[v].token].revoked =>
                                 session[v].since < tokens[session[v].token].revokedAt)'
    BY DEF ShowsToken
  <2>1. pc[v] = "commit" /\ session'[v] = session[v]
    BY DEF Others, Idle, Answered
  <2>2. session[v] \in Session /\ session[v].since \in Nat /\ clock \in Nat
    BY <2>1, InProgress DEF TokensInv, Session, TypeOK
  <2>3. session[v].kind = "login" =>
          session[v].token = NoToken /\ session[v].user \in AccountIds
    BY <2>1 DEF TokensInv, ShowsToken
  <2>4. ASSUME session[v].kind \in {"refresh", "logout"}
        PROVE  /\ session[v].token \in TokenIds
               /\ tokens'[session[v].token] # NoToken
               /\ session[v].user = tokens'[session[v].token].user
               /\ session[v].since <= clock'
               /\ tokens'[session[v].token].revoked =>
                    session[v].since < tokens'[session[v].token].revokedAt
    <3> DEFINE t == session[v].token
    <3>1. /\ t \in TokenIds /\ tokens[t] # NoToken /\ session[v].user = tokens[t].user
          /\ session[v].since <= clock
          /\ tokens[t].revoked => session[v].since < tokens[t].revokedAt
      BY <2>1, <2>4 DEF TokensInv, ShowsToken
    <3> QED
      BY <2>2, <3>1 DEF RowsKept
  <2> QED
    BY <2>1, <2>3, <2>4
<1> QED
  BY <1>1, <1>3, <1>4, <1>5, <1>6

\* What the commit of s makes of a row, for a token that s was shown or another.
LEMMA AfterCommitRow ==
  ASSUME TokensInv, NEW s \in Session, NEW t \in TokenIds, tokens[t] # NoToken
  PROVE  LET row == AfterCommit(s, t) IN
         /\ row \in Token /\ row # NoToken
         /\ row.user = tokens[t].user /\ row.parent = tokens[t].parent
         /\ row.since = tokens[t].since
         /\ t # s.token => row = tokens[t]
         /\ t = s.token =>
              /\ row.revoked
              /\ tokens[t].revoked => row.revokedAt = tokens[t].revokedAt
              /\ ~tokens[t].revoked => row.revokedAt = clock + 1
<1> DEFINE row == AfterCommit(s, t)
<1>1. /\ tokens[t] \in Token /\ clock \in Nat
      /\ tokens[t].revoked <=> tokens[t].revokedAt # 0
  BY DEF TokensInv, TypeOK, RevokedInTime
<1>2. CASE t # s.token
  BY <1>1, <1>2, TokensAssumption DEF AfterCommit
<1>3. CASE t = s.token
  <2>1. row = [tokens[t] EXCEPT !.revoked = TRUE,
                                !.revokedAt = IF @ = 0 THEN clock + 1 ELSE @]
    BY <1>3 DEF AfterCommit
  <2>2. /\ row \in Token
        /\ row.user = tokens[t].user /\ row.parent = tokens[t].parent
        /\ row.since = tokens[t].since /\ row.revoked
        /\ row.revokedAt = IF tokens[t].revokedAt = 0 THEN clock + 1
                           ELSE tokens[t].revokedAt
    <3> DEFINE old == tokens[t]
               at == IF old.revokedAt = 0 THEN clock + 1 ELSE old.revokedAt
    <3>1. old \in Token /\ at \in Nat
      BY <1>1 DEF Token
    <3>2. row = [old EXCEPT !.revoked = TRUE, !.revokedAt = at]
      BY <2>1, <3>1 DEF Token
    <3> HIDE DEF old, at
    <3>3. \A n \in Nat : LET x == [old EXCEPT !.revoked = TRUE, !.revokedAt = n] IN
            /\ x \in Token /\ x.user = old.user /\ x.parent = old.parent
            /\ x.since = old.since /\ x.revoked /\ x.revokedAt = n
      BY <3>1 DEF Token
    <3> HIDE DEF row
    <3>4. /\ row \in Token /\ row.user = old.user /\ row.parent = old.parent
          /\ row.since = old.since /\ row.revoked /\ row.revokedAt = at
      BY <3>1, <3>2, <3>3
    <3> QED
      BY <3>4 DEF old, at
  <2>3. /\ tokens[t].revoked => row.revokedAt = tokens[t].revokedAt
        /\ ~tokens[t].revoked => row.revokedAt = clock + 1
    BY <1>1, <2>2
  <2>4. row # NoToken
    BY <2>2, TokensAssumption
  <2> HIDE DEF row
  <2>5. /\ row \in Token /\ row # NoToken
        /\ row.user = tokens[t].user /\ row.parent = tokens[t].parent
        /\ row.since = tokens[t].since
        /\ t # s.token => row = tokens[t]
        /\ t = s.token =>
             /\ row.revoked
             /\ tokens[t].revoked => row.revokedAt = tokens[t].revokedAt
             /\ ~tokens[t].revoked => row.revokedAt = clock + 1
    BY <1>3, <2>2, <2>3, <2>4
  <2> QED
    BY <2>5 DEF row
<1> QED
  BY <1>2, <1>3

\* The moments of revocations stay true as rows are kept and nothing is new.
LEMMA KeptRows ==
  ASSUME TokensInv, TypeOK', RowsKept, NEW new \in TokenIds,
         \A t \in TokenIds \ {new} : tokens[t] = NoToken => tokens'[t] = NoToken,
         clock' \in {clock, clock + 1},
         NEW t \in TokenIds, t # new \/ tokens[t] # NoToken, tokens'[t] # NoToken
  PROVE  /\ tokens'[t].revoked <=> tokens'[t].revokedAt # 0
         /\ tokens'[t].revokedAt <= clock'
         /\ tokens'[t].parent # NoToken =>
              /\ tokens'[tokens'[t].parent] # NoToken
              /\ tokens'[tokens'[t].parent].revoked
              /\ tokens'[t].since < tokens'[tokens'[t].parent].revokedAt
              /\ tokens'[t].user = tokens'[tokens'[t].parent].user
<1>1. tokens[t] # NoToken
  OBVIOUS
<1>2. tokens[t] \in Token /\ clock \in Nat /\ tokens[t].revokedAt \in Nat
  BY <1>1 DEF TokensInv, TypeOK, Token
<1>3. /\ tokens[t].revoked <=> tokens[t].revokedAt # 0
      /\ tokens[t].revokedAt <= clock
  BY <1>1 DEF TokensInv, RevokedInTime
<1>4. /\ tokens'[t].revoked <=> tokens'[t].revokedAt # 0
      /\ tokens'[t].revokedAt <= clock'
  BY <1>1, <1>2, <1>3 DEF RowsKept
<1>5. ASSUME tokens'[t].parent # NoToken
      PROVE  /\ tokens'[tokens'[t].parent] # NoToken
             /\ tokens'[tokens'[t].parent].revoked
             /\ tokens'[t].since < tokens'[tokens'[t].parent].revokedAt
             /\ tokens'[t].user = tokens'[tokens'[t].parent].user
  <2> DEFINE p == tokens[t].parent
  <2>1. tokens'[t].parent = p /\ tokens'[t].since = tokens[t].since
        /\ tokens'[t].user = tokens[t].user
    BY <1>1 DEF RowsKept
  <2>2. p \in TokenIds
    BY <1>2, <1>5, <2>1 DEF Token
  <2>3. /\ tokens[p] # NoToken /\ tokens[p].revoked
        /\ tokens[t].since < tokens[p].revokedAt /\ tokens[t].user = tokens[p].user
    BY <1>1, <1>5, <2>1 DEF TokensInv, ReplacedBeforeRevoked
  <2>4. /\ tokens'[p] # NoToken /\ tokens'[p].user = tokens[p].user
        /\ tokens'[p].revoked /\ tokens'[p].revokedAt = tokens[p].revokedAt
    BY <2>2, <2>3 DEF RowsKept
  <2> QED
    BY <2>1, <2>3, <2>4
<1> QED
  BY <1>4, <1>5

\* The token that a login, a refresh or a logout shows is committed, if there is one.
LEMMA Shown ==
  ASSUME TokensInv, NEW w \in Workers, pc[w] = "commit",
         session[w].kind \in {"login", "refresh", "logout"},
         NEW t \in TokenIds, tokens[t] = NoToken
  PROVE  t # session[w].token /\ AfterCommit(session[w], t) = NoToken
<1>1. t # session[w].token
  BY TokensAssumption DEF TokensInv, ShowsToken
<1> QED
  BY <1>1 DEF AfterCommit

LEMMA CommitPairStep ==
  ASSUME TokensInv, NEW w \in Workers, NEW new \in TokenIds, CommitPair(w, new)
  PROVE  TokensInv'
<1> DEFINE s == session[w]
           row == [user |-> s.user, parent |-> s.token, since |-> s.since,
                   revoked |-> FALSE, revokedAt |-> 0, expired |-> FALSE]
<1>1. /\ pc[w] = "commit" /\ s.kind \in {"login", "refresh"} /\ tokens[new] = NoToken
      /\ Answer(w, "200") /\ UNCHANGED accounts
      /\ tokens' = [t \in TokenIds |-> IF t = new THEN row ELSE AfterCommit(s, t)]
      /\ clock' = IF s.kind = "refresh" THEN clock + 1 ELSE clock
  BY DEF CommitPair
<1>2. /\ TypeOK /\ s \in Session /\ clock \in Nat
  BY <1>1, InProgress DEF TokensInv, TypeOK
<1>3. /\ Idle(w) /\ Others(w)
      /\ pc' \in [Workers -> Answered \cup {"insert", "commit"}]
      /\ session' \in [Workers -> Session \cup {NoSession}]
      /\ \A v \in Workers : (session'[v] = NoSession) = (pc'[v] \in Answered)
  BY <1>1, <1>2, AnswerIdles DEF Answered
<1>4. /\ s.user \in AccountIds /\ s.token \in TokenIds \cup {NoToken} /\ s.since \in Nat
      /\ s.kind = "login" => s.token = NoToken
      /\ s.kind = "refresh" => s.token \in TokenIds
  <2>1. s.kind = "refresh" => tokens[s.token] \in Token /\ s.user = tokens[s.token].user
    BY <1>1, <1>2 DEF TokensInv, ShowsToken, TypeOK
  <2>2. s.kind = "refresh" => s.user \in AccountIds
    BY <2>1 DEF Token
  <2>3. s.token \in TokenIds \cup {NoToken} /\ s.since \in Nat
    BY <1>2 DEF Session
  <2> QED
    BY <1>1, <2>2, <2>3 DEF TokensInv, ShowsToken
<1>5. row \in Token
  BY <1>4 DEF Token
<1>6. row # NoToken
  BY <1>5, TokensAssumption
<1>7. \A t \in TokenIds \ {new} : tokens[t] = NoToken => tokens'[t] = NoToken
  BY <1>1, Shown
<1>8. ASSUME NEW t \in TokenIds, tokens[t] # NoToken
      PROVE  LET after == tokens'[t] IN
             /\ after \in Token /\ after # NoToken
             /\ after.user = tokens[t].user /\ after.parent = tokens[t].parent
             /\ after.since = tokens[t].since
             /\ t # s.token => after = tokens[t]
             /\ t = s.token =>
                  /\ after.revoked
                  /\ tokens[t].revoked => after.revokedAt = tokens[t].revokedAt
                  /\ ~tokens[t].revoked => after.revokedAt = clock + 1
  <2>1. tokens'[t] = AfterCommit(s, t)
    BY <1>1, <1>8
  <2> QED
    BY <1>2, <1>8, <2>1, AfterCommitRow
<1>9. RowsKept
  <2> SUFFICES ASSUME NEW t \in TokenIds, tokens[t] # NoToken
               PROVE  /\ tokens'[t] # NoToken
                      /\ tokens'[t].user = tokens[t].user
                      /\ tokens'[t].parent = tokens[t].parent
                      /\ tokens'[t].since = tokens[t].since
                      /\ \/ /\ tokens'[t].revoked = tokens[t].revoked
                            /\ tokens'[t].revokedAt = tokens[t].revokedAt
                         \/ /\ ~tokens[t].revoked /\ tokens'[t].revoked
                            /\ tokens'[t].revokedAt = clock + 1 /\ clock' = clock + 1
    BY DEF RowsKept
  <2>1. CASE t # s.token
    BY <1>8, <2>1
  <2>2. CASE t = s.token
    <3>1. clock' = clock + 1
      BY <1>1, <1>4, <2>2, TokensAssumption
    <3>2. tokens[t].revoked \in BOOLEAN
      BY <1>2 DEF TypeOK, Token
    <3> QED
      BY <1>8, <2>2, <3>1, <3>2
  <2> QED
    BY <2>1, <2>2
<1>10. tokens' \in [TokenIds -> Token \cup {NoToken}]
  <2>1. \A t \in TokenIds : tokens'[t] \in Token \cup {NoToken}
    BY <1>1, <1>5, <1>7, <1>8
  <2> QED
    BY <1>1, <2>1
<1>11. clock' \in {clock, clock + 1} /\ clock' \in Nat
  BY <1>1, <1>2
<1>12. TypeOK'
  BY <1>1, <1>2, <1>3, <1>10, <1>11 DEF TypeOK
<1>13. /\ AccountsAreUnique' /\ NewAccounts' /\ RegisteringAlone'
       /\ InsertsAccounts' /\ ShowsToken'
  BY <1>1, <1>3, <1>9, <1>11, <1>12, KeptStep
<1>14. tokens'[new] = row
  BY <1>1
<1>15. RevokedInTime'
  <2> SUFFICES ASSUME NEW t \in TokenIds, tokens'[t] # NoToken
               PROVE  /\ tokens'[t].revoked <=> tokens'[t].revokedAt # 0
                      /\ tokens'[t].revokedAt <= clock'
    BY DEF RevokedInTime
  <2>1. CASE t # new
    BY <1>7, <1>9, <1>11, <1>12, <2>1, KeptRows
  <2>2. CASE t = new
    BY <1>11, <1>14, <2>2
  <2> QED
    BY <2>1, <2>2
<1>16. ReplacedBeforeRevoked'
  <2> SUFFICES ASSUME NEW t \in TokenIds, tokens'[t] # NoToken,
                      tokens'[t].parent # NoToken
               PROVE  /\ tokens'[tokens'[t].parent] # NoToken
                      /\ tokens'[tokens'[t].parent].revoked
                      /\ tokens'[t].since < tokens'[tokens'[t].parent].revokedAt
                      /\ tokens'[t].user = tokens'[tokens'[t].parent].user
    BY DEF ReplacedBeforeRevoked
  <2>1. CASE t # new
    BY <1>7, <1>9, <1>11, <1>12, <2>1, KeptRows
  <2>2. CASE t = new
    <3> DEFINE p == s.token
    <3>1. /\ tokens'[t].parent = p /\ tokens'[t].since = s.since
          /\ tokens'[t].user = s.user
      BY <1>14, <2>2
    <3>2. s.kind = "refresh" /\ p \in TokenIds
      BY <1>1, <1>4, <3>1
    <3>3. /\ tokens[p] # NoToken /\ s.user = tokens[p].user /\ s.since <= clock
          /\ tokens[p].revoked => s.since < tokens[p].revokedAt
      BY <1>1, <3>2 DEF TokensInv, ShowsToken
    <3>4. /\ tokens'[p] # NoToken /\ tokens'[p].user = tokens[p].user /\ tokens'[p].revoked
          /\ tokens[p].revoked => tokens'[p].revokedAt = tokens[p].revokedAt
          /\ ~tokens[p].revoked => tokens'[p].revokedAt = clock + 1
      BY <1>8, <3>2, <3>3
    <3>5. s.since < tokens'[p].revokedAt
      BY <1>2, <1>4, <3>3, <3>4
    <3> QED
      BY <3>1, <3>3, <3>4, <3>5
  <2> QED
    BY <2>1, <2>2
<1> QED
  BY <1>12, <1>13, <1>15, <1>16 DEF TokensInv

\* Where no row is new, what is said of rows stays true.
LEMMA OldRows ==
  ASSUME TokensInv, TypeOK', RowsKept, clock' \in {clock, clock + 1},
         \A t \in TokenIds : tokens[t] = NoToken => tokens'[t] = NoToken
  PROVE  RevokedInTime' /\ ReplacedBeforeRevoked'
<1>1. \A t \in TokenIds : tokens'[t] # NoToken => tokens[t] # NoToken
  OBVIOUS
<1> QED
  BY <1>1, KeptRows DEF RevokedInTime, ReplacedBeforeRevoked

LEMMA CommitLogoutStep ==
  ASSUME TokensInv, NEW w \in Workers, CommitLogout(w)
  PROVE  TokensInv'
<1> DEFINE s == session[w]
<1>1. /\ pc[w] = "commit" /\ s.kind = "logout" /\ Answer(w, "204") /\ UNCHANGED accounts
      /\ tokens' = [t \in TokenIds |-> AfterCommit(s, t)] /\ clock' = clock + 1
  BY DEF CommitLogout
<1>2. TypeOK /\ s \in Session /\ clock \in Nat
  BY <1>1, InProgress DEF TokensInv, TypeOK
<1>3. /\ Idle(w) /\ Others(w)
      /\ pc' \in [Workers -> Answered \cup {"insert", "commit"}]
      /\ session' \in [Workers -> Session \cup {NoSession}]
      /\ \A v \in Workers : (session'[v] = NoSession) = (pc'[v] \in Answered)
  BY <1>1, <1>2, AnswerIdles DEF Answered
<1>4. \A t \in TokenIds : tokens[t] = NoToken => tokens'[t] = NoToken
  BY <1>1, Shown
<1>5. ASSUME NEW t \in TokenIds, tokens[t] # NoToken
      PROVE  LET after == tokens'[t] IN
             /\ after \in Token /\ after # NoToken
             /\ after.user = tokens[t].user /\ after.parent = tokens[t].parent
             /\ after.since = tokens[t].since
             /\ \/ after.revoked = tokens[t].revoked /\ after.revokedAt = tokens[t].revokedAt
                \/ ~tokens[t].revoked /\ after.revoked /\ after.revokedAt = clock + 1
  <2>1. tokens'[t] = AfterCommit(s, t)
    BY <1>1
  <2>2. tokens[t].revoked \in BOOLEAN
    BY <1>2, <1>5 DEF TypeOK, Token
  <2>3. LET row == tokens'[t] IN
        /\ row \in Token /\ row # NoToken
        /\ row.user = tokens[t].user /\ row.parent = tokens[t].parent
        /\ row.since = tokens[t].since
        /\ t # s.token => row = tokens[t]
        /\ t = s.token =>
             /\ row.revoked
             /\ tokens[t].revoked => row.revokedAt = tokens[t].revokedAt
             /\ ~tokens[t].revoked => row.revokedAt = clock + 1
    BY <1>2, <1>5, <2>1, AfterCommitRow
  <2>4. (tokens'[t]).revoked \in BOOLEAN
    BY <2>3 DEF Token
  <2> QED
    BY <2>2, <2>3, <2>4
<1>6. RowsKept
  BY <1>1, <1>5 DEF RowsKept
<1>7. TypeOK'
  <2>1. tokens' \in [TokenIds -> Token \cup {NoToken}]
    BY <1>1, <1>4, <1>5
  <2> QED
    BY <1>1, <1>2, <1>3, <2>1 DEF TypeOK
<1>8. /\ AccountsAreUnique' /\ NewAccounts' /\ RegisteringAlone'
      /\ InsertsAccounts' /\ ShowsToken'
  BY <1>1, <1>3, <1>6, <1>7, KeptStep
<1>9. RevokedInTime' /\ ReplacedBeforeRevoked'
  BY <1>1, <1>4, <1>6, <1>7, OldRows
<1> QED
  BY <1>7, <1>8, <1>9 DEF TokensInv

LEMMA ExpireStep ==
  ASSUME TokensInv, NEW t \in TokenIds, Expire(t)
  PROVE  TokensInv'
<1> DEFINE row == [tokens[t] EXCEPT !.expired = TRUE]
<1>1. /\ tokens[t] # NoToken /\ tokens' = [tokens EXCEPT ![t] = row]
      /\ UNCHANGED <<accounts, pc, session, clock>>
  BY DEF Expire
<1>2. TypeOK /\ tokens[t] \in Token
  BY <1>1 DEF TokensInv, TypeOK
<1>3. /\ row \in Token
      /\ row.user = tokens[t].user /\ row.parent = tokens[t].parent
      /\ row.since = tokens[t].since /\ row.revoked = tokens[t].revoked
      /\ row.revokedAt = tokens[t].revokedAt
  BY <1>2 DEF Token
<1>4. row # NoToken
  BY <1>3, TokensAssumption
<1> HIDE DEF row
<1>5. tokens'[t] = row /\ \A u \in TokenIds \ {t} : tokens'[u] = tokens[u]
  BY <1>1, <1>2 DEF TypeOK
<1>6. RowsKept
  BY <1>3, <1>4, <1>5 DEF RowsKept
<1>7. tokens' \in [TokenIds -> Token \cup {NoToken}]
  BY <1>1, <1>2, <1>3 DEF TypeOK
<1>8. TypeOK'
  BY <1>1, <1>2, <1>7 DEF TypeOK
<1>9. /\ AccountsAreUnique' /\ NewAccounts' /\ RegisteringAlone'
      /\ InsertsAccounts' /\ ShowsToken'
  <2>1. Others(t)
    BY <1>1 DEF Others
  <2> QED
    BY <1>1, <1>6, <1>8, <2>1, KeptStep
<1>10. RevokedInTime' /\ ReplacedBeforeRevoked'
  BY <1>1, <1>5, <1>6, <1>8, OldRows
<1> QED
  BY <1>8, <1>9, <1>10 DEF TokensInv
-----------------------------------------------------------------------------------
(* Lookups and failures.                                                   *)

\* An answer that comes with nothing written.
LEMMA AnswerOnly ==
  ASSUME TokensInv, NEW w \in Workers, NEW code \in Answered, Answer(w, code),
         UNCHANGED <<accounts, tokens, clock>>
  PROVE  TokensInv'
<1>1. TypeOK
  BY DEF TokensInv
<1>2. /\ Idle(w) /\ Others(w)
      /\ pc' \in [Workers -> Answered \cup {"insert", "commit"}]
      /\ session' \in [Workers -> Session \cup {NoSession}]
      /\ \A v \in Workers : (session'[v] = NoSession) = (pc'[v] \in Answered)
  BY <1>1, AnswerIdles
<1>3. TypeOK'
  BY <1>1, <1>2 DEF TypeOK
<1> QED
  BY <1>2, <1>3, ReadStep

\* A lookup after which there is something to write.
LEMMA ProceedOnly ==
  ASSUME TokensInv, NEW w \in Workers, NEW point \in {"insert", "commit"},
         NEW s \in Session, Proceed(w, point, s), UNCHANGED <<accounts, tokens, clock>>,
         \/ point = "insert" /\ s.kind = "register" /\ s.email \in Emails
         \/ /\ point = "commit" /\ s.kind = "login"
            /\ s.token = NoToken /\ s.user \in AccountIds
         \/ /\ point = "commit" /\ s.kind \in {"refresh", "logout"}
            /\ s.token \in TokenIds /\ tokens[s.token] # NoToken
            /\ s.user = tokens[s.token].user
            /\ s.since = clock /\ ~tokens[s.token].revoked
  PROVE  TokensInv'
<1>1. TypeOK
  BY DEF TokensInv
<1>2. /\ pc'[w] = point /\ session'[w] = s /\ Others(w)
      /\ pc' \in [Workers -> Answered \cup {"insert", "commit"}]
      /\ session' \in [Workers -> Session \cup {NoSession}]
      /\ \A v \in Workers : (session'[v] = NoSession) = (pc'[v] \in Answered)
  BY <1>1, ProceedMoves
<1>3. TypeOK'
  BY <1>1, <1>2 DEF TypeOK
<1> QED
  BY <1>2, <1>3, ReadStep

LEMMA LookUpStep ==
  ASSUME TokensInv, NEW w \in Workers,
         \/ \E e \in Emails : LookUpEmail(w, e) \/ LookUpAccount(w, e)
         \/ \E t \in TokenIds : LookUpToken(w, t) \/ LookUpLogout(w, t)
         \/ Abort(w)
  PROVE  TokensInv'
<1>1. clock \in Nat /\ \A t \in TokenIds : tokens[t] # NoToken => tokens[t] \in Token
  BY DEF TokensInv, TypeOK
<1>2. {"204", "401", "409", "500"} \subseteq Answered
  BY DEF Answered
<1>3. ASSUME NEW e \in Emails, LookUpEmail(w, e) PROVE TokensInv'
  <2> DEFINE s == [kind |-> "register", email |-> e, user |-> NoAccount,
                   token |-> NoToken, since |-> clock]
  <2>1. s \in Session /\ s.kind = "register" /\ s.email \in Emails
    BY <1>1 DEF Session, Account
  <2>2. /\ Answer(w, "409") \/ Proceed(w, "insert", s)
        /\ UNCHANGED <<accounts, tokens, clock>>
    BY <1>3 DEF LookUpEmail
  <2> HIDE DEF s
  <2> QED
    BY <1>2, <2>1, <2>2, AnswerOnly, ProceedOnly
<1>4. ASSUME NEW e \in Emails, LookUpAccount(w, e) PROVE TokensInv'
  <2>1. CASE Answer(w, "401") /\ UNCHANGED <<accounts, tokens, clock>>
    BY <1>2, <2>1, AnswerOnly
  <2>2. ASSUME NEW u \in AccountIds, UNCHANGED <<accounts, tokens, clock>>,
               Proceed(w, "commit", [kind |-> "login", email |-> e, user |-> u,
                                     token |-> NoToken, since |-> clock])
        PROVE  TokensInv'
    <3> DEFINE s == [kind |-> "login", email |-> e, user |-> u,
                     token |-> NoToken, since |-> clock]
    <3>1. s \in Session /\ s.kind = "login" /\ s.token = NoToken /\ s.user \in AccountIds
      BY <1>1 DEF Session, Account
    <3>2. Proceed(w, "commit", s)
      BY <2>2
    <3> HIDE DEF s
    <3> QED
      BY <2>2, <3>1, <3>2, ProceedOnly
  <2> QED
    BY <1>4, <2>1, <2>2 DEF LookUpAccount
<1>5. ASSUME NEW t \in TokenIds, NEW kind \in {"refresh", "logout"},
             tokens[t] # NoToken, ~tokens[t].revoked, UNCHANGED <<accounts, tokens, clock>>,
             Proceed(w, "commit", [kind |-> kind, email |-> NoAccount,
                                   user |-> tokens[t].user, token |-> t, since |-> clock])
      PROVE  TokensInv'
  <2> DEFINE s == [kind |-> kind, email |-> NoAccount,
                   user |-> tokens[t].user, token |-> t, since |-> clock]
  <2>1. tokens[t].user \in AccountIds
    BY <1>1, <1>5 DEF Token
  <2>2. /\ s \in Session /\ s.kind \in {"refresh", "logout"} /\ s.token = t
        /\ s.user = tokens[t].user /\ s.since = clock
    BY <1>1, <2>1 DEF Session, Account
  <2>3. Proceed(w, "commit", s)
    BY <1>5
  <2> HIDE DEF s
  <2> QED
    BY <1>5, <2>2, <2>3, ProceedOnly
<1>6. ASSUME NEW t \in TokenIds, LookUpToken(w, t) PROVE TokensInv'
  <2>1. CASE ~Usable(t)
    BY <1>2, <1>6, <2>1, AnswerOnly DEF LookUpToken
  <2>2. CASE Usable(t)
    BY <1>5, <1>6, <2>2 DEF LookUpToken, Usable
  <2> QED
    BY <2>1, <2>2
<1>7. ASSUME NEW t \in TokenIds, LookUpLogout(w, t) PROVE TokensInv'
  <2>1. CASE tokens[t] = NoToken \/ tokens[t].revoked
    BY <1>2, <1>7, <2>1, AnswerOnly DEF LookUpLogout
  <2>2. CASE ~(tokens[t] = NoToken \/ tokens[t].revoked)
    BY <1>5, <1>7, <2>2 DEF LookUpLogout
  <2> QED
    BY <2>1, <2>2
<1>8. ASSUME Abort(w) PROVE TokensInv'
  BY <1>2, <1>8, AnswerOnly DEF Abort
<1> QED
  BY <1>3, <1>4, <1>6, <1>7, <1>8
-----------------------------------------------------------------------------------
(* The theorems.                                                           *)

LEMMA TokensInvInit == Init => TokensInv
<1> SUFFICES ASSUME Init PROVE TokensInv
  OBVIOUS
<1>1. TypeOK
  BY DEF Init, TypeOK, Answered
<1>2. AccountsAreUnique
  BY DEF Init, AccountsAreUnique
<1>3. \A w \in Workers : pc[w] = "idle"
  BY DEF Init
<1>4. NewAccounts /\ RegisteringAlone /\ InsertsAccounts /\ ShowsToken
  BY <1>3 DEF NewAccounts, RegisteringAlone, InsertsAccounts, ShowsToken, Registering
<1>5. RevokedInTime /\ ReplacedBeforeRevoked
  BY DEF Init, RevokedInTime, ReplacedBeforeRevoked
<1> QED
  BY <1>1, <1>2, <1>4, <1>5 DEF TokensInv

\* Accounts, tokens and the requests in progress keep their inductive invariant.
THEOREM TokensInvariance == Spec => []TokensInv
<1>1. TokensInv /\ [Next]_vars => TokensInv'
  <2> SUFFICES ASSUME TokensInv, [Next]_vars PROVE TokensInv'
    OBVIOUS
  <2>1. CASE UNCHANGED vars
    BY <2>1 DEF vars, TokensInv, TypeOK, AccountsAreUnique, NewAccounts,
       RegisteringAlone, InsertsAccounts, RevokedInTime, ShowsToken,
       ReplacedBeforeRevoked, Registering, Used
  <2>2. CASE Next
    BY <2>2, LookUpStep, InsertStep, CommitAccountStep, CommitPairStep,
       CommitLogoutStep, ExpireStep DEF Next
  <2> QED
    BY <2>1, <2>2
<1> QED
  BY <1>1, TokensInvInit, PTL DEF Spec

\* Type correctness of accounts, tokens and requests.
THEOREM TokensTypes == Spec => []TypeOK
<1>1. TokensInv => TypeOK
  BY DEF TokensInv
<1> QED
  BY <1>1, TokensInvariance, PTL

\* However many registrations overlap, an email belongs to one account: the unlocked
\* lookup of register is backed by the unique key.
THEOREM OneAccount == Spec => []AccountsAreUnique
<1>1. TokensInv => AccountsAreUnique
  BY DEF TokensInv
<1> QED
  BY <1>1, TokensInvariance, PTL

\* A refresh token that was revoked, by its first rotation or by a logout, is not
\* replaced by a request that began afterwards, however many overlap with it.
THEOREM RotatedInTime == Spec => []ReplacedBeforeRevoked
<1>1. TokensInv => ReplacedBeforeRevoked
  BY DEF TokensInv
<1> QED
  BY <1>1, TokensInvariance, PTL
===================================================================================
