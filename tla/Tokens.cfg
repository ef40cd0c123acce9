CONSTANTS
  Emails = {e1, e2}
  AccountIds = {u1, u2}
  TokenIds = {t1, t2, t3}
  Workers = {w1, w2}
  NoAccount = NoAccount
  NoToken = NoToken
  NoSession = NoSession
SPECIFICATION Spec
SYMMETRY Symmetry
INVARIANTS TypeOK AccountsAreUnique ReplacedBeforeRevoked
