--------------------------- MODULE IdentityProofs ---------------------------
(***************************************************************************)
(* Proofs about Identity for any number of browsers, addresses, accounts,  *)
(* tokens and process ends. What they say of types and tokens holds also   *)
(* when the recovery command is run beside the server, what they say of    *)
(* verified addresses and cookies when it is run alone.                    *)
(*                                                                         *)
(* A cookie is judged by the account its row id has now. Two things make   *)
(* that enough while the account it was given for is there: an account     *)
(* stays in its row; and its version never goes back, and changes with     *)
(* every change of address or password. For the cookie of a deleted        *)
(* account nothing does.                                                   *)
(***************************************************************************)
EXTENDS Identity, TLAPS

\* Nobody recovers while the server runs.
Alone == ~RecoveryOverlaps

\* The accounts are some of the first `n` that were made, each in one row.
UsersOK(us, n) ==
    /\ DOMAIN us \subseteq 1..MaxAccounts
    /\ \A i \in DOMAIN us : us[i] \in User /\ us[i].born <= n
    /\ \A i, j \in DOMAIN us : us[i].born = us[j].born => i = j
Proved(us) ==
    Alone =>
      \A i \in DOMAIN us : mode.required /\ us[i].verified => us[i].proved = us[i].email

\* The three properties of tokens, of any accounts and tokens.
Issuable(us, ts, n) ==
    /\ DOMAIN ts \subseteq 1..n
    /\ \A t \in DOMAIN ts : ts[t] \in Token /\ ts[t].user \in DOMAIN us
OneLive(ts) ==
    \A s, t \in DOMAIN ts :
        ts[s].user = ts[t].user /\ ts[s].purpose = ts[t].purpose
          /\ ~ts[s].used /\ ~ts[t].used => s = t
Current(us, ts) ==
    \A t \in DOMAIN ts : ~ts[t].used =>
        /\ ts[t].email = us[ts[t].user].email
        /\ ts[t].purpose = RESET_PASSWORD => ts[t].version = us[ts[t].user].version
TokensOK(us, ts, n) == Issuable(us, ts, n) /\ OneLive(ts) /\ Current(us, ts)

AccountsInv ==
    /\ mode \in Modes
    /\ born \in 0..MaxAccounts /\ issued \in 0..MaxTokens[mode.required]
    /\ UsersOK(users, born) /\ Proved(users)
    /\ TokensOK(users, tokens, issued)

\* A cookie names the row of its account for as long as that is there, knows no later
\* version than the account has, and with the same version the same credentials.
CookieOK(c, us, n) ==
    /\ c \in Cookie /\ c.as.born <= n
    /\ Alone => \A i \in DOMAIN us : us[i].born = c.as.born =>
          /\ c.user = i /\ c.version <= us[i].version
          /\ c.version = us[i].version => c.as = Credentials(us[i])
Response == [waits : BOOLEAN, cookie : Cookie, link : SUBSET Nat]
CookiesInv ==
    /\ cookie \in [Browsers -> Cookie] /\ reply \in [Browsers -> Response]
    /\ \A b \in Browsers :
          CookieOK(cookie[b], users, born) /\ CookieOK(reply[b].cookie, users, born)

\* What the recovery command has read is so until it writes.
PromptInv ==
    /\ prompt \in Prompt
    /\ Alone /\ prompt # NoPrompt =>
          /\ ~up /\ prompt.user \in DOMAIN users
          /\ prompt.version = users[prompt.user].version
          /\ prompt.verified = users[prompt.user].verified
          /\ prompt.email = users[prompt.user].email
ProcessInv == up \in BOOLEAN /\ stops \in 0..MaxStops

IInv == AccountsInv /\ CookiesInv /\ PromptInv /\ ProcessInv

---------------------------------------------------------------------------
(***************************************************************************)
(* Tokens.                                                                 *)
(***************************************************************************)

LEMMA Bounds ==
    /\ MaxAccounts \in Nat /\ MaxVersion \in Nat \ {0} /\ MaxStops \in Nat
    /\ 1 \in 1..MaxVersion /\ 0 \in 0..MaxVersion /\ 0 \in 0..MaxAccounts
    /\ PURPOSES = {VERIFY_EMAIL, RESET_PASSWORD} /\ VERIFY_EMAIL # RESET_PASSWORD
    /\ \A m \in Modes : MaxTokens[m.required] \in Nat
  <1>1. \A m \in Modes : m.required \in BOOLEAN
    BY IdentityAssumption
  <1>2. QED
    BY <1>1, IdentityAssumption DEF PURPOSES, VERIFY_EMAIL, RESET_PASSWORD

\* What revoking leaves of the tokens.
LEMMA Revoked ==
    ASSUME NEW us, NEW ts, NEW n, Issuable(us, ts, n), NEW id, NEW P
    PROVE  LET r == revoke_tokens(ts, id, P)
           IN  /\ DOMAIN r = DOMAIN ts
               /\ \A t \in DOMAIN ts :
                    /\ r[t] \in Token /\ r[t].user = ts[t].user
                    /\ r[t].purpose = ts[t].purpose /\ r[t].email = ts[t].email
                    /\ r[t].version = ts[t].version
                    /\ ~r[t].used => ~ts[t].used /\ ~(ts[t].user = id /\ ts[t].purpose \in P)
  <1> DEFINE r == revoke_tokens(ts, id, P)
  <1>1. DOMAIN r = DOMAIN ts
    BY DEF revoke_tokens
  <1>2. ASSUME NEW t \in DOMAIN ts
        PROVE  /\ r[t] \in Token /\ r[t].user = ts[t].user
               /\ r[t].purpose = ts[t].purpose /\ r[t].email = ts[t].email
               /\ r[t].version = ts[t].version
               /\ ~r[t].used => ~ts[t].used /\ ~(ts[t].user = id /\ ts[t].purpose \in P)
    <2>1. ts[t] \in Token
      BY DEF Issuable
    <2>2. CASE ts[t].user = id /\ ts[t].purpose \in P
      <3>1. r[t] = [ts[t] EXCEPT !.used = TRUE]
        BY <2>2 DEF revoke_tokens
      <3>2. QED
        BY <2>1, <3>1 DEF Token
    <2>3. CASE ~(ts[t].user = id /\ ts[t].purpose \in P)
      <3>1. r[t] = ts[t]
        BY <2>3 DEF revoke_tokens
      <3>2. QED
        BY <2>1, <2>3, <3>1
    <2>4. QED
      BY <2>2, <2>3
  <1>3. QED
    BY <1>1, <1>2

\* Changes of accounts keep the tokens of the others, and void those of account i
\* that they make wrong.
LEMMA Voided ==
    ASSUME NEW us, NEW us2, NEW ts, NEW n, NEW i, NEW P, TokensOK(us, ts, n),
           DOMAIN us \subseteq DOMAIN us2,
           \A j \in DOMAIN us :
              j = i \/ (us2[j].email = us[j].email /\ us2[j].version = us[j].version),
           RESET_PASSWORD \in P,
           VERIFY_EMAIL \in P \/ us2[i].email = us[i].email
    PROVE  TokensOK(us2, revoke_tokens(ts, i, P), n)
  <1> DEFINE r == revoke_tokens(ts, i, P)
  <1>1. Issuable(us, ts, n) /\ OneLive(ts) /\ Current(us, ts)
    BY DEF TokensOK
  <1>2. /\ DOMAIN r = DOMAIN ts
        /\ \A t \in DOMAIN ts :
             /\ r[t] \in Token /\ r[t].user = ts[t].user
             /\ r[t].purpose = ts[t].purpose /\ r[t].email = ts[t].email
             /\ r[t].version = ts[t].version
             /\ ~r[t].used => ~ts[t].used /\ ~(ts[t].user = i /\ ts[t].purpose \in P)
    BY <1>1, Revoked
  <1> HIDE DEF r
  <1>3. \A t \in DOMAIN ts : ts[t].purpose \in {VERIFY_EMAIL, RESET_PASSWORD}
    BY <1>1, Bounds DEF Issuable, Token
  <1>4. Issuable(us2, r, n)
    BY <1>1, <1>2 DEF Issuable
  <1>5. OneLive(r)
    BY <1>1, <1>2 DEF OneLive
  <1>6. Current(us2, r)
    <2> SUFFICES ASSUME NEW t \in DOMAIN ts, ~r[t].used
                 PROVE  /\ r[t].email = us2[ts[t].user].email
                        /\ r[t].purpose = RESET_PASSWORD =>
                              r[t].version = us2[ts[t].user].version
      BY <1>2 DEF Current
    <2>1. ts[t].user \in DOMAIN us /\ ~ts[t].used
      BY <1>1, <1>2 DEF Issuable
    <2>2. /\ ts[t].email = us[ts[t].user].email
          /\ ts[t].purpose = RESET_PASSWORD => ts[t].version = us[ts[t].user].version
      BY <1>1, <2>1 DEF Current
    <2>3. CASE ts[t].user # i
      BY <1>2, <2>1, <2>2, <2>3
    <2>4. CASE ts[t].user = i
      <3>1. ts[t].purpose \notin P
        BY <1>2, <2>4
      <3>2. ts[t].purpose = VERIFY_EMAIL /\ us2[i].email = us[i].email
        BY <1>3, <3>1
      <3>3. ts[t].purpose # RESET_PASSWORD
        BY <3>2, Bounds
      <3>4. QED
        BY <1>2, <2>2, <2>4, <3>2, <3>3
    <2>5. QED
      BY <2>3, <2>4
  <1>7. QED
    BY <1>4, <1>5, <1>6 DEF TokensOK, r

LEMMA Unmoved ==
    ASSUME NEW us, NEW us2, NEW ts, NEW n, TokensOK(us, ts, n),
           DOMAIN us \subseteq DOMAIN us2,
           \A j \in DOMAIN us : us2[j].email = us[j].email /\ us2[j].version = us[j].version
    PROVE  TokensOK(us2, ts, n)
  BY DEF TokensOK, Issuable, Current

LEMMA Spent ==
    ASSUME NEW us, NEW ts, NEW n, TokensOK(us, ts, n), NEW t \in DOMAIN ts
    PROVE  TokensOK(us, [ts EXCEPT ![t].used = TRUE], n)
  <1> DEFINE r == [ts EXCEPT ![t].used = TRUE]
  <1>1. /\ DOMAIN r = DOMAIN ts
        /\ \A s \in DOMAIN ts :
              /\ r[s] \in Token /\ r[s].user = ts[s].user
              /\ r[s].purpose = ts[s].purpose /\ r[s].email = ts[s].email
              /\ r[s].version = ts[s].version /\ (~r[s].used => ~ts[s].used)
    <2>1. ts[t] \in Token /\ \A s \in DOMAIN ts : s # t => r[s] = ts[s] /\ ts[s] \in Token
      BY DEF TokensOK, Issuable
    <2>2. r[t] = [ts[t] EXCEPT !.used = TRUE]
      OBVIOUS
    <2>3. QED
      BY <2>1, <2>2 DEF Token
  <1> HIDE DEF r
  <1>2. Issuable(us, r, n)
    BY <1>1 DEF TokensOK, Issuable
  <1>3. OneLive(r)
    BY <1>1 DEF TokensOK, OneLive
  <1>4. Current(us, r)
    BY <1>1 DEF TokensOK, Current, Issuable
  <1>5. QED
    BY <1>2, <1>3, <1>4 DEF TokensOK, r

\* issue_token: the new one is the only one for its purpose that is not used.
LEMMA Issuing ==
    ASSUME NEW us, NEW ts, NEW k, UsersOK(us, k), TokensOK(us, ts, issued), issued \in Nat,
           NEW id \in DOMAIN us, NEW p \in PURPOSES, issue_token(ts, us, id, p)
    PROVE  TokensOK(us, tokens', issued + 1)
  <1> DEFINE r == revoke_tokens(ts, id, {p})
             new == NewToken(us, id, p)
  <1>1. PICK t \in 1..issued + 1 : IsNext(ts, t) /\ tokens' = With(r, t, new)
    BY DEF issue_token
  <1>2. Issuable(us, ts, issued) /\ OneLive(ts) /\ Current(us, ts)
    BY DEF TokensOK
  <1>3. /\ DOMAIN r = DOMAIN ts
        /\ \A s \in DOMAIN ts :
             /\ r[s] \in Token /\ r[s].user = ts[s].user
             /\ r[s].purpose = ts[s].purpose /\ r[s].email = ts[s].email
             /\ r[s].version = ts[s].version
             /\ ~r[s].used => ~ts[s].used /\ ~(ts[s].user = id /\ ts[s].purpose \in {p})
    BY <1>2, Revoked
  <1>4. us[id] \in User /\ id \in 1..MaxAccounts
    BY DEF UsersOK
  <1>5. /\ new \in Token /\ new.user = id /\ new.purpose = p /\ new.email = us[id].email
        /\ new.version = us[id].version
    BY <1>4 DEF NewToken, Token, User
  <1> HIDE DEF r, new
  <1>6. t \notin DOMAIN ts
    BY <1>1, <1>2 DEF IsNext, Issuable
  <1>7. /\ DOMAIN tokens' = DOMAIN ts \cup {t} /\ tokens'[t] = new
        /\ \A s \in DOMAIN ts : tokens'[s] = r[s] /\ s # t
    BY <1>1, <1>3, <1>6 DEF With
  <1>8. Issuable(us, tokens', issued + 1)
    BY <1>2, <1>3, <1>5, <1>7 DEF Issuable
  <1>9. OneLive(tokens')
    BY <1>2, <1>3, <1>5, <1>7 DEF OneLive
  <1>10. Current(us, tokens')
    BY <1>2, <1>3, <1>5, <1>7 DEF Current, Issuable
  <1>11. QED
    BY <1>8, <1>9, <1>10 DEF TokensOK

\* Deletion of an account takes its tokens with it.
LEMMA Cascaded ==
    ASSUME NEW i, TokensOK(users, tokens, issued)
    PROVE  TokensOK(Without(users, {i}), CascadedTokens(i), issued)
  <1> DEFINE us == Without(users, {i})
             ts == CascadedTokens(i)
  <1>1. /\ DOMAIN us = DOMAIN users \ {i}
        /\ \A j \in DOMAIN us : us[j] = users[j]
    BY DEF Without
  <1>2. /\ DOMAIN ts = {t \in DOMAIN tokens : tokens[t].user # i}
        /\ \A t \in DOMAIN ts : ts[t] = tokens[t]
    BY DEF CascadedTokens, Without
  <1> HIDE DEF us, ts
  <1>3. Issuable(us, ts, issued)
    BY <1>1, <1>2 DEF TokensOK, Issuable
  <1>4. OneLive(ts)
    BY <1>2 DEF TokensOK, OneLive
  <1>5. Current(us, ts)
    BY <1>1, <1>2, <1>3 DEF TokensOK, Current, Issuable
  <1>6. QED
    BY <1>3, <1>4, <1>5 DEF TokensOK, us, ts

---------------------------------------------------------------------------
(***************************************************************************)
(* Accounts.                                                               *)
(***************************************************************************)

\* What may become of accounts of which `n` were made before.
Follows(us, us2, n) ==
    Alone =>
      \A i \in DOMAIN us2 :
        \/ us2[i].born > n
        \/ /\ i \in DOMAIN us /\ us2[i].born = us[i].born
           /\ us[i].version <= us2[i].version
           /\ us2[i].version = us[i].version => Credentials(us2[i]) = Credentials(us[i])

\* What every step keeps of accounts and tokens.
Kept == AccountsInv' /\ Follows(users, users', born) /\ born <= born'

LEMMA Numbers ==
    ASSUME AccountsInv
    PROVE  /\ born \in Nat /\ issued \in Nat
           /\ \A i \in DOMAIN users :
                 /\ i \in 1..MaxAccounts /\ users[i] \in User
                 /\ users[i].version \in Nat /\ users[i].password \in Nat
                 /\ users[i].born \in Nat /\ users[i].born <= born
  BY Bounds DEF AccountsInv, UsersOK, User

LEMMA Changed ==
    ASSUME AccountsInv, NEW i \in DOMAIN users, NEW us2,
           DOMAIN us2 = DOMAIN users, \A j \in DOMAIN users : j = i \/ us2[j] = users[j],
           us2[i] \in User, us2[i].born = users[i].born,
           Alone =>
              /\ users[i].version <= us2[i].version
              /\ us2[i].version = users[i].version =>
                    us2[i].email = users[i].email /\ us2[i].password = users[i].password
              /\ mode.required /\ us2[i].verified => us2[i].proved = us2[i].email
    PROVE  UsersOK(us2, born) /\ Proved(us2) /\ Follows(users, us2, born)
  <1>1. UsersOK(us2, born)
    <2>1. \A j \in DOMAIN users : us2[j].born = users[j].born
      OBVIOUS
    <2>2. QED
      BY <2>1 DEF AccountsInv, UsersOK
  <1>2. Proved(us2)
    BY DEF AccountsInv, Proved
  <1>3. Follows(users, us2, born)
    BY Numbers DEF Follows, Credentials
  <1>4. QED
    BY <1>1, <1>2, <1>3

\* A new address is not verified, and no token survives it.
LEMMA Emailed ==
    ASSUME AccountsInv, NEW i \in DOMAIN users, NEW email \in Emails, CanChange(i)
    PROVE  LET us2 == NewEmail(users, i, email)
           IN  /\ UsersOK(us2, born) /\ Proved(us2) /\ Follows(users, us2, born)
               /\ DOMAIN us2 = DOMAIN users
               /\ TokensOK(us2, DropsTokens(tokens, i), issued)
  <1> DEFINE us2 == NewEmail(users, i, email)
  <1>1. users[i] \in User /\ users[i].version \in Nat /\ users[i].version < MaxVersion
    BY Numbers DEF CanChange
  <1>2. /\ DOMAIN us2 = DOMAIN users /\ \A j \in DOMAIN users : j = i \/ us2[j] = users[j]
        /\ us2[i] = [users[i] EXCEPT !.email = email, !.verified = FALSE, !.version = @ + 1]
    BY DEF NewEmail
  <1>3. /\ users[i].version + 1 \in 1..MaxVersion
        /\ users[i].version + 1 # users[i].version
        /\ users[i].version <= users[i].version + 1
    BY <1>1, Bounds
  <1> HIDE DEF us2
  <1>4. /\ us2[i] \in User /\ us2[i].born = users[i].born
        /\ us2[i].password = users[i].password /\ us2[i].version = users[i].version + 1
        /\ us2[i].verified = FALSE
    BY <1>1, <1>2, <1>3 DEF User
  <1>5. UsersOK(us2, born) /\ Proved(us2) /\ Follows(users, us2, born)
    BY <1>2, <1>3, <1>4, Changed
  <1>6. TokensOK(us2, DropsTokens(tokens, i), issued)
    BY <1>2, Voided, Bounds DEF DropsTokens, AccountsInv
  <1>7. QED
    BY <1>2, <1>5, <1>6 DEF us2

\* A new password voids what was issued to reset the old one.
LEMMA Repassed ==
    ASSUME AccountsInv, NEW i \in DOMAIN users, CanChange(i),
           NEW ts, TokensOK(users, ts, issued)
    PROVE  LET us2 == NewPassword(users, i)
           IN  /\ UsersOK(us2, born) /\ Proved(us2) /\ Follows(users, us2, born)
               /\ TokensOK(us2, revoke_tokens(ts, i, {RESET_PASSWORD}), issued)
  <1> DEFINE us2 == NewPassword(users, i)
  <1>1. users[i] \in User /\ users[i].version \in Nat /\ users[i].version < MaxVersion
        /\ users[i].password \in Nat \ {0}
    BY Numbers DEF CanChange, User
  <1>2. /\ DOMAIN us2 = DOMAIN users /\ \A j \in DOMAIN users : j = i \/ us2[j] = users[j]
        /\ us2[i] = [users[i] EXCEPT !.password = @ + 1, !.version = @ + 1]
    BY DEF NewPassword
  <1>3. /\ users[i].version + 1 \in 1..MaxVersion /\ users[i].password + 1 \in Nat \ {0}
        /\ users[i].version + 1 # users[i].version
        /\ users[i].version <= users[i].version + 1
    BY <1>1, Bounds
  <1> HIDE DEF us2
  <1>4. /\ us2[i] \in User /\ us2[i].born = users[i].born
        /\ us2[i].password = users[i].password + 1
        /\ us2[i].version = users[i].version + 1 /\ us2[i].email = users[i].email
        /\ us2[i].verified = users[i].verified /\ us2[i].proved = users[i].proved
    BY <1>1, <1>2, <1>3 DEF User
  <1>5. Alone /\ mode.required /\ us2[i].verified => us2[i].proved = us2[i].email
    BY <1>4 DEF AccountsInv, Proved
  <1>6. UsersOK(us2, born) /\ Proved(us2) /\ Follows(users, us2, born)
    BY <1>2, <1>3, <1>4, <1>5, Changed
  <1>7. TokensOK(us2, revoke_tokens(ts, i, {RESET_PASSWORD}), issued)
    <2> DEFINE P == {RESET_PASSWORD}
    <2>1. /\ RESET_PASSWORD \in P /\ us2[i].email = users[i].email
          /\ DOMAIN users \subseteq DOMAIN us2
          /\ \A j \in DOMAIN users :
                j = i \/ (us2[j].email = users[j].email /\ us2[j].version = users[j].version)
      BY <1>2, <1>4
    <2> HIDE DEF P
    <2>2. TokensOK(us2, revoke_tokens(ts, i, P), issued)
      BY <2>1, Voided
    <2>3. QED
      BY <2>2 DEF P
  <1>8. QED
    BY <1>6, <1>7 DEF us2

\* A confirmation proves the address that the account has now.
LEMMA Confirmed ==
    ASSUME AccountsInv, NEW i \in DOMAIN users,
           NEW ts, TokensOK(users, ts, issued)
    PROVE  LET us2 == [users EXCEPT ![i].verified = TRUE, ![i].proved = users[i].email]
           IN  /\ UsersOK(us2, born) /\ Proved(us2) /\ Follows(users, us2, born)
               /\ DOMAIN us2 = DOMAIN users /\ TokensOK(us2, ts, issued)
  <1> DEFINE us2 == [users EXCEPT ![i].verified = TRUE, ![i].proved = users[i].email]
  <1>1. users[i] \in User /\ users[i].version \in Nat
    BY Numbers
  <1>2. /\ DOMAIN us2 = DOMAIN users /\ \A j \in DOMAIN users : j = i \/ us2[j] = users[j]
        /\ us2[i] = [users[i] EXCEPT !.verified = TRUE, !.proved = users[i].email]
    OBVIOUS
  <1> HIDE DEF us2
  <1>3. /\ us2[i] \in User /\ us2[i].born = users[i].born
        /\ us2[i].password = users[i].password
        /\ us2[i].version = users[i].version /\ us2[i].email = users[i].email
        /\ us2[i].proved = users[i].email
    BY <1>1, <1>2 DEF User
  <1>4. UsersOK(us2, born) /\ Proved(us2) /\ Follows(users, us2, born)
    <2>1. users[i].version <= us2[i].version /\ us2[i].proved = us2[i].email
      BY <1>1, <1>3
    <2>2. QED
      BY <1>2, <1>3, <2>1, Changed
  <1>5. TokensOK(us2, ts, issued)
    <2>1. /\ DOMAIN users \subseteq DOMAIN us2
          /\ \A j \in DOMAIN users :
                us2[j].email = users[j].email /\ us2[j].version = users[j].version
      BY <1>2, <1>3
    <2> HIDE DEF AccountsInv
    <2>2. QED
      BY <2>1, Unmoved
  <1>6. QED
    BY <1>2, <1>4, <1>5 DEF us2

\* A new account is another than any before, whatever its row id.
LEMMA Added ==
    ASSUME AccountsInv, born < MaxAccounts, NEW i \in 1..MaxAccounts,
           NEW email \in Emails, NEW verified \in BOOLEAN, NEW admin \in BOOLEAN,
           mode.required => ~verified, NewUser(i, email, verified, admin)
    PROVE  /\ born' = born + 1 /\ i \in DOMAIN users'
           /\ UsersOK(users', born') /\ Proved(users') /\ Follows(users, users', born)
           /\ TokensOK(users', tokens, issued)
  <1> DEFINE row == [born |-> born + 1, email |-> email, password |-> 1,
                     verified |-> verified, admin |-> admin, version |-> 1,
                     proved |-> "none"]
  <1>1. born' = born + 1 /\ users' = With(users, i, row) /\ i \notin DOMAIN users
    BY Numbers, Bounds DEF NewUser, IsNext
  <1>2. /\ row \in User /\ row.born = born + 1
        /\ row.verified = verified
    BY Numbers, Bounds DEF User
  <1> HIDE DEF row
  <1>3. /\ DOMAIN users' = DOMAIN users \cup {i} /\ users'[i] = row
        /\ \A j \in DOMAIN users : users'[j] = users[j]
    BY <1>1 DEF With
  <1>4. UsersOK(users', born')
    <2>1. \A j, k \in DOMAIN users : users[j].born = users[k].born => j = k
      BY DEF AccountsInv, UsersOK
    <2>2. \A j \in DOMAIN users : users'[j].born # users'[i].born
      BY <1>2, <1>3, Numbers
    <2>3. \A j, k \in DOMAIN users' : users'[j].born = users'[k].born => j = k
      BY <1>3, <2>1, <2>2
    <2>4. QED
      BY <1>1, <1>2, <1>3, <2>3, Numbers DEF UsersOK
  <1>5. Proved(users')
    BY <1>2, <1>3 DEF Proved, AccountsInv
  <1>6. Follows(users, users', born)
    BY <1>2, <1>3, Numbers DEF Follows
  <1>7. TokensOK(users', tokens, issued)
    BY <1>3, Unmoved DEF AccountsInv
  <1>8. QED
    BY <1>1, <1>3, <1>4, <1>5, <1>6, <1>7

\* The account of the default administrator, made or promoted.
LEMMA BootstrappedOK ==
    ASSUME AccountsInv, born < MaxAccounts, Bootstrapped
    PROVE  /\ born' \in {born, born + 1}
           /\ UsersOK(users', born') /\ Proved(users') /\ Follows(users, users', born)
           /\ TokensOK(users', tokens, issued)
  <1>0. mode.required \in BOOLEAN
    BY IdentityAssumption DEF AccountsInv
  <1>1. CASE InUse(DEFAULT_ADMIN_EMAIL)
    <2>1. born' = born /\ users' = [i \in DOMAIN users |-> Promoted(users[i])]
      BY <1>1 DEF Bootstrapped
    <2>2. DOMAIN users' = DOMAIN users
      BY <2>1
    <2>3. ASSUME NEW i \in DOMAIN users
          PROVE  /\ users'[i] \in User /\ users'[i].born = users[i].born
                 /\ users'[i].email = users[i].email
                 /\ users'[i].password = users[i].password
                 /\ users'[i].version = users[i].version
                 /\ users'[i].proved = users[i].proved
                 /\ mode.required => users'[i].verified = users[i].verified
      <3>1. users'[i] = Promoted(users[i]) /\ users[i] \in User
        BY <2>1, Numbers
      <3>2. CASE users'[i] = users[i]
        BY <3>1, <3>2
      <3>3. CASE users'[i] = [users[i] EXCEPT !.admin = TRUE,
                                              !.verified = @ \/ ~mode.required]
        <4>1. (users[i].verified \/ ~mode.required) \in BOOLEAN
          OBVIOUS
        <4>2. mode.required => (users[i].verified \/ ~mode.required) = users[i].verified
          BY <3>1 DEF User
        <4>3. QED
          BY <3>1, <3>3, <4>1, <4>2 DEF User
      <3>4. QED
        BY <3>1, <3>2, <3>3 DEF Promoted
    <2>4. UsersOK(users', born')
      BY <2>1, <2>2, <2>3 DEF UsersOK, AccountsInv
    <2>5. Proved(users')
      BY <2>2, <2>3 DEF Proved, AccountsInv
    <2>6. Follows(users, users', born)
      BY <2>2, <2>3, Numbers DEF Follows, Credentials
    <2>7. TokensOK(users', tokens, issued)
      BY <2>2, <2>3, Unmoved DEF AccountsInv
    <2>8. QED
      BY <2>1, <2>4, <2>5, <2>6, <2>7
  <1>2. CASE ~InUse(DEFAULT_ADMIN_EMAIL)
    <2>1. PICK i \in 1..MaxAccounts : NewUser(i, DEFAULT_ADMIN_EMAIL, ~mode.required, TRUE)
      BY <1>2 DEF Bootstrapped
    <2>2. DEFAULT_ADMIN_EMAIL \in Emails /\ (~mode.required) \in BOOLEAN
      BY IdentityAssumption
    <2>3. QED
      BY <2>1, <2>2, Added
  <1>3. QED
    BY <1>1, <1>2

\* Recovery writes over what it has read; when it runs alone that is what is there.
LEMMA RecoveredOK ==
    ASSUME AccountsInv, PromptInv, prompt # NoPrompt, prompt.version < MaxVersion,
           prompt.user \in DOMAIN users,
           NEW email \in Emails \cup {"none"}, NEW password \in BOOLEAN,
           NEW us2, us2 = [users EXCEPT ![prompt.user] = Recovered(@, email, password)]
    PROVE  /\ UsersOK(us2, born) /\ Proved(us2) /\ Follows(users, us2, born)
           /\ TokensOK(us2, DropsTokens(tokens, prompt.user), issued)
  <1> DEFINE i == prompt.user
             u == Recovered(users[i], email, password)
  <1>1. /\ i \in DOMAIN users /\ prompt.version \in Nat /\ prompt.verified \in BOOLEAN
        /\ Alone => /\ prompt.version = users[i].version
                    /\ prompt.verified = users[i].verified /\ prompt.email = users[i].email
    BY DEF PromptInv, Prompt
  <1>2. /\ users[i] \in User /\ users[i].version \in Nat
        /\ users[i].password \in Nat \ {0}
        /\ users[i].email \in Emails /\ users[i].verified \in BOOLEAN
    BY <1>1, Numbers DEF User
  <1>3. /\ DOMAIN us2 = DOMAIN users /\ \A j \in DOMAIN users : j = i \/ us2[j] = users[j]
        /\ us2[i] = u
    BY <1>1
  <1> HIDE DEF i
  <1>4. /\ u.born = users[i].born /\ u.admin = users[i].admin
        /\ u.proved = users[i].proved /\ u.version = prompt.version + 1
        /\ u.email = IF email \in {"none", prompt.email} THEN users[i].email ELSE email
        /\ u.password = IF password THEN users[i].password + 1 ELSE users[i].password
        /\ u.verified = (users[i].verified /\ (email = "none" \/ ~prompt.verified))
        /\ u = [born |-> u.born, email |-> u.email, password |-> u.password,
                verified |-> u.verified, admin |-> u.admin, version |-> u.version,
                proved |-> u.proved]
    <2> DEFINE e == IF email \in {"none", prompt.email} THEN users[i].email ELSE email
               v == users[i].verified /\ (email = "none" \/ ~prompt.verified)
               p == IF password THEN users[i].password + 1 ELSE users[i].password
    <2>1. u = [users[i] EXCEPT !.email = e, !.verified = v, !.password = p,
                               !.version = prompt.version + 1]
      BY <1>2, Zenon DEF Recovered, User
    <2> HIDE DEF e, v, p
    <2>2. /\ u.email = e /\ u.verified = v /\ u.password = p
          /\ u.version = prompt.version + 1 /\ u.born = users[i].born
          /\ u.admin = users[i].admin /\ u.proved = users[i].proved
          /\ u = [born |-> u.born, email |-> u.email, password |-> u.password,
                  verified |-> u.verified, admin |-> u.admin, version |-> u.version,
                  proved |-> u.proved]
      <3> HIDE DEF u
      <3>1. QED
        BY <1>2, <2>1 DEF User
    <2>3. QED
      BY <1>1, <2>2 DEF e, v, p
  <1>5. /\ u.verified \in BOOLEAN
        /\ Alone /\ u.verified => email = "none" /\ users[i].verified
    BY <1>1, <1>2, <1>4
  <1> HIDE DEF u
  <1>6. /\ u.email \in Emails /\ u.password \in Nat \ {0} /\ u.version \in 1..MaxVersion
        /\ Alone => users[i].version <= u.version /\ u.version # users[i].version
    BY <1>1, <1>2, <1>4, Bounds
  <1>7. u \in User
    BY <1>2, <1>4, <1>5, <1>6 DEF User
  <1>8. Alone /\ mode.required /\ u.verified => u.proved = u.email
    BY <1>1, <1>4, <1>5 DEF AccountsInv, Proved
  <1>9. UsersOK(us2, born) /\ Proved(us2) /\ Follows(users, us2, born)
    BY <1>1, <1>3, <1>4, <1>6, <1>7, <1>8, Changed
  <1>10. TokensOK(us2, DropsTokens(tokens, i), issued)
    BY <1>1, <1>3, Voided, Bounds DEF DropsTokens, AccountsInv
  <1>11. QED
    BY <1>9, <1>10 DEF i

LEMMA Removed ==
    ASSUME AccountsInv, NEW i
    PROVE  LET us2 == Without(users, {i})
           IN  /\ UsersOK(us2, born) /\ Proved(us2) /\ Follows(users, us2, born)
               /\ TokensOK(us2, CascadedTokens(i), issued)
  <1> DEFINE us2 == Without(users, {i})
  <1>1. DOMAIN us2 \subseteq DOMAIN users /\ \A j \in DOMAIN us2 : us2[j] = users[j]
    BY DEF Without
  <1> HIDE DEF us2
  <1>2. UsersOK(us2, born) /\ Proved(us2)
    BY <1>1 DEF AccountsInv, UsersOK, Proved
  <1>3. Follows(users, us2, born)
    BY <1>1, Numbers DEF Follows
  <1>4. TokensOK(us2, CascadedTokens(i), issued)
    BY Cascaded DEF AccountsInv, us2
  <1>5. QED
    BY <1>2, <1>3, <1>4 DEF us2

---------------------------------------------------------------------------
(***************************************************************************)
(* Cookies.                                                                *)
(***************************************************************************)

LEMMA ClearedOK == ASSUME NEW us, NEW n \in Nat, UsersOK(us, n) PROVE CookieOK(Cleared, us, n)
  <1>1. Cleared \in Cookie /\ Cleared.user = 0 /\ Cleared.as.born = 0
    BY Bounds DEF Cleared, Cookie, Nobody
  <1>2. \A i \in DOMAIN us : us[i].born # 0
    BY Bounds DEF UsersOK, User
  <1>3. QED
    BY <1>1, <1>2 DEF CookieOK

\* A cookie that was good is good under what the accounts have become.
LEMMA Aged ==
    ASSUME NEW us, NEW us2, NEW n \in Nat, NEW n2 \in Nat, NEW c, n <= n2,
           UsersOK(us, n), UsersOK(us2, n2), Follows(us, us2, n), CookieOK(c, us, n)
    PROVE  CookieOK(c, us2, n2)
  <1>1. c \in Cookie /\ c.as.born \in Nat /\ c.as.born <= n /\ c.version \in Nat
    BY Bounds DEF CookieOK, Cookie
  <1>2. SUFFICES ASSUME Alone, NEW i \in DOMAIN us2, us2[i].born = c.as.born
                 PROVE  /\ c.user = i /\ c.version <= us2[i].version
                        /\ c.version = us2[i].version => c.as = Credentials(us2[i])
    BY <1>1 DEF CookieOK
  <1>3. /\ i \in DOMAIN us /\ us2[i].born = us[i].born
        /\ us[i].version <= us2[i].version
        /\ us2[i].version = us[i].version => Credentials(us2[i]) = Credentials(us[i])
    BY <1>1, <1>2 DEF Follows
  <1>4. /\ c.user = i /\ c.version <= us[i].version
        /\ c.version = us[i].version => c.as = Credentials(us[i])
    BY <1>2, <1>3 DEF CookieOK
  <1>5. us[i].version \in Nat /\ us2[i].version \in Nat
    BY <1>2, <1>3, Bounds DEF UsersOK, User
  <1>6. QED
    BY <1>1, <1>3, <1>4, <1>5

LEMMA AuthenticatedOK ==
    ASSUME NEW us, NEW n \in Nat, UsersOK(us, n), NEW i \in DOMAIN us
    PROVE  CookieOK(authenticate_session(us, i), us, n)
  <1> DEFINE c == authenticate_session(us, i)
  <1>1. us[i] \in User /\ us[i].born <= n /\ i \in 1..MaxAccounts
    BY DEF UsersOK
  <1>2. Credentials(us[i]) \in [born : 0..MaxAccounts, email : Emails \cup {"none"},
                                password : Nat]
    BY <1>1, Bounds DEF Credentials, User
  <1>3. us[i].version \in 0..MaxVersion /\ i \in 0..MaxAccounts
    BY <1>1, Bounds DEF User
  <1>4. Cleared \in Cookie
    BY ClearedOK DEF CookieOK
  <1>5. /\ c \in Cookie
        /\ c.user = i /\ c.version = us[i].version /\ c.as = Credentials(us[i])
    BY <1>2, <1>3, <1>4 DEF authenticate_session, Cookie
  <1> HIDE DEF c
  <1>6. c.as.born = us[i].born
    BY <1>5 DEF Credentials
  <1>7. \A j \in DOMAIN us : us[j].born = c.as.born => j = i
    BY <1>6 DEF UsersOK
  <1>8. QED
    BY <1>1, <1>3, <1>5, <1>6, <1>7, Bounds DEF CookieOK, c

LEMMA UnverifiedOK ==
    ASSUME NEW us, NEW n, NEW c, CookieOK(c, us, n), NEW i \in 0..MaxAccounts
    PROVE  CookieOK([c EXCEPT !.unverified = i], us, n)
  <1> DEFINE d == [c EXCEPT !.unverified = i]
  <1>1. c \in Cookie
    BY DEF CookieOK
  <1>2. d \in Cookie /\ d.user = c.user /\ d.version = c.version /\ d.as = c.as
    BY <1>1 DEF Cookie
  <1> HIDE DEF d
  <1>3. QED
    BY <1>2 DEF CookieOK, d

LEMMA StagedOK ==
    ASSUME NEW us, NEW n, NEW c, CookieOK(c, us, n), NEW p \in PURPOSES, NEW t \in Nat
    PROVE  CookieOK(Staged(c, p, t), us, n)
  <1> DEFINE d == Staged(c, p, t)
  <1>1. c \in Cookie
    BY DEF CookieOK
  <1>2. d = [c EXCEPT !.staged = [c.staged EXCEPT ![p] = t]]
    BY DEF Staged
  <1>3. [c.staged EXCEPT ![p] = t] \in [PURPOSES -> Nat]
    BY <1>1 DEF Cookie
  <1> HIDE DEF d
  <1>4. d \in Cookie /\ d.user = c.user /\ d.version = c.version /\ d.as = c.as
    BY <1>1, <1>2, <1>3 DEF Cookie
  <1>5. QED
    BY <1>4 DEF CookieOK, d

\* The cookies that a step does not write.
LEMMA OthersStay ==
    ASSUME AccountsInv, CookiesInv, Kept
    PROVE  \A b \in Browsers : /\ CookieOK(cookie[b], users', born')
                               /\ CookieOK(reply[b].cookie, users', born')
  <1>1. /\ UsersOK(users, born) /\ UsersOK(users', born')
        /\ born \in Nat /\ born' \in Nat /\ born <= born' /\ Follows(users, users', born)
    BY Bounds DEF AccountsInv, Kept
  <1>2. QED
    BY <1>1, Aged DEF CookiesInv

LEMMA NothingWritten ==
    ASSUME AccountsInv, CookiesInv, Kept, UNCHANGED <<cookie, reply>> PROVE CookiesInv'
  BY OthersStay DEF CookiesInv

LEMMA AnswerWrites ==
    ASSUME AccountsInv, CookiesInv, Kept, NEW b \in Browsers, NEW c,
           CookieOK(c, users', born'), Answer(b, c)
    PROVE  CookiesInv'
  <1>1. /\ cookie' = [cookie EXCEPT ![b] = c] /\ reply' = reply /\ c \in Cookie
    BY DEF Answer, CookieOK
  <1>2. /\ cookie' \in [Browsers -> Cookie] /\ cookie'[b] = c
        /\ \A d \in Browsers : d # b => cookie'[d] = cookie[d]
    BY <1>1 DEF CookiesInv
  <1>3. QED
    BY <1>1, <1>2, OthersStay DEF CookiesInv

LEMMA AwaitWrites ==
    ASSUME AccountsInv, CookiesInv, Kept, NEW b \in Browsers, NEW c, NEW mail \in SUBSET Nat,
           CookieOK(c, users', born'), Await(b, c, mail)
    PROVE  CookiesInv'
  <1> DEFINE r == [waits |-> TRUE, cookie |-> c, link |-> mail]
  <1>1. /\ reply' = [reply EXCEPT ![b] = r] /\ cookie' = cookie /\ r \in Response
        /\ r.cookie = c
    BY DEF Await, CookieOK, Response
  <1> HIDE DEF r
  <1>2. /\ reply' \in [Browsers -> Response] /\ reply'[b] = r
        /\ \A d \in Browsers : d # b => reply'[d] = reply[d]
    BY <1>1 DEF CookiesInv
  <1>3. QED
    BY <1>1, <1>2, OthersStay DEF CookiesInv

---------------------------------------------------------------------------
(***************************************************************************)
(* The steps.                                                              *)
(***************************************************************************)

LEMMA InitOK == Init => IInv
  <1> SUFFICES ASSUME Init PROVE IInv
    OBVIOUS
  <1>1. DOMAIN users = {} /\ DOMAIN tokens = {} /\ born = 0 /\ issued = 0 /\ mode \in Modes
    BY DEF Init
  <1>2. UsersOK(users, born) /\ Proved(users) /\ TokensOK(users, tokens, issued)
    BY <1>1 DEF UsersOK, Proved, TokensOK, Issuable, OneLive, Current
  <1>3. AccountsInv
    BY <1>1, <1>2, Bounds DEF AccountsInv
  <1>4. CookieOK(Cleared, users, born)
    BY <1>1, <1>2, ClearedOK
  <1>5. NoReply \in Response /\ NoReply.cookie = Cleared
    BY <1>4 DEF NoReply, Response, CookieOK
  <1>6. CookiesInv
    BY <1>4, <1>5 DEF Init, CookiesInv, CookieOK
  <1>7. PromptInv
    BY Bounds DEF Init, PromptInv, Prompt, NoPrompt
  <1>8. up = FALSE /\ stops = 0 /\ 0 \in 0..MaxStops
    BY IdentityAssumption DEF Init
  <1>9. ProcessInv
    BY <1>8 DEF ProcessInv
  <1>10. QED
    BY <1>3, <1>6, <1>7, <1>9 DEF IInv

\* A step that leaves accounts and tokens alone.
LEMMA SameKept == ASSUME AccountsInv, SameAccounts, mode' = mode PROVE Kept
  <1>1. UNCHANGED <<users, tokens, born, issued>>
    BY DEF SameAccounts, accounts
  <1>2. AccountsInv'
    BY <1>1 DEF AccountsInv, UsersOK, Proved, TokensOK, Issuable, OneLive, Current
  <1>3. QED
    BY <1>1, <1>2, Numbers DEF Kept, Follows

\* A step that changes them.
LEMMA ChangeKept ==
    ASSUME AccountsInv, mode' = mode, born' \in {born, born + 1}, born' <= MaxAccounts,
           issued' \in 0..MaxTokens[mode.required],
           UsersOK(users', born'), Proved(users'), Follows(users, users', born),
           TokensOK(users', tokens', issued')
    PROVE  Kept
  <1>1. born' \in 0..MaxAccounts /\ born <= born'
    BY Numbers, Bounds
  <1>2. AccountsInv'
    BY <1>1 DEF AccountsInv, Proved
  <1>3. QED
    BY <1>1, <1>2 DEF Kept

\* A request of a running server.
LEMMA ServingStep ==
    ASSUME IInv, Serving, Kept, CookiesInv' PROVE IInv'
  <1>1. up /\ (Alone => prompt = NoPrompt) /\ UNCHANGED <<mode, prompt, up, stops>>
    BY DEF Serving, IInv, PromptInv
  <1>2. PromptInv' /\ ProcessInv'
    BY <1>1 DEF IInv, PromptInv, ProcessInv
  <1>3. QED
    BY <1>2 DEF IInv, Kept

\* What CanIssue allows.
LEMMA Issues ==
    ASSUME AccountsInv, CanIssue
    PROVE  issued' = issued + 1 /\ issued' \in 0..MaxTokens[mode.required]
           /\ {issued + 1} \in SUBSET Nat /\ issued \in Nat
  BY Bounds DEF CanIssue, AccountsInv

\* Visits, logins, logouts and links, which write a cookie and nothing else.
LEMMA AnswerKeeps ==
    ASSUME IInv, Serving, SameAccounts, NEW b \in Browsers, NEW c,
           CookieOK(c, users, born), Answer(b, c)
    PROVE  IInv'
  <1>1. Kept
    BY SameKept DEF IInv, Serving
  <1>2. CookieOK(c, users', born')
    BY DEF SameAccounts, accounts
  <1>3. CookiesInv'
    BY <1>1, <1>2, AnswerWrites DEF IInv
  <1>4. QED
    BY <1>1, <1>3, ServingStep

LEMMA BrowsingKeeps ==
    ASSUME IInv, NEW b \in Browsers,
           \/ Visit(b) \/ Logout(b) \/ \E i \in DOMAIN users : Login(b, i)
           \/ \E t \in DOMAIN tokens : Follow(b, t)
           \/ \E p \in PURPOSES : Dropped(b, p)
    PROVE  IInv'
  <1>1. /\ CookieOK(cookie[b], users, born) /\ CookieOK(Cleared, users, born)
        /\ UsersOK(users, born) /\ born \in Nat /\ 0 \in Nat
    BY ClearedOK, Numbers DEF IInv, CookiesInv, AccountsInv
  <1>2. CASE Visit(b) \/ Logout(b)
    BY <1>1, <1>2, AnswerKeeps DEF Visit, Logout
  <1>3. CASE \E i \in DOMAIN users : Login(b, i)
    <2>1. PICK i \in DOMAIN users : Login(b, i)
      BY <1>3
    <2>2. i \in 0..MaxAccounts
      BY <1>1, Bounds DEF UsersOK
    <2>3. /\ CookieOK([Cleared EXCEPT !.unverified = i], users, born)
          /\ CookieOK(authenticate_session(users, i), users, born)
      BY <1>1, <2>2, UnverifiedOK, AuthenticatedOK
    <2>4. QED
      BY <2>1, <2>3, AnswerKeeps DEF Login
  <1>4. CASE \E t \in DOMAIN tokens : Follow(b, t)
    <2>1. PICK t \in DOMAIN tokens : Follow(b, t)
      BY <1>4
    <2>2. t \in Nat /\ tokens[t].purpose \in PURPOSES
      BY Numbers DEF IInv, AccountsInv, TokensOK, Issuable, Token
    <2> DEFINE p == tokens[t].purpose
    <2>3. CookieOK(Staged(cookie[b], p, t), users, born)
          /\ CookieOK(Staged(cookie[b], p, 0), users, born)
      BY <1>1, <2>2, StagedOK
    <2>4. Serving /\ SameAccounts
          /\ (Answer(b, Staged(cookie[b], p, t)) \/ Answer(b, Staged(cookie[b], p, 0)))
      BY <2>1 DEF Follow
    <2>5. QED
      BY <2>3, <2>4, AnswerKeeps
  <1>5. CASE \E p \in PURPOSES : Dropped(b, p)
    <2>1. PICK p \in PURPOSES : Dropped(b, p)
      BY <1>5
    <2>2. CookieOK(Staged(cookie[b], p, 0), users, born)
      BY <1>1, StagedOK
    <2>3. QED
      BY <2>1, <2>2, AnswerKeeps DEF Dropped
  <1>6. QED
    BY <1>2, <1>3, <1>4, <1>5

LEMMA RegisterKeeps ==
    ASSUME IInv, NEW b \in Browsers, NEW email \in Emails, Register(b, email)
    PROVE  IInv'
  <1>1. /\ AccountsInv /\ CookiesInv /\ Serving /\ mode.required /\ born < MaxAccounts
        /\ mode' = mode /\ CanIssue
    BY DEF IInv, Register, CanRegister, Serving
  <1>2. PICK i \in 1..MaxAccounts :
          /\ NewUser(i, email, FALSE, FALSE)
          /\ issue_token(tokens, users', i, VERIFY_EMAIL)
          /\ Await(b, [Cleared EXCEPT !.unverified = i], {issued + 1})
    BY DEF Register
  <1>3. /\ born' = born + 1 /\ i \in DOMAIN users'
        /\ UsersOK(users', born') /\ Proved(users') /\ Follows(users, users', born)
        /\ TokensOK(users', tokens, issued)
    BY <1>1, <1>2, Added
  <1>4. issued' = issued + 1 /\ issued' \in 0..MaxTokens[mode.required]
        /\ {issued + 1} \in SUBSET Nat /\ issued \in Nat
    BY <1>1, Issues
  <1>5. TokensOK(users', tokens', issued')
    <2>1. VERIFY_EMAIL \in PURPOSES
      BY Bounds
    <2>2. QED
      BY <1>2, <1>3, <1>4, <2>1, Issuing
  <1>6. Kept
    BY <1>1, <1>3, <1>4, <1>5, Numbers, Bounds, ChangeKept
  <1>7. CookieOK([Cleared EXCEPT !.unverified = i], users', born')
    BY <1>1, <1>3, Numbers, Bounds, ClearedOK, UnverifiedOK
  <1>8. QED
    BY <1>1, <1>2, <1>4, <1>6, <1>7, AwaitWrites, ServingStep

LEMMA RegisterVerifiedKeeps ==
    ASSUME IInv, NEW b \in Browsers, NEW email \in Emails, RegisterVerified(b, email)
    PROVE  IInv'
  <1>1. /\ AccountsInv /\ CookiesInv /\ Serving /\ ~mode.required /\ born < MaxAccounts
        /\ mode' = mode /\ UNCHANGED <<tokens, issued>>
    BY DEF IInv, RegisterVerified, CanRegister, Serving
  <1>2. PICK i \in 1..MaxAccounts :
          /\ NewUser(i, email, TRUE, FALSE)
          /\ Answer(b, authenticate_session(users', i))
    BY DEF RegisterVerified
  <1>3. /\ born' = born + 1 /\ i \in DOMAIN users'
        /\ UsersOK(users', born') /\ Proved(users') /\ Follows(users, users', born)
        /\ TokensOK(users', tokens, issued)
    BY <1>1, <1>2, Added
  <1>4. Kept
    BY <1>1, <1>3, Numbers, Bounds, ChangeKept DEF AccountsInv
  <1>5. CookieOK(authenticate_session(users', i), users', born')
    BY <1>1, <1>3, Numbers, AuthenticatedOK
  <1>6. QED
    BY <1>1, <1>2, <1>4, <1>5, AnswerWrites, ServingStep

\* A token is issued for an account as it is: Resend, Forgot, AdminSends.
LEMMA SendsKeeps ==
    ASSUME IInv, NEW b \in Browsers, NEW i \in DOMAIN users, NEW p \in PURPOSES,
           Serving, CanIssue, issue_token(tokens, users, i, p),
           Await(b, cookie[b], {issued + 1}), UNCHANGED <<users, born>>
    PROVE  IInv'
  <1>1. AccountsInv /\ CookiesInv /\ mode' = mode /\ born \in Nat /\ born <= MaxAccounts
    BY DEF IInv, Serving, AccountsInv
  <1>2. issued' = issued + 1 /\ issued' \in 0..MaxTokens[mode.required]
        /\ {issued + 1} \in SUBSET Nat /\ issued \in Nat
    BY <1>1, Issues
  <1>3. TokensOK(users, tokens', issued + 1)
    BY <1>1, <1>2, Issuing DEF AccountsInv
  <1>4. Follows(users, users, born)
    BY <1>1, Numbers DEF Follows
  <1>5. Kept
    BY <1>1, <1>2, <1>3, <1>4, ChangeKept DEF AccountsInv
  <1>6. CookieOK(cookie[b], users', born')
    BY <1>1 DEF CookiesInv
  <1>7. QED
    BY <1>1, <1>2, <1>5, <1>6, AwaitWrites, ServingStep

LEMMA ConfirmKeeps ==
    ASSUME IInv, NEW b \in Browsers, ConfirmVerification(b)
    PROVE  IInv'
  <1> DEFINE t == cookie[b].staged[VERIFY_EMAIL]
             i == tokens[t].user
  <1>1. /\ AccountsInv /\ CookiesInv /\ Serving /\ mode' = mode
        /\ UNCHANGED <<born, issued>>
    BY DEF IInv, ConfirmVerification, Serving
  <1>2. /\ t \in DOMAIN tokens /\ i \in DOMAIN users /\ tokens[t].email = users[i].email
        /\ tokens' = [tokens EXCEPT ![t].used = TRUE]
        /\ users' = [users EXCEPT ![i].verified = TRUE, ![i].proved = tokens[t].email]
        /\ Answer(b, authenticate_session(users', i))
    BY DEF ConfirmVerification, consumable, token_is_valid
  <1> HIDE DEF t, i
  <1>3. TokensOK(users, tokens', issued)
    BY <1>1, <1>2, Spent DEF AccountsInv
  <1>4. /\ UsersOK(users', born) /\ Proved(users') /\ Follows(users, users', born)
        /\ DOMAIN users' = DOMAIN users /\ TokensOK(users', tokens', issued)
    BY <1>1, <1>2, <1>3, Confirmed
  <1>5. Kept
    BY <1>1, <1>4, Numbers, Bounds, ChangeKept DEF AccountsInv
  <1>6. CookieOK(authenticate_session(users', i), users', born')
    BY <1>1, <1>2, <1>4, Numbers, AuthenticatedOK
  <1>7. QED
    BY <1>1, <1>2, <1>5, <1>6, AnswerWrites, ServingStep

LEMMA ResetKeeps ==
    ASSUME IInv, NEW b \in Browsers, ResetPassword(b)
    PROVE  IInv'
  <1> DEFINE t == cookie[b].staged[RESET_PASSWORD]
             i == tokens[t].user
             ts == [tokens EXCEPT ![t].used = TRUE]
  <1>1. /\ AccountsInv /\ CookiesInv /\ Serving /\ mode' = mode
        /\ UNCHANGED <<born, issued>>
    BY DEF IInv, ResetPassword, Serving
  <1>2. /\ t \in DOMAIN tokens /\ i \in DOMAIN users /\ CanChange(i)
        /\ users' = NewPassword(users, i)
        /\ tokens' = revoke_tokens(ts, i, {RESET_PASSWORD})
        /\ Await(b, Cleared, {})
    BY DEF ResetPassword, consumable, token_is_valid
  <1>3. TokensOK(users, ts, issued)
    BY <1>1, <1>2, Spent DEF AccountsInv
  <1> HIDE DEF t, i, ts
  <1>4. /\ UsersOK(users', born) /\ Proved(users') /\ Follows(users, users', born)
        /\ TokensOK(users', tokens', issued)
    BY <1>1, <1>2, <1>3, Repassed
  <1>5. Kept
    BY <1>1, <1>4, Numbers, Bounds, ChangeKept DEF AccountsInv
  <1>6. CookieOK(Cleared, users', born') /\ {} \in SUBSET Nat
    BY <1>1, <1>4, Numbers, ClearedOK
  <1>7. QED
    BY <1>1, <1>2, <1>5, <1>6, AwaitWrites, ServingStep

LEMMA ProfilePasswordKeeps ==
    ASSUME IInv, NEW b \in Browsers, NEW i \in DOMAIN users, ProfilePassword(b, i)
    PROVE  IInv'
  <1>1. /\ AccountsInv /\ CookiesInv /\ Serving /\ mode' = mode
        /\ UNCHANGED <<born, issued>> /\ CanChange(i)
        /\ users' = NewPassword(users, i)
        /\ tokens' = revoke_tokens(tokens, i, {RESET_PASSWORD})
        /\ Answer(b, Cleared)
    BY DEF IInv, ProfilePassword, Serving
  <1>2. /\ UsersOK(users', born) /\ Proved(users') /\ Follows(users, users', born)
        /\ TokensOK(users', tokens', issued)
    BY <1>1, Repassed DEF AccountsInv
  <1>3. Kept
    BY <1>1, <1>2, Numbers, Bounds, ChangeKept DEF AccountsInv
  <1>4. CookieOK(Cleared, users', born')
    BY <1>1, <1>2, Numbers, ClearedOK
  <1>5. QED
    BY <1>1, <1>3, <1>4, AnswerWrites, ServingStep

LEMMA DeleteProfileKeeps ==
    ASSUME IInv, NEW b \in Browsers, NEW i \in DOMAIN users, DeleteProfile(b, i)
    PROVE  IInv'
  <1>1. /\ AccountsInv /\ CookiesInv /\ Serving /\ mode' = mode
        /\ UNCHANGED <<born, issued>>
        /\ users' = Without(users, {i}) /\ tokens' = CascadedTokens(i)
        /\ Answer(b, Cleared)
    BY DEF IInv, DeleteProfile, Serving
  <1>2. /\ UsersOK(users', born) /\ Proved(users') /\ Follows(users, users', born)
        /\ TokensOK(users', tokens', issued)
    BY <1>1, Removed
  <1>3. Kept
    BY <1>1, <1>2, Numbers, Bounds, ChangeKept DEF AccountsInv
  <1>4. CookieOK(Cleared, users', born')
    BY <1>1, <1>2, Numbers, ClearedOK
  <1>5. QED
    BY <1>1, <1>3, <1>4, AnswerWrites, ServingStep

\* A new address, by its owner or an administrator, with what is mailed for it.
LEMMA NewAddress ==
    ASSUME IInv, Serving, CanIssue, NEW i \in DOMAIN users, CanChange(i),
           NEW email \in Emails, users' = NewEmail(users, i, email),
           issue_token(DropsTokens(tokens, i), users', i, VERIFY_EMAIL), UNCHANGED born
    PROVE  Kept /\ i \in DOMAIN users' /\ {issued + 1} \in SUBSET Nat
  <1>1. AccountsInv /\ mode' = mode
    BY DEF IInv, Serving
  <1>2. /\ UsersOK(users', born) /\ Proved(users') /\ Follows(users, users', born)
        /\ DOMAIN users' = DOMAIN users
        /\ TokensOK(users', DropsTokens(tokens, i), issued)
    BY <1>1, Emailed
  <1>3. issued' = issued + 1 /\ issued' \in 0..MaxTokens[mode.required]
        /\ {issued + 1} \in SUBSET Nat /\ issued \in Nat
    BY <1>1, Issues
  <1>4. TokensOK(users', tokens', issued')
    <2>1. VERIFY_EMAIL \in PURPOSES /\ i \in DOMAIN users'
      BY <1>2, Bounds
    <2>2. QED
      BY <1>2, <1>3, <2>1, Issuing
  <1>5. Kept
    BY <1>1, <1>2, <1>3, <1>4, Numbers, Bounds, ChangeKept DEF AccountsInv
  <1>6. QED
    BY <1>2, <1>3, <1>5

LEMMA ProfileEmailKeeps ==
    ASSUME IInv, NEW b \in Browsers, NEW i \in DOMAIN users, NEW email \in Emails,
           ProfileEmail(b, i, email)
    PROVE  IInv'
  <1> DEFINE c == [authenticate_session(users', i) EXCEPT !.unverified = i]
  <1>1. Serving /\ Await(b, c, {issued + 1})
    BY DEF ProfileEmail
  <1>2. Kept /\ i \in DOMAIN users' /\ {issued + 1} \in SUBSET Nat
    BY NewAddress DEF ProfileEmail
  <1>3. /\ UsersOK(users', born') /\ born' \in Nat /\ i \in 0..MaxAccounts
    BY <1>2, Bounds DEF Kept, AccountsInv, UsersOK
  <1>4. CookieOK(c, users', born')
    BY <1>2, <1>3, AuthenticatedOK, UnverifiedOK
  <1> HIDE DEF c
  <1>5. QED
    BY <1>1, <1>2, <1>4, AwaitWrites, ServingStep DEF IInv

LEMMA AdminUpdateEmailKeeps ==
    ASSUME IInv, NEW b \in Browsers, NEW i \in DOMAIN users, NEW email \in Emails,
           AdminUpdateEmail(b, i, email)
    PROVE  IInv'
  <1>1. Serving /\ Await(b, cookie[b], {issued + 1})
    BY DEF AdminUpdateEmail
  <1>2. Kept /\ {issued + 1} \in SUBSET Nat
    BY NewAddress DEF AdminUpdateEmail
  <1>3. CookieOK(cookie[b], users', born')
    BY <1>2, OthersStay DEF IInv
  <1>4. QED
    BY <1>1, <1>2, <1>3, AwaitWrites, ServingStep DEF IInv

LEMMA RequestsKeep ==
    ASSUME IInv, NEW b \in Browsers, Requests(b)
    PROVE  IInv'
  <1>1. CASE \/ Visit(b) \/ Logout(b) \/ \E i \in DOMAIN users : Login(b, i)
             \/ \E t \in DOMAIN tokens : Follow(b, t)
             \/ \E p \in PURPOSES : Dropped(b, p)
    BY <1>1, BrowsingKeeps
  <1>2. CASE ConfirmVerification(b) \/ ResetPassword(b)
    BY <1>2, ConfirmKeeps, ResetKeeps
  <1>3. CASE \E e \in Emails : Register(b, e) \/ RegisterVerified(b, e)
    BY <1>3, RegisterKeeps, RegisterVerifiedKeeps
  <1>4. CASE \E i \in DOMAIN users :
                \/ Resend(b, i) \/ Forgot(b, i) \/ \E p \in PURPOSES : AdminSends(b, i, p)
    <2>1. VERIFY_EMAIL \in PURPOSES /\ RESET_PASSWORD \in PURPOSES
      BY Bounds
    <2>2. QED
      BY <1>4, <2>1, SendsKeeps DEF Resend, Forgot, AdminSends
  <1>5. CASE \E i \in DOMAIN users : ProfilePassword(b, i) \/ DeleteProfile(b, i)
    BY <1>5, ProfilePasswordKeeps, DeleteProfileKeeps
  <1>6. CASE \E i \in DOMAIN users, e \in Emails :
                ProfileEmail(b, i, e) \/ AdminUpdateEmail(b, i, e)
    BY <1>6, ProfileEmailKeeps, AdminUpdateEmailKeeps
  <1>7. QED
    BY <1>1, <1>2, <1>3, <1>4, <1>5, <1>6 DEF Requests

---------------------------------------------------------------------------
(***************************************************************************)
(* Mail, the process, and recovery.                                        *)
(***************************************************************************)

LEMMA MailEndsKeeps == ASSUME IInv, NEW b \in Browsers, MailEnds(b) PROVE IInv'
  <1>1. /\ cookie' = [cookie EXCEPT ![b] = reply[b].cookie]
        /\ reply' = [reply EXCEPT ![b] = NoReply]
        /\ UNCHANGED <<mode, prompt, up, stops>> /\ SameAccounts
    BY DEF MailEnds, SameAccounts
  <1>2. Kept
    BY <1>1, SameKept DEF IInv
  <1>3. /\ CookieOK(reply[b].cookie, users', born')
        /\ UsersOK(users', born') /\ born' \in Nat
    BY <1>2, OthersStay, Bounds DEF IInv, Kept, AccountsInv
  <1>4. CookieOK(Cleared, users', born')
    BY <1>3, ClearedOK
  <1>5. NoReply \in Response /\ NoReply.cookie = Cleared
    BY <1>4 DEF NoReply, Response, CookieOK
  <1>6. reply[b].cookie \in Cookie
    BY <1>3 DEF CookieOK
  <1>7. /\ cookie' \in [Browsers -> Cookie] /\ cookie'[b] = reply[b].cookie
        /\ \A d \in Browsers : d # b => cookie'[d] = cookie[d]
    BY <1>1, <1>6 DEF IInv, CookiesInv
  <1>8. /\ reply' \in [Browsers -> Response] /\ reply'[b] = NoReply
        /\ \A d \in Browsers : d # b => reply'[d] = reply[d]
    BY <1>1, <1>5 DEF IInv, CookiesInv
  <1>9. \A d \in Browsers : CookieOK(cookie[d], users', born')
                            /\ CookieOK(reply[d].cookie, users', born')
    BY <1>2, OthersStay DEF IInv
  <1>10. CookiesInv'
    <2> SUFFICES ASSUME NEW d \in Browsers
                 PROVE  CookieOK(cookie'[d], users', born')
                        /\ CookieOK(reply'[d].cookie, users', born')
      BY <1>7, <1>8 DEF CookiesInv
    <2>1. CASE d = b
      BY <1>3, <1>4, <1>5, <1>7, <1>8, <2>1
    <2>2. CASE d # b
      BY <1>7, <1>8, <1>9, <2>2
    <2>3. QED
      BY <2>1, <2>2
  <1>11. PromptInv' /\ ProcessInv'
    BY <1>1 DEF IInv, PromptInv, ProcessInv, SameAccounts, accounts
  <1>12. QED
    BY <1>2, <1>10, <1>11 DEF IInv, Kept

LEMMA ProcessEndsKeeps == ASSUME IInv, ProcessEnds PROVE IInv'
  <1>1. /\ up /\ stops < MaxStops /\ up' = FALSE /\ stops' = stops + 1
        /\ reply' = [b \in Browsers |-> NoReply]
        /\ UNCHANGED <<mode, cookie, prompt>> /\ SameAccounts
    BY DEF ProcessEnds, SameAccounts
  <1>2. Kept
    BY <1>1, SameKept DEF IInv
  <1>3. UsersOK(users', born') /\ born' \in Nat
    BY <1>2, Bounds DEF Kept, AccountsInv
  <1>4. CookieOK(Cleared, users', born')
    BY <1>3, ClearedOK
  <1>5. NoReply \in Response /\ NoReply.cookie = Cleared
    BY <1>4 DEF NoReply, Response, CookieOK
  <1>6. CookiesInv'
    BY <1>1, <1>2, <1>4, <1>5, OthersStay DEF IInv, CookiesInv
  <1>7. prompt' = prompt /\ prompt \in Prompt /\ (Alone => prompt = NoPrompt)
    BY <1>1 DEF IInv, PromptInv
  <1>8. stops' \in 0..MaxStops
    BY <1>1, Bounds DEF IInv, ProcessInv
  <1>9. PromptInv' /\ ProcessInv'
    BY <1>1, <1>7, <1>8 DEF PromptInv, ProcessInv
  <1>10. QED
    BY <1>2, <1>6, <1>9 DEF IInv, Kept

\* When recovery runs alone the server starts only with nobody asked what to recover.
LEMMA StartingStep ==
    ASSUME IInv, Starting, Kept, up' \in BOOLEAN PROVE IInv'
  <1>1. /\ prompt' = prompt /\ (Alone => prompt = NoPrompt)
        /\ stops' = stops /\ UNCHANGED <<cookie, reply>>
    BY DEF Starting, Alone
  <1>2. CookiesInv'
    BY <1>1, NothingWritten DEF IInv
  <1>3. PromptInv' /\ ProcessInv'
    BY <1>1 DEF IInv, PromptInv, ProcessInv
  <1>4. QED
    BY <1>2, <1>3 DEF IInv, Kept

LEMMA StartKeeps == ASSUME IInv, Start PROVE IInv'
  <1>1. Starting /\ SameAccounts /\ up' = TRUE /\ mode' = mode
    BY DEF Start, Starting
  <1>2. Kept
    BY <1>1, SameKept DEF IInv
  <1>3. QED
    BY <1>1, <1>2, StartingStep

LEMMA BootstrapKeeps ==
    ASSUME IInv, NEW delivered \in BOOLEAN, Bootstrap(delivered) PROVE IInv'
  <1>1. /\ AccountsInv /\ Starting /\ mode' = mode /\ born < MaxAccounts /\ Bootstrapped
    BY DEF IInv, Bootstrap, Starting
  <1>2. /\ born' \in {born, born + 1}
        /\ UsersOK(users', born') /\ Proved(users') /\ Follows(users, users', born)
        /\ TokensOK(users', tokens, issued)
    BY <1>1, BootstrappedOK
  <1>3. born' <= MaxAccounts /\ VERIFY_EMAIL \in PURPOSES
    BY <1>1, <1>2, Numbers, Bounds
  <1>4. CASE mode.required
    <2>1. PICK i \in DOMAIN users' : issue_token(tokens, users', i, VERIFY_EMAIL)
      BY <1>4 DEF Bootstrap
    <2>2. CanIssue /\ up' = delivered
      BY <1>4 DEF Bootstrap
    <2>3. issued' = issued + 1 /\ issued' \in 0..MaxTokens[mode.required] /\ issued \in Nat
      BY <1>1, <2>2, Issues
    <2>4. TokensOK(users', tokens', issued')
      BY <1>2, <1>3, <2>1, <2>3, Issuing
    <2>5. Kept
      BY <1>1, <1>2, <1>3, <2>3, <2>4, ChangeKept
    <2>6. QED
      BY <1>1, <2>2, <2>5, StartingStep
  <1>5. CASE ~mode.required
    <2>1. up' = TRUE /\ UNCHANGED <<tokens, issued>>
      BY <1>5 DEF Bootstrap
    <2>2. Kept
      BY <1>1, <1>2, <1>3, <2>1, ChangeKept DEF AccountsInv
    <2>3. QED
      BY <1>1, <2>1, <2>2, StartingStep
  <1>6. QED
    BY <1>4, <1>5

LEMMA RecoverReadsKeeps ==
    ASSUME IInv, NEW i \in DOMAIN users, RecoverReads(i) PROVE IInv'
  <1>1. /\ Alone => ~up
        /\ UNCHANGED <<mode, cookie, reply, up, stops>> /\ SameAccounts
        /\ prompt' = [user |-> i, version |-> users[i].version,
                      verified |-> users[i].verified, email |-> users[i].email]
    BY DEF RecoverReads, SameAccounts, Alone
  <1>2. Kept
    BY <1>1, SameKept DEF IInv
  <1>3. CookiesInv'
    BY <1>1, <1>2, NothingWritten DEF IInv
  <1>4. prompt' \in Prompt
    BY <1>1, Numbers DEF IInv, User, Prompt
  <1>5. PromptInv' /\ ProcessInv'
    BY <1>1, <1>4 DEF IInv, PromptInv, ProcessInv, SameAccounts, accounts
  <1>6. QED
    BY <1>2, <1>3, <1>5 DEF IInv, Kept

LEMMA RecoverWritesKeeps ==
    ASSUME IInv, NEW email \in Emails \cup {"none"}, NEW password \in BOOLEAN,
           RecoverWrites(email, password)
    PROVE  IInv'
  <1> DEFINE i == prompt.user
  <1>1. /\ AccountsInv /\ PromptInv /\ prompt # NoPrompt /\ prompt.version < MaxVersion
        /\ prompt' = NoPrompt /\ UNCHANGED <<mode, cookie, reply, up, stops, born, issued>>
    BY DEF IInv, RecoverWrites
  <1>2. Kept
    <2>1. CASE UNCHANGED <<users, tokens>>
      BY <1>1, <2>1, SameKept DEF SameAccounts, accounts
    <2>2. CASE /\ i \in DOMAIN users
               /\ users' = [users EXCEPT ![i] = Recovered(@, email, password)]
               /\ tokens' = DropsTokens(tokens, i)
      <3>1. /\ UsersOK(users', born) /\ Proved(users') /\ Follows(users, users', born)
            /\ TokensOK(users', tokens', issued)
        BY <1>1, <2>2, RecoveredOK
      <3>2. QED
        BY <1>1, <3>1, Numbers, Bounds, ChangeKept DEF AccountsInv
    <2>3. QED
      BY <2>1, <2>2 DEF RecoverWrites
  <1>3. CookiesInv'
    BY <1>1, <1>2, NothingWritten DEF IInv
  <1>4. PromptInv' /\ ProcessInv'
    BY <1>1, Bounds DEF IInv, PromptInv, ProcessInv, Prompt, NoPrompt
  <1>5. QED
    BY <1>2, <1>3, <1>4 DEF IInv, Kept

LEMMA NextKeeps == IInv /\ [Next]_vars => IInv'
  <1> SUFFICES ASSUME IInv, [Next]_vars PROVE IInv'
    OBVIOUS
  <1>1. CASE UNCHANGED vars
    <2>1. /\ UNCHANGED <<mode, cookie, reply, prompt, up, stops, users, tokens, born, issued>>
      BY <1>1 DEF vars
    <2>2. Kept
      BY <2>1, SameKept DEF IInv, SameAccounts, accounts
    <2>3. CookiesInv'
      BY <2>1, <2>2, NothingWritten DEF IInv
    <2>4. PromptInv' /\ ProcessInv'
      BY <2>1 DEF IInv, PromptInv, ProcessInv
    <2>5. QED
      BY <2>2, <2>3, <2>4 DEF IInv, Kept
  <1>2. CASE \E b \in Browsers : Requests(b) \/ MailEnds(b)
    BY <1>2, RequestsKeep, MailEndsKeeps
  <1>3. CASE ProcessEnds \/ Start
    BY <1>3, ProcessEndsKeeps, StartKeeps
  <1>4. CASE \E sent \in BOOLEAN : Bootstrap(sent)
    BY <1>4, BootstrapKeeps
  <1>5. CASE \E i \in DOMAIN users : RecoverReads(i)
    BY <1>5, RecoverReadsKeeps
  <1>6. CASE \E e \in Emails \cup {"none"}, p \in BOOLEAN : RecoverWrites(e, p)
    BY <1>6, RecoverWritesKeeps
  <1>7. QED
    BY <1>1, <1>2, <1>3, <1>4, <1>5, <1>6 DEF Next

---------------------------------------------------------------------------
\* What every request, mail, start and recovery keeps of accounts, tokens and cookies
\* (main.py:982-1510, 2236-2357, identity.py:18-80, admin_cli.py:15-45).
THEOREM Invariance == Spec => []IInv
  BY InitOK, NextKeeps, PTL DEF Spec

\* Every variable keeps its type, and no token outlives its account (models.py:44).
THEOREM TypeCorrect == Spec => []TypeOK
  <1>1. IInv => TypeOK
    BY Bounds DEF IInv, AccountsInv, CookiesInv, ProcessInv, UsersOK, TokensOK, Issuable,
                  CookieOK, PromptInv, TypeOK
  <1>2. QED
    BY <1>1, Invariance, PTL

\* Of all links mailed to an account for one purpose at most one is unused (tokens.py:21).
THEOREM OneTokenLives == Spec => []OneLiveToken
  <1>1. IInv => OneLiveToken
    BY DEF IInv, AccountsInv, TokensOK, OneLive, OneLiveToken
  <1>2. QED
    BY <1>1, Invariance, PTL

\* No unused token outlives the change of address or password that voids it
\* (main.py:1275, 1409, tokens.py:74).
THEOREM TokensAreCurrent == Spec => []UnusedTokenIsCurrent
  <1>1. IInv => UnusedTokenIsCurrent
    BY DEF IInv, AccountsInv, TokensOK, Current, UnusedTokenIsCurrent
  <1>2. QED
    BY <1>1, Invariance, PTL

\* Where verification is required an account is verified only for the address whose
\* link was confirmed (main.py:1160, 1407, identity.py:63).
THEOREM VerifiedIsProved == ~RecoveryOverlaps /\ Spec => []VerifiedEmailWasProved
  <1> SUFFICES ASSUME ~RecoveryOverlaps PROVE Spec => []VerifiedEmailWasProved
    OBVIOUS
  <1>1. IInv => VerifiedEmailWasProved
    BY DEF IInv, AccountsInv, Proved, VerifiedEmailWasProved, Alone
  <1>2. QED
    BY <1>1, Invariance, PTL

\* The cookie of an account that is there, also one on its way in a late response,
\* opens no other, and only while address and password are those it was given for; an
\* accepted cookie that was given for others is one of a deleted account, whose row id
\* has come back (auth.py:35, identity.py:26, models.py:28, 36).
THEOREM SessionsAreCurrent == ~RecoveryOverlaps /\ Spec => []SessionIsCurrent
  <1> SUFFICES ASSUME ~RecoveryOverlaps PROVE Spec => []SessionIsCurrent
    OBVIOUS
  <1>1. IInv => SessionIsCurrent
    <2> SUFFICES ASSUME IInv, NEW c, CookieOK(c, users, born), current_user(c), ~Orphaned(c)
                 PROVE  c.as = Credentials(users[c.user])
      BY DEF IInv, CookiesInv, SessionIsCurrent
    <2>1. PICK i \in DOMAIN users : users[i].born = c.as.born
      BY DEF Orphaned
    <2>2. c.user = i /\ (c.version = users[i].version => c.as = Credentials(users[i]))
      BY <2>1 DEF CookieOK, Alone
    <2>3. QED
      BY <2>2 DEF current_user
  <1>2. QED
    BY <1>1, Invariance, PTL

LEMMA ServersServe ==
    ASSUME NEW b \in Browsers, Requests(b) \/ MailEnds(b)
    PROVE  up
  BY DEF Requests, MailEnds, Serving, Visit, Login, Logout, CanRegister, Register,
     RegisterVerified, Resend, Follow, Dropped, ConfirmVerification, Forgot, ResetPassword,
     ProfileEmail, ProfilePassword, DeleteProfile, AdminSends, AdminUpdateEmail

LEMMA ComesUpWithAdmin ==
    ASSUME IInv, \A m \in Modes : m.production => m.required,
           [Next]_vars, ~up, up', mode.production
    PROVE  HasAdmin(users')
  <1>1. mode.required
    BY DEF IInv, AccountsInv
  <1>2. CASE Start
    BY <1>2 DEF Start, MayStartBare, SameAccounts, accounts
  <1>3. CASE \E sent \in BOOLEAN : Bootstrap(sent)
    BY <1>1, <1>3 DEF Bootstrap, HasAdmin
  <1>4. CASE \E b \in Browsers : Requests(b) \/ MailEnds(b)
    BY <1>4, ServersServe
  <1>5. CASE ProcessEnds
    BY <1>5 DEF ProcessEnds
  <1>6. CASE \E i \in DOMAIN users : RecoverReads(i)
    BY <1>6 DEF RecoverReads
  <1>7. CASE \E e \in Emails \cup {"none"}, p \in BOOLEAN : RecoverWrites(e, p)
    BY <1>7 DEF RecoverWrites
  <1>8. CASE UNCHANGED vars
    BY <1>8 DEF vars
  <1>9. QED
    BY <1>2, <1>3, <1>4, <1>5, <1>6, <1>7, <1>8 DEF Next

\* Where production requires verification, it comes up only with an administrator in the
\* database, wherever earlier starts and mails ended (identity.py:47-80).
THEOREM ComesUpAdministered ==
    (\A m \in Modes : m.production => m.required) /\ Spec => StartsWithAdmin
  <1> SUFFICES ASSUME \A m \in Modes : m.production => m.required
               PROVE  Spec => StartsWithAdmin
    OBVIOUS
  <1>1. IInv /\ [Next]_vars => [~up /\ up' /\ mode.production => HasAdmin(users')]_vars
    BY ComesUpWithAdmin
  <1>2. QED
    BY <1>1, Invariance, PTL DEF Spec, StartsWithAdmin
=============================================================================
