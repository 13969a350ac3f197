------------------------------ MODULE Identity ------------------------------
(***************************************************************************)
(* Accounts, the tokens mailed to them, and the cookies of browsers:       *)
(* registration, login, e-mail verification, password reset, the profile,  *)
(* the administrator's actions, the bootstrap of the first administrator   *)
(* and the recovery command.                                               *)
(*                                                                         *)
(* Every handler that writes runs on the event loop and has committed when *)
(* it first awaits, which is to send a mail: an action is a handler up to  *)
(* there. Its response, which writes the browser's cookie anew, waits in   *)
(* `reply` for the mail to be sent or refused. The recovery command is a   *)
(* process of its own, which reads the administrator and then asks a human *)
(* what to change.                                                         *)
(*                                                                         *)
(* Requests that change nothing (a wrong password, an address in use, a    *)
(* refusal by the rate limiter before anything is read) are steps that     *)
(* stutter. A definition that stands directly above the one it varies,     *)
(* with no comment of its own, is a wrong version of it.                   *)
(***************************************************************************)
EXTENDS Naturals, FiniteSets

CONSTANTS
    Browsers,
    Emails,                 \* addresses, after normalize_email
    DEFAULT_ADMIN_EMAIL,
    Modes,                  \* the settings a deployment may have
    MAX_USERS,
    RecoveryOverlaps,       \* is the recovery command run beside the server?
    MaxAccounts,            \* bound on accounts ever made
    MaxTokens,              \* bound on tokens ever issued, by mode.required
    MaxVersion,             \* bound on changes of one account
    MaxStops                \* bound on process ends

ASSUME IdentityAssumption ==
    /\ DEFAULT_ADMIN_EMAIL \in Emails /\ "none" \notin Emails
    /\ Modes \subseteq [required : BOOLEAN, production : BOOLEAN] /\ Modes # {}
    /\ MAX_USERS \in Nat /\ MaxAccounts \in Nat /\ MaxTokens \in [BOOLEAN -> Nat]
    /\ MaxVersion \in Nat \ {0} /\ MaxStops \in Nat
    /\ RecoveryOverlaps \in BOOLEAN

VARIABLES
    mode,       \* EMAIL_VERIFICATION_REQUIRED, APP_ENV
    users,      \* by row id
    tokens,     \* by row id
    cookie,     \* per browser
    reply,      \* per browser: the response that waits for a mail
    prompt,     \* the administrator as the recovery command has read it
    up, stops,
    born, issued    \* accounts made and tokens issued so far

vars == <<mode, users, tokens, cookie, reply, prompt, up, stops, born, issued>>
accounts == <<users, tokens, born, issued>>

---------------------------------------------------------------------------
VERIFY_EMAIL == "verify_email"
RESET_PASSWORD == "reset_password"
PURPOSES == {VERIFY_EMAIL, RESET_PASSWORD}

\* Ghosts: `born` tells accounts apart that had the same row id, `proved` is
\* the address whose verification link the account was last confirmed by.
\* A new password is another than any before: `password` counts them.
User == [born : 1..MaxAccounts, email : Emails, password : Nat \ {0},
         verified : BOOLEAN, admin : BOOLEAN, version : 1..MaxVersion,
         proved : Emails \cup {"none"}]

\* `hash` stands for the secret in the link. Expiry is no state: at every check a
\* token may turn out to be expired. Ghost: the account's version at issue.
Token == [user : 1..MaxAccounts, purpose : PURPOSES, hash : Nat \ {0},
          email : Emails, used : BOOLEAN, version : 1..MaxVersion]

\* user_id and session_version, unverified_user_id, and the ids of the tokens
\* staged by a link; 0 is an absent key. Ghost: what the account was like when
\* the browser was authenticated.
Nobody == [born |-> 0, email |-> "none", password |-> 0]
Credentials(u) == [born |-> u.born, email |-> u.email, password |-> u.password]
Cookie == [user : 0..MaxAccounts, version : 0..MaxVersion,
           unverified : 0..MaxAccounts,
           staged : [PURPOSES -> Nat],
           as : [born : 0..MaxAccounts, email : Emails \cup {"none"},
                 password : Nat]]
Cleared == [user |-> 0, version |-> 0, unverified |-> 0,
            staged |-> [p \in PURPOSES |-> 0], as |-> Nobody]

Prompt == [user : 0..MaxAccounts, version : 0..MaxVersion, verified : BOOLEAN,
           email : Emails \cup {"none"}]

NoReply == [waits |-> FALSE, cookie |-> Cleared, link |-> {}]
NoPrompt == [user |-> 0, version |-> 0, verified |-> FALSE, email |-> "none"]

Init ==
    /\ mode \in Modes
    /\ users = << >> /\ tokens = << >>
    /\ cookie = [b \in Browsers |-> Cleared]
    /\ reply = [b \in Browsers |-> NoReply]
    /\ prompt = NoPrompt
    /\ up = FALSE
    /\ stops = 0 /\ born = 0 /\ issued = 0

---------------------------------------------------------------------------
(***************************************************************************)
(* Rows.                                                                   *)
(***************************************************************************)

\* SQLite hands out the id after the highest there is, once more if need be.
IsNext(rows, i) ==
    /\ \A j \in DOMAIN rows : j < i
    /\ i = 1 \/ i - 1 \in DOMAIN rows
With(rows, i, row) ==
    [j \in DOMAIN rows \cup {i} |-> IF j = i THEN row ELSE rows[j]]
Without(rows, gone) == [i \in DOMAIN rows \ gone |-> rows[i]]

HasAdmin(us) == \E i \in DOMAIN us : us[i].admin
InUse(email) == \E i \in DOMAIN users : users[i].email = email
FreeFor(email, i) == \A j \in DOMAIN users \ {i} : users[j].email # email

revoke_tokens(ts, id, purposes) ==
    [t \in DOMAIN ts |->
        IF ts[t].user = id /\ ts[t].purpose \in purposes
        THEN [ts[t] EXCEPT !.used = TRUE] ELSE ts[t]]

NewToken(us, id, purpose) ==
    [user |-> id, purpose |-> purpose, hash |-> issued + 1,
     email |-> us[id].email, used |-> FALSE, version |-> us[id].version]
AddsToken(ts, us, id, purpose) ==
    \E t \in 1..issued + 1 :
        /\ IsNext(ts, t)
        /\ tokens' = With(ts, t, NewToken(us, id, purpose))
issue_token(ts, us, id, purpose) ==
    \E t \in 1..issued + 1 :
        /\ IsNext(ts, t)
        /\ tokens' = With(revoke_tokens(ts, id, {purpose}), t,
                          NewToken(us, id, purpose))

token_is_valid(t, purpose) ==
    /\ t \in DOMAIN tokens
    /\ tokens[t].purpose = purpose /\ ~tokens[t].used

\* A new account, under row id i.
NewUser(i, email, verified, admin) ==
    /\ IsNext(users, i)
    /\ users' = With(users, i, [born |-> born + 1, email |-> email, password |-> 1,
                                verified |-> verified, admin |-> admin, version |-> 1,
                                proved |-> "none"])
    /\ born' = born + 1

EmailOnly(us, i, email) ==
    [us EXCEPT ![i].email = email, ![i].version = @ + 1]
NewEmail(us, i, email) ==
    [us EXCEPT ![i].email = email, ![i].verified = FALSE, ![i].version = @ + 1]

PasswordOnly(us, i) == [us EXCEPT ![i].password = @ + 1]
NewPassword(us, i) == [us EXCEPT ![i].password = @ + 1, ![i].version = @ + 1]

\* What becomes of the tokens of an account whose address has changed.
DropsVerifications(ts, i) == revoke_tokens(ts, i, {VERIFY_EMAIL})
DropsTokens(ts, i) == revoke_tokens(ts, i, PURPOSES)

---------------------------------------------------------------------------
(***************************************************************************)
(* Sessions.                                                               *)
(***************************************************************************)

authenticate_session(us, i) ==
    [Cleared EXCEPT !.user = i, !.version = us[i].version,
                    !.as = Credentials(us[i])]

current_user(c) == c.user \in DOMAIN users /\ c.version = users[c.user].version

verified_user(b, i) ==
    /\ cookie[b].user = i /\ current_user(cookie[b])
    /\ mode.required => users[i].verified
require_admin(b) ==
    \E i \in DOMAIN users : verified_user(b, i) /\ users[i].admin

Answer(b, c) ==
    /\ cookie' = [cookie EXCEPT ![b] = c]
    /\ UNCHANGED reply
\* One request of a browser may be waiting for a mail while others go on.
Await(b, c, mail) ==
    /\ ~reply[b].waits
    /\ reply' = [reply EXCEPT ![b] = [waits |-> TRUE, cookie |-> c, link |-> mail]]
    /\ UNCHANGED cookie

Serving == up /\ UNCHANGED <<mode, prompt, up, stops>>
SameAccounts == UNCHANGED accounts
CanIssue == issued < MaxTokens[mode.required] /\ issued' = issued + 1
CanChange(i) == users[i].version < MaxVersion

\* Any page that asks for the user drops a cookie that is no longer current.
Visit(b) ==
    /\ Serving /\ SameAccounts
    /\ cookie[b].user # 0 /\ ~current_user(cookie[b])
    /\ Answer(b, Cleared)

Login(b, i) ==
    /\ Serving /\ SameAccounts
    /\ i \in DOMAIN users
    /\ Answer(b, IF mode.required /\ ~users[i].verified
                 THEN [Cleared EXCEPT !.unverified = i]
                 ELSE authenticate_session(users, i))

Logout(b) ==
    /\ Serving /\ SameAccounts
    /\ cookie[b] # Cleared
    /\ Answer(b, Cleared)

---------------------------------------------------------------------------
(***************************************************************************)
(* Registration and verification.                                          *)
(***************************************************************************)

CanRegister(email) ==
    /\ Cardinality(DOMAIN users) < MAX_USERS /\ ~InUse(email)
    /\ born < MaxAccounts

Register(b, email) ==
    /\ Serving /\ CanRegister(email)
    /\ mode.required
    /\ CanIssue
    /\ \E i \in 1..MaxAccounts :
          /\ NewUser(i, email, FALSE, FALSE)
          /\ issue_token(tokens, users', i, VERIFY_EMAIL)
          /\ Await(b, [Cleared EXCEPT !.unverified = i], {issued + 1})

RegisterVerified(b, email) ==
    /\ Serving /\ CanRegister(email)
    /\ ~mode.required
    /\ \E i \in 1..MaxAccounts :
          /\ NewUser(i, email, TRUE, FALSE)
          /\ Answer(b, authenticate_session(users', i))
    /\ UNCHANGED <<tokens, issued>>

Resend(b, i) ==
    /\ Serving /\ CanIssue
    /\ i \in DOMAIN users /\ ~users[i].verified
    /\ cookie[b].unverified \in DOMAIN users => i = cookie[b].unverified
    /\ issue_token(tokens, users, i, VERIFY_EMAIL)
    /\ Await(b, cookie[b], {issued + 1})
    /\ UNCHANGED <<users, born>>

Staged(c, purpose, t) == [c EXCEPT !.staged[purpose] = t]

\* Following a link, once it is mailed, keeps its token in the cookie if it is
\* still good, and forgets one that was kept in any case.
Follow(b, t) ==
    /\ Serving /\ SameAccounts
    /\ \A c \in Browsers : tokens[t].hash \notin reply[c].link
    /\ LET p == tokens[t].purpose
       IN  \/ token_is_valid(t, p) /\ Answer(b, Staged(cookie[b], p, t))
           \/ Answer(b, Staged(cookie[b], p, 0))

\* Ten minutes later, or when the confirmation is refused: what was staged is
\* dropped from the cookie before anything is decided.
Dropped(b, purpose) ==
    /\ Serving /\ SameAccounts
    /\ cookie[b].staged[purpose] # 0
    /\ Answer(b, Staged(cookie[b], purpose, 0))

consumable(t, purpose) ==
    /\ token_is_valid(t, purpose)
    /\ tokens[t].user \in DOMAIN users
    /\ tokens[t].email = users[tokens[t].user].email

ConfirmVerification(b) ==
    LET t == cookie[b].staged[VERIFY_EMAIL]
        i == tokens[t].user
    IN  /\ Serving
        /\ t # 0 /\ consumable(t, VERIFY_EMAIL)
        /\ tokens' = [tokens EXCEPT ![t].used = TRUE]
        /\ users' = [users EXCEPT ![i].verified = TRUE,
                                  ![i].proved = tokens[t].email]
        /\ Answer(b, authenticate_session(users', i))
        /\ UNCHANGED <<born, issued>>

---------------------------------------------------------------------------
(***************************************************************************)
(* Password reset, and the profile.                                        *)
(***************************************************************************)

Forgot(b, i) ==
    /\ Serving /\ CanIssue
    /\ i \in DOMAIN users
    /\ issue_token(tokens, users, i, RESET_PASSWORD)
    /\ Await(b, cookie[b], {issued + 1})
    /\ UNCHANGED <<users, born>>

\* The mail that is awaited tells of the change and has no link.
ResetPassword(b) ==
    LET t == cookie[b].staged[RESET_PASSWORD]
        i == tokens[t].user
    IN  /\ Serving
        /\ t # 0 /\ consumable(t, RESET_PASSWORD) /\ CanChange(i)
        /\ users' = NewPassword(users, i)
        /\ tokens' = revoke_tokens([tokens EXCEPT ![t].used = TRUE], i,
                                   {RESET_PASSWORD})
        /\ Await(b, Cleared, {})
        /\ UNCHANGED <<born, issued>>

ProfileEmail(b, i, email) ==
    /\ Serving /\ CanIssue
    /\ i \in DOMAIN users /\ verified_user(b, i) /\ CanChange(i)
    /\ FreeFor(email, i)
    /\ users' = NewEmail(users, i, email)
    /\ issue_token(DropsTokens(tokens, i), users', i, VERIFY_EMAIL)
    /\ Await(b, [authenticate_session(users', i) EXCEPT !.unverified = i],
             {issued + 1})
    /\ UNCHANGED born

ProfilePassword(b, i) ==
    /\ Serving
    /\ i \in DOMAIN users /\ verified_user(b, i) /\ CanChange(i)
    /\ users' = NewPassword(users, i)
    /\ tokens' = revoke_tokens(tokens, i, {RESET_PASSWORD})
    /\ Answer(b, Cleared)
    /\ UNCHANGED <<born, issued>>

KeepsTokens(i) == tokens
CascadedTokens(i) ==
    Without(tokens, {t \in DOMAIN tokens : tokens[t].user = i})

DeleteProfile(b, i) ==
    /\ Serving
    /\ i \in DOMAIN users /\ verified_user(b, i)
    /\ users' = Without(users, {i})
    /\ tokens' = CascadedTokens(i)
    /\ Answer(b, Cleared)
    /\ UNCHANGED <<born, issued>>

---------------------------------------------------------------------------
(***************************************************************************)
(* The administrator's actions on an account.                              *)
(***************************************************************************)

AdminSends(b, i, purpose) ==
    /\ Serving /\ CanIssue
    /\ require_admin(b) /\ i \in DOMAIN users
    /\ issue_token(tokens, users, i, purpose)
    /\ Await(b, cookie[b], {issued + 1})
    /\ UNCHANGED <<users, born>>

AdminUpdateEmail(b, i, email) ==
    /\ Serving /\ CanIssue
    /\ require_admin(b) /\ i \in DOMAIN users /\ CanChange(i)
    /\ FreeFor(email, i)
    /\ users' = NewEmail(users, i, email)
    /\ issue_token(DropsTokens(tokens, i), users', i, VERIFY_EMAIL)
    /\ Await(b, cookie[b], {issued + 1})
    /\ UNCHANGED born

---------------------------------------------------------------------------
(***************************************************************************)
(* Mail, time, and the process.                                            *)
(***************************************************************************)

\* Delivered or not, the response goes out with the same cookie.
MailEnds(b) ==
    /\ up /\ reply[b].waits
    /\ cookie' = [cookie EXCEPT ![b] = reply[b].cookie]
    /\ reply' = [reply EXCEPT ![b] = NoReply]
    /\ UNCHANGED <<mode, accounts, prompt, up, stops>>

ProcessEnds ==
    /\ up /\ stops < MaxStops
    /\ up' = FALSE /\ stops' = stops + 1
    /\ reply' = [b \in Browsers |-> NoReply]
    /\ UNCHANGED <<mode, accounts, cookie, prompt>>

Starting ==
    /\ ~up
    /\ RecoveryOverlaps \/ prompt = NoPrompt
    /\ UNCHANGED <<mode, cookie, reply, prompt, stops>>

\* With an administrator, or without one outside production when the
\* environment names none, there is nothing to do.
NeverRefuses == TRUE
MayStartBare == HasAdmin(users) \/ ~mode.production
Start ==
    /\ Starting /\ MayStartBare
    /\ up' = TRUE
    /\ SameAccounts

\* The account of the default administrator before its mail is sent. One that
\* needs neither a mail nor the mark is promoted and never committed.
Promoted(u) ==
    IF u.email = DEFAULT_ADMIN_EMAIL /\ (mode.required \/ ~u.verified)
    THEN [u EXCEPT !.admin = TRUE, !.verified = @ \/ ~mode.required]
    ELSE u
Bootstrapped ==
    IF InUse(DEFAULT_ADMIN_EMAIL)
    THEN /\ users' = [i \in DOMAIN users |-> Promoted(users[i])]
         /\ UNCHANGED born
    ELSE \E i \in 1..MaxAccounts :
            NewUser(i, DEFAULT_ADMIN_EMAIL, ~mode.required, TRUE)

\* A mail that is not sent ends the start, with the administrator committed.
Bootstrap(delivered) ==
    /\ Starting /\ ~HasAdmin(users)
    /\ born < MaxAccounts
    /\ Bootstrapped
    /\ IF mode.required
       THEN /\ CanIssue
            /\ \E i \in DOMAIN users' :
                 /\ users'[i].admin
                 /\ issue_token(tokens, users', i, VERIFY_EMAIL)
            /\ up' = delivered
       ELSE /\ up' = TRUE
            /\ UNCHANGED <<tokens, issued>>

---------------------------------------------------------------------------
(***************************************************************************)
(* The recovery command.                                                   *)
(***************************************************************************)

RecoverReads(i) ==
    /\ RecoveryOverlaps \/ ~up
    /\ prompt = NoPrompt
    /\ {j \in DOMAIN users : users[j].admin} = {i}
    /\ prompt' = [user |-> i, version |-> users[i].version,
                  verified |-> users[i].verified, email |-> users[i].email]
    /\ UNCHANGED <<mode, accounts, cookie, reply, up, stops>>

\* Only columns that differ from what was read are written; "none" is left blank.
\* The version is the one that was read, plus one.
Recovered(u, email, password) ==
    [u EXCEPT !.email = IF email \in {"none", prompt.email} THEN @ ELSE email,
              !.verified = @ /\ (email = "none" \/ ~prompt.verified),
              !.password = IF password THEN @ + 1 ELSE @,
              !.version = prompt.version + 1]
RecoverWrites(email, password) ==
    LET i == prompt.user
    IN  /\ prompt # NoPrompt /\ prompt.version < MaxVersion
        /\ prompt' = NoPrompt
        /\ IF /\ i \in DOMAIN users /\ FreeFor(email, i)
              /\ email # "none" \/ password
           THEN /\ users' = [users EXCEPT ![i] = Recovered(@, email, password)]
                /\ tokens' = DropsTokens(tokens, i)
           ELSE UNCHANGED <<users, tokens>>
        /\ UNCHANGED <<mode, cookie, reply, up, stops, born, issued>>

---------------------------------------------------------------------------
Requests(b) ==
    \/ Visit(b) \/ Logout(b) \/ ConfirmVerification(b) \/ ResetPassword(b)
    \/ \E t \in DOMAIN tokens : Follow(b, t)
    \/ \E p \in PURPOSES : Dropped(b, p)
    \/ \E e \in Emails : Register(b, e) \/ RegisterVerified(b, e)
    \/ \E i \in DOMAIN users :
          \/ Login(b, i) \/ Resend(b, i) \/ Forgot(b, i)
          \/ ProfilePassword(b, i) \/ DeleteProfile(b, i)
          \/ \E e \in Emails : ProfileEmail(b, i, e) \/ AdminUpdateEmail(b, i, e)
          \/ \E p \in PURPOSES : AdminSends(b, i, p)

Next ==
    \/ \E b \in Browsers : Requests(b) \/ MailEnds(b)
    \/ ProcessEnds \/ Start
    \/ \E sent \in BOOLEAN : Bootstrap(sent)
    \/ \E i \in DOMAIN users : RecoverReads(i)
    \/ \E e \in Emails \cup {"none"}, p \in BOOLEAN : RecoverWrites(e, p)

Spec == Init /\ [][Next]_vars

---------------------------------------------------------------------------
(***************************************************************************)
(* Properties.                                                             *)
(***************************************************************************)

\* Every variable has its type, and a token
\* belongs to an account that exists: deletion cascades.
TypeOK ==
    /\ mode \in Modes
    /\ DOMAIN users \subseteq 1..MaxAccounts /\ DOMAIN tokens \subseteq 1..issued
    /\ \A i \in DOMAIN users : users[i] \in User
    /\ \A t \in DOMAIN tokens :
          tokens[t] \in Token /\ tokens[t].user \in DOMAIN users
    /\ cookie \in [Browsers -> Cookie]
    /\ \A b \in Browsers : reply[b].cookie \in Cookie
    /\ prompt \in Prompt
    /\ up \in BOOLEAN /\ stops \in 0..MaxStops
    /\ born \in 0..MaxAccounts /\ issued \in 0..MaxTokens[mode.required]

\* docs/architecture/components/identity-and-sessions.md, "a single active
\* token per purpose": of the links ever mailed to an account for one purpose,
\* whatever was requested by whom and sent when, at most one is still unused.
OneLiveToken ==
    \A s, t \in DOMAIN tokens :
        /\ tokens[s].user = tokens[t].user /\ tokens[s].purpose = tokens[t].purpose
        /\ ~tokens[s].used /\ ~tokens[t].used
        => s = t

\* An unused token was issued for the address the account has now, and an
\* unused reset token after the last change of its password or address: none
\* outlives the change that should have voided it.
UnusedTokenIsCurrent ==
    \A t \in DOMAIN tokens :
        LET u == users[tokens[t].user]
        IN  ~tokens[t].used =>
                /\ tokens[t].email = u.email
                /\ tokens[t].purpose = RESET_PASSWORD => tokens[t].version = u.version

\* Where verification is required, an account counts as verified only for the
\* very address whose link was confirmed: no order of changes of the address by
\* the user, an administrator or recovery, and confirmations under way, leaves
\* it verified for another. Who confirms is left open: a browser that staged a link
\* of a deleted account confirms the token that has got the row id of it since.
VerifiedEmailWasProved ==
    \A i \in DOMAIN users :
        mode.required /\ users[i].verified => users[i].proved = users[i].email

\* The account that the cookie was given for is deleted. Its row id comes back, with
\* session_version 1 (models.py:28, 36), and nothing else in the cookie tells the two
\* accounts apart.
Orphaned(c) == \A i \in DOMAIN users : users[i].born # c.as.born

\* "Every session-invalidating event (password change, email change, reset,
\* admin recovery) goes through the same session_version bump": a cookie that is
\* still accepted, also one that comes with a late response, was given for the
\* address and the password of the account it opens. The exception is the cookie
\* of a deleted account, which the account that got its row id may have to accept;
\* the cookie of an account that is there never opens another.
SessionIsCurrent ==
    \A b \in Browsers : \A c \in {cookie[b], reply[b].cookie} :
        current_user(c) => c.as = Credentials(users[c.user]) \/ Orphaned(c)

\* "refuses to silently start adminless in prod": in production the process
\* comes up only with an administrator in the database.
StartsWithAdmin == [][~up /\ up' /\ mode.production => HasAdmin(users')]_vars

=============================================================================
