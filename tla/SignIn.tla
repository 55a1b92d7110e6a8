------------------------------- MODULE SignIn -------------------------------
(***************************************************************************)
(* Accounts and sign-ins (src/auth, src/common/utils/otp.utils.ts,         *)
(* src/admin-user): sign-up, one-time codes, passwords with their limit of *)
(* failures, Google, tokens that are renewed and revoked.  A request is    *)
(* served query by query and may overlap others.  A contact is a phone     *)
(* number or an email address; the code a customer enters is the number of *)
(* the row it was sent by, 0 for any other.  Passwords and the contents of *)
(* messages are left out; so is the expiry of tokens.                      *)
(***************************************************************************)
EXTENDS Naturals, FiniteSets, Sequences, TLC, Overlay

CONSTANTS
  Users,            \* ids of rows, in the order they will be given
  Phones, Mails,
  HourlyLimit,      \* OTP_HOURLY_LIMIT
  MaxChecks,        \* OTP_MAX_ATTEMPTS
  MaxFailures,      \* MAX_ATTEMPTS
  PasswordAlone,    \* outside production: a password signs in without a code
  MaxCodes, MaxTokens,   \* bounds: rows, tokens issued
  Clerks,           \* requests served at once
  Nobody            \* no account, no contact, no record

ASSUME SignInAssumption ==
  /\ Users \subseteq Nat \ {0}
  /\ {HourlyLimit, MaxChecks, MaxFailures, MaxCodes, MaxTokens} \subseteq Nat \ {0}
  /\ PasswordAlone \in BOOLEAN
  /\ Phones \cap Mails = {} /\ Nobody \notin Phones \cup Mails \cup Users
  /\ Nobody \notin [attempts : Nat, past : BOOLEAN]

VARIABLES
  account,          \* the row of each user
  code,             \* the rows of OTP, oldest first
  attempt,          \* the row of LoginAttempt of each contact
  missed,           \* history: failures since the last success or quarter hour
  token,            \* the tokens issued: whose, and of which sign-in
  revoked,          \* BlackListToken: tokens and sign-ins
  left,             \* history: the sign-ins that were signed out
  serving           \* what is being done about each request

signInVars == <<account, code, attempt, missed, token, revoked, left, serving>>

Contacts == Phones \cup Mails
Kind(to) == IF to \in Phones THEN "phone" ELSE "email"
Free == [op |-> "free"]
Taken == {u \in Users : account[u] # Nobody}
Holder(to) == {u \in Taken : account[u][Kind(to)] = to}
NewRow(phone, email, role, verified, google) ==
  [phone |-> phone, email |-> email, role |-> role, isVerified |-> verified,
   isActive |-> TRUE, googleId |-> google]

\* What can be asked for; requests of a signed-in user carry the user.
Asked ==
  [op : {"register"}, phone : Phones, email : Mails \cup {Nobody}]
    \cup [op : {"login"}, to : Contacts, password : {"right", "wrong", "none"}]
    \cup [op : {"resend"}, to : Contacts]
    \cup [op : {"verify"}, to : Contacts, guess : 0 .. MaxCodes]
    \cup [op : {"update"}, user : Users, to : Contacts, guess : {Nobody} \cup 0 .. MaxCodes]
    \cup [op : {"profile"}, user : Users, to : Contacts]
    \cup [op : {"google"}, email : Mails]
    \cup [op : {"staff"}, phone : Phones, email : Mails]
    \cup [op : {"refresh", "logout"}, token : 1 .. MaxTokens]
    \cup [op : {"active"}, user : Users, isActive : BOOLEAN]

FirstStep(op) ==
  CASE op \in {"register", "google", "staff"} -> "look"
    [] op = "login" -> "check"
    [] op \in {"resend", "verify"} -> "find"
    [] op \in {"update", "profile"} -> "read"
    [] op \in {"refresh", "logout"} -> "admit"
    [] op = "active" -> "write"

SignInInit ==
  /\ account = [u \in Users |-> Nobody]
  /\ code = <<>> /\ token = <<>> /\ revoked = {} /\ left = {}
  /\ attempt = [to \in Contacts |-> Nobody]
  /\ missed = [to \in Contacts |-> 0]
  /\ serving = [w \in Clerks |-> Free]

Receives(w, r) ==
  /\ serving[w] = Free
  /\ "user" \in DOMAIN r => r.user \in Taken
  /\ "token" \in DOMAIN r => r.token \in DOMAIN token
  /\ serving' = [serving EXCEPT ![w] = Over([step |-> FirstStep(r.op)], r)]
  /\ UNCHANGED <<account, code, attempt, missed, token, revoked, left>>

At(w, op, step) == serving[w].op \in op /\ serving[w].step = step
Served(w) == serving' = [serving EXCEPT ![w] = Free]
Then(w, step, more) ==
  serving' = [serving EXCEPT ![w] = Over([step |-> step], Over(more, @))]

-----------------------------------------------------------------------------
(* One-time codes.  The age of a row: up to a minute, up to ten, up to an   *)
(* hour, older.                                                             *)

Live(i) == ~code[i].verified /\ ~code[i].expired /\ code[i].age <= 1
SentTo(u, to) == {i \in DOMAIN code : code[i].user = u /\ code[i].to = to}
Latest(S) == CHOOSE i \in S : \A j \in S : j <= i

Ages(i) ==
  /\ code[i].age < 3 /\ \A j \in 1 .. i - 1 : code[j].age > code[i].age
  /\ code' = [code EXCEPT ![i].age = @ + 1]
  /\ UNCHANGED <<account, attempt, missed, token, revoked, left, serving>>

\* checkOtpSend: a code sent in the last minute is still good; past the hourly
\* limit there are no more.
SendCheck(w) ==
  LET s == serving[w] IN
  /\ s # Free /\ s.step = "send"
  /\ IF \/ \E i \in SentTo(s.holder, s.send) : Live(i) /\ code[i].age = 0
        \/ Cardinality({i \in DOMAIN code : code[i].to = s.send /\ code[i].age < 3}) >= HourlyLimit
     THEN Served(w)
     ELSE Then(w, "expire", <<>>)
  /\ UNCHANGED <<account, code, attempt, missed, token, revoked, left>>

SendExpire(w) ==
  LET s == serving[w] IN
  /\ s # Free /\ s.step = "expire"
  /\ code' = [i \in DOMAIN code |->
       IF code[i].user = s.holder /\ Kind(code[i].to) = Kind(s.send) /\ ~code[i].verified
       THEN [code[i] EXCEPT !.expired = TRUE] ELSE code[i]]
  /\ Then(w, "create", <<>>)
  /\ UNCHANGED <<account, attempt, missed, token, revoked, left>>

SendCreate(w) ==
  LET s == serving[w] IN
  /\ s # Free /\ s.step = "create" /\ Len(code) < MaxCodes
  /\ code' = Append(code, [user |-> s.holder, to |-> s.send, age |-> 0,
                           expired |-> FALSE, verified |-> FALSE, attempts |-> 0])
  /\ Served(w) /\ UNCHANGED <<account, attempt, missed, token, revoked, left>>

ClaimLook(w) ==
  LET s == serving[w]
      usable == {i \in SentTo(s.holder, s.to) : Live(i) /\ code[i].attempts < MaxChecks}
  IN /\ s # Free /\ s.step = "claim"
     /\ IF usable = {} THEN Served(w) ELSE Then(w, "compare", [row |-> Latest(usable)])
     /\ UNCHANGED <<account, code, attempt, missed, token, revoked, left>>

\* Fault variant: the limit was checked when the code was looked up.
ClaimCode_Unconditional(w) ==
  LET s == serving[w] IN
  /\ s # Free /\ s.step = "compare"
  /\ code' = [code EXCEPT ![s.row].attempts = @ + 1]
  /\ IF s.guess = s.row THEN Then(w, "mark", <<>>) ELSE Served(w)
  /\ UNCHANGED <<account, attempt, missed, token, revoked, left>>

\* The attempt is counted by one conditional update, then the code compared.
ClaimCode(w) ==
  LET s == serving[w]
      claimed == ~code[s.row].verified /\ code[s.row].attempts < MaxChecks
  IN /\ s # Free /\ s.step = "compare"
     /\ code' = IF claimed THEN [code EXCEPT ![s.row].attempts = @ + 1] ELSE code
     /\ IF claimed /\ s.guess = s.row THEN Then(w, "mark", <<>>) ELSE Served(w)
     /\ UNCHANGED <<account, attempt, missed, token, revoked, left>>

-----------------------------------------------------------------------------
(* Tokens.                                                                  *)

\* The sign-in (sid) a token belongs to, and the one it goes back to.
NewToken(u, sid, root) == [user |-> u, sid |-> sid, root |-> root]
Issue(t) == Len(token) < MaxTokens /\ token' = Append(token, t)
SignIn(u) == Issue(NewToken(u, Len(token) + 1, Len(token) + 1))

\* JwtStrategy.validate: neither the token nor its sign-in is revoked, and the
\* account is there and active.
Admitted(i) ==
  /\ revoked \cap {<<"jti", i>>, <<"sid", token[i].sid>>} = {}
  /\ account[token[i].user] # Nobody /\ account[token[i].user].isActive

Admit(w) ==
  LET s == serving[w] IN
  /\ At(w, {"refresh", "logout"}, "admit")
  /\ IF Admitted(s.token)
     THEN Then(w, IF s.op = "logout" THEN "revoke" ELSE "renew", <<>>)
     ELSE Served(w)
  /\ UNCHANGED <<account, code, attempt, missed, token, revoked, left>>

\* Fault variant: the renewed token starts a sign-in of its own.
Renewed_NewSid(t) == NewToken(t.user, Len(token) + 1, t.root)

\* refreshSession: the new token belongs to the same sign-in; staff get none.
Renewed(t) == NewToken(t.user, t.sid, t.root)

Refresh(w) ==
  LET t == token[serving[w].token] IN
  /\ At(w, {"refresh"}, "renew")
  /\ IF account[t.user].role = "CUSTOMER" THEN Issue(Renewed(t)) ELSE UNCHANGED token
  /\ Served(w) /\ UNCHANGED <<account, code, attempt, missed, revoked, left>>

\* logout: the token is revoked, and then its sign-in.
Logout(w) ==
  LET i == serving[w].token
      t == token[i]
  IN /\ \/ /\ At(w, {"logout"}, "revoke")
           /\ revoked' = revoked \cup {<<"jti", i>>}
           /\ Then(w, "revokeAll", <<>>) /\ UNCHANGED left
        \/ /\ At(w, {"logout"}, "revokeAll")
           /\ revoked' = revoked \cup {<<"sid", t.sid>>}
           /\ left' = left \cup {t.root} /\ Served(w)
     /\ UNCHANGED <<account, code, attempt, missed, token>>

-----------------------------------------------------------------------------
(* Passwords.                                                               *)

\* A quarter of an hour passes since the last failure.
Quarter(to) ==
  /\ attempt[to] # Nobody /\ ~attempt[to].past
  /\ attempt' = [attempt EXCEPT ![to].past = TRUE]
  /\ missed' = [missed EXCEPT ![to] = 0]
  /\ UNCHANGED <<account, code, token, revoked, left, serving>>

Blocked(a) == a # Nobody /\ a.attempts >= MaxFailures /\ ~a.past

CheckBruteForce(w) ==
  LET to == serving[w].to IN
  /\ \/ /\ At(w, {"login"}, "check") /\ UNCHANGED attempt
        /\ IF Blocked(attempt[to]) THEN Served(w)
           ELSE Then(w, IF attempt[to] # Nobody /\ attempt[to].past THEN "forget" ELSE "find", <<>>)
     \/ /\ At(w, {"login"}, "forget")       \* an error if the row is gone
        /\ IF attempt[to] = Nobody THEN Served(w) ELSE Then(w, "find", <<>>)
        /\ attempt' = [attempt EXCEPT ![to] = Nobody]
  /\ UNCHANGED <<account, code, missed, token, revoked, left>>

\* login: the user is looked up and the password compared; "none" asks for a code.
Login(w) ==
  LET s == serving[w] IN
  /\ At(w, {"login"}, "find")
  /\ IF Holder(s.to) = {} \/ s.password = "wrong"
     THEN Then(w, "recall", <<>>)
     ELSE \E u \in Holder(s.to) : Then(w, "reset", [holder |-> u, seen |-> account[u]])
  /\ UNCHANGED <<account, code, attempt, missed, token, revoked, left>>

\* recordFailedAttempt: the row is read, then written with one more.
RecordFailure(w) ==
  LET s == serving[w] IN
  /\ \/ /\ At(w, {"login"}, "recall") /\ UNCHANGED <<attempt, missed>>
        /\ Then(w, "record", [was |-> attempt[s.to]])
     \/ /\ At(w, {"login"}, "record") /\ Served(w)
        /\ missed' = [missed EXCEPT ![s.to] = @ + 1]
        /\ attempt' = IF (s.was = Nobody) # (attempt[s.to] = Nobody) THEN attempt
             ELSE [attempt EXCEPT ![s.to] =
                     [attempts |-> IF s.was = Nobody THEN 1 ELSE s.was.attempts + 1, past |-> FALSE]]
  /\ UNCHANGED <<account, code, token, revoked, left>>

\* A customer who is not verified goes no further; the others get a code, or
\* outside production their token.
ResetAttempts(w) ==
  LET s == serving[w] IN
  /\ At(w, {"login"}, "reset")
  /\ attempt' = [attempt EXCEPT ![s.to] = Nobody] /\ missed' = [missed EXCEPT ![s.to] = 0]
  /\ CASE s.seen.role = "CUSTOMER" /\ ~s.seen.isVerified -> Served(w) /\ UNCHANGED token
       [] OTHER ->
            IF s.password = "right" /\ PasswordAlone
            THEN SignIn(s.holder) /\ Served(w)
            ELSE Then(w, "send", [send |-> s.to]) /\ UNCHANGED token
  /\ UNCHANGED <<account, code, revoked, left>>

-----------------------------------------------------------------------------
(* Accounts.                                                                *)

\* verifyEmailOrPhone and verifyOtp look the account up by the contact.
Find(w) ==
  LET s == serving[w] IN
  /\ At(w, {"resend", "verify"}, "find")
  /\ IF Holder(s.to) = {} THEN Served(w)
     ELSE \E u \in Holder(s.to) :
            Then(w, IF s.op = "verify" THEN "claim" ELSE "send", [holder |-> u, send |-> s.to])
  /\ UNCHANGED <<account, code, attempt, missed, token, revoked, left>>

\* The code and the account are marked in one transaction; then the token.
Verify(w) ==
  LET s == serving[w] IN
  /\ At(w, {"verify"}, "mark")
  /\ code' = [code EXCEPT ![s.row].verified = TRUE]
  /\ account' = [account EXCEPT ![s.holder].isVerified = TRUE]
  /\ SignIn(s.holder) /\ Served(w)
  /\ UNCHANGED <<attempt, missed, revoked, left>>

\* Fault variant: the owner is not asked about.
MailIsTaken_Never(u) == FALSE

\* register: the phone's owner is looked up, then the email's, which loses it
\* to the new sign-up unless verified.
MailIsTaken(u) == account[u].isVerified

Register(w) ==
  LET s == serving[w]
      others == IF s.email = Nobody THEN {} ELSE Holder(s.email) \ {s.holder}
  IN /\ \/ /\ At(w, {"register"}, "look") /\ UNCHANGED account
           /\ LET owner == Holder(s.phone) IN
              IF \E u \in owner : account[u].isVerified THEN Served(w)
              ELSE Then(w, "mail", [holder |-> IF owner = {} THEN Nobody ELSE CHOOSE u \in owner : TRUE])
        \/ /\ At(w, {"register"}, "mail") /\ UNCHANGED account
           /\ IF \E u \in others : MailIsTaken(u) THEN Served(w)
              ELSE Then(w, IF others = {} THEN "write" ELSE "release", [owner |-> others])
        \/ /\ At(w, {"register"}, "release")
           /\ account' = [u \in Users |->
                IF u \in s.owner THEN [account[u] EXCEPT !.email = Nobody] ELSE account[u]]
           /\ Then(w, "write", <<>>)
     /\ UNCHANGED <<code, attempt, missed, token, revoked, left>>

\* A row is written unless another has its phone or email by now.
NextUser == CHOOSE u \in Users \ Taken : \A v \in Users \ Taken : u <= v
Unique(new) ==
  \A u, v \in Users : u # v /\ new[u] # Nobody /\ new[v] # Nobody =>
    \A field \in {"phone", "email", "googleId"} :
      new[u][field] # Nobody => new[u][field] # new[v][field]
Save(u, row) ==
  LET new == [account EXCEPT ![u] = row] IN account' = IF Unique(new) THEN new ELSE account
Saved(u, row) == Unique([account EXCEPT ![u] = row])

RegisterWrite(w) ==
  LET s == serving[w]
      row == IF s.holder # Nobody THEN [account[s.holder] EXCEPT !.email = s.email]
             ELSE NewRow(s.phone, s.email, "CUSTOMER", FALSE, Nobody)
  IN /\ At(w, {"register"}, "write") /\ (s.holder = Nobody => Taken # Users)
     /\ LET u == IF s.holder # Nobody THEN s.holder ELSE NextUser IN
        /\ Save(u, row)
        /\ IF Saved(u, row) THEN Then(w, "send", [holder |-> u, send |-> s.phone]) ELSE Served(w)
     /\ UNCHANGED <<code, attempt, missed, token, revoked, left>>

\* findOrCreateGoogleUser: by the Google account or the email; a new one is not
\* verified, and gets its token all the same.
Google(w) ==
  LET s == serving[w]
      known == {u \in Taken : account[u].googleId = s.email \/ account[u].email = s.email}
  IN /\ \/ /\ At(w, {"google"}, "look") /\ UNCHANGED <<account, token>>
           /\ \/ known = {} /\ Then(w, "write", [holder |-> Nobody])
              \/ \E u \in known :
                   Then(w, IF account[u].googleId = Nobody THEN "write" ELSE "issue", [holder |-> u])
        \/ /\ At(w, {"google"}, "write") /\ (s.holder = Nobody => Taken # Users) /\ UNCHANGED token
           /\ LET u == IF s.holder = Nobody THEN NextUser ELSE s.holder
                  row == IF s.holder = Nobody THEN NewRow(Nobody, s.email, "CUSTOMER", FALSE, s.email)
                         ELSE [account[u] EXCEPT !.googleId = s.email]
              IN Save(u, row) /\ IF Saved(u, row) THEN Then(w, "issue", [holder |-> u]) ELSE Served(w)
        \/ At(w, {"google"}, "issue") /\ SignIn(s.holder) /\ Served(w) /\ UNCHANGED account
     /\ UNCHANGED <<code, attempt, missed, revoked, left>>

\* createAdminUser: looks for the email and the phone, then creates.
CreateStaff(w) ==
  LET s == serving[w] IN
  /\ \/ /\ At(w, {"staff"}, "look") /\ UNCHANGED account
        /\ IF Holder(s.phone) \cup Holder(s.email) # {} THEN Served(w) ELSE Then(w, "write", <<>>)
     \/ /\ At(w, {"staff"}, "write") /\ Taken # Users
        /\ Save(NextUser, NewRow(s.phone, s.email, "STAFF", TRUE, Nobody)) /\ Served(w)
  /\ UNCHANGED <<code, attempt, missed, token, revoked, left>>

\* update: a new contact needs a code sent to it; updateProfile: it needs none.
Update(w) ==
  LET s == serving[w]
      contact == [account[s.user] EXCEPT ![Kind(s.to)] = s.to]
  IN /\ \/ /\ At(w, {"update"}, "read") /\ UNCHANGED <<account, code>>
           /\ Then(w, CASE account[s.user][Kind(s.to)] = s.to -> "write"
                        [] s.guess = Nobody -> "send"
                        [] OTHER -> "claim", [holder |-> s.user, send |-> s.to])
        \/ /\ At(w, {"update"}, "mark") /\ UNCHANGED account
           /\ code' = [code EXCEPT ![s.row].verified = TRUE] /\ Then(w, "write", <<>>)
        \/ /\ At(w, {"update"}, "write") \/ At(w, {"profile"}, "read")
           /\ Save(s.user, contact) /\ Served(w) /\ UNCHANGED code
     /\ UNCHANGED <<attempt, missed, token, revoked, left>>

\* toggleStatus of staff, suspendUser of a customer.
SetActive(w) ==
  LET s == serving[w] IN
  /\ At(w, {"active"}, "write")
  /\ account' = IF s.isActive /\ account[s.user].role = "CUSTOMER" THEN account
                ELSE [account EXCEPT ![s.user].isActive = s.isActive]
  /\ Served(w) /\ UNCHANGED <<code, attempt, missed, token, revoked, left>>

Serves(w) ==
  \/ SendCheck(w) \/ SendExpire(w) \/ SendCreate(w) \/ ClaimLook(w) \/ ClaimCode(w)
  \/ Admit(w) \/ Refresh(w) \/ Logout(w)
  \/ CheckBruteForce(w) \/ Login(w) \/ RecordFailure(w) \/ ResetAttempts(w)
  \/ Find(w) \/ Verify(w) \/ Register(w) \/ RegisterWrite(w) \/ Google(w)
  \/ CreateStaff(w) \/ Update(w) \/ SetActive(w)

SignInStep ==
  \/ \E w \in Clerks : Serves(w)
  \/ \E i \in DOMAIN code : Ages(i)
  \/ \E to \in Contacts : Quarter(to)

SignInNext == SignInStep \/ \E r \in Asked, w \in Clerks : Receives(w, r)

-----------------------------------------------------------------------------
(* Properties.                                                              *)

SignInTypeOK ==
  /\ \A u \in Taken : account[u].role \in {"CUSTOMER", "STAFF"} /\ Unique(account)
  /\ \A i \in DOMAIN code : code[i].user \in Taken /\ code[i].to \in Contacts
  /\ \A i \in DOMAIN token : token[i].user \in Taken /\ token[i].sid \in 1 .. i
  /\ left \subseteq DOMAIN token

\* However checks of a code race, it is compared no more often than
\* OTP_MAX_ATTEMPTS (otp.utils.ts: "racing requests can't exceed the cap").
ChecksWithinCap == \A i \in DOMAIN code : code[i].attempts <= MaxChecks

\* A phone or an email gets no more than OTP_HOURLY_LIMIT codes in an hour.
CodesWithinCap ==
  \A to \in Contacts :
    Cardinality({i \in DOMAIN code : code[i].to = to /\ code[i].age < 3}) <= HourlyLimit

\* Nor are there more than MAX_ATTEMPTS wrong passwords in a quarter hour.
FailuresWithinCap == \A to \in Contacts : missed[to] <= MaxFailures

\* Once a customer has signed out, no token of that sign-in is admitted any
\* more, a renewal that was under way included (auth.service.ts: "every token
\* ever issued for that sign-in stops working").
SignedOutStays == \A i \in DOMAIN token : token[i].root \in left => ~Admitted(i)

\* An account loses its phone or its email to its own requests alone.
KeepsDetails(u) ==
  \A field \in {"phone", "email"} :
    account[u][field] \notin {account'[u][field], Nobody} =>
      \E w \in Clerks : /\ serving[w].op \in {"update", "profile"} /\ serving[w].user = u
                         /\ serving'[w] = Free
VerifiedKeepsDetails == \A u \in Taken : account[u].isVerified => KeepsDetails(u)

\* Statements that TLC refutes: with requests that overlap, CodesWithinCap,
\* FailuresWithinCap and VerifiedKeepsDetails; and, one request at a time, that
\* who has signed in keeps the email (auth.service.ts: "An unverified sign-up
\* can't sign in, so it has no claim on the email": a Google user can).
SignedInKeepsDetails == \A i \in DOMAIN token : KeepsDetails(token[i].user)
=============================================================================
