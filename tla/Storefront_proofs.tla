-------------------------- MODULE Storefront_proofs --------------------------
(***************************************************************************)
(* What sign-ins, visitors, tickets and readers guarantee for any numbers  *)
(* of accounts, devices, codes, tokens, requests, rows and pages.          *)
(***************************************************************************)
EXTENDS MCStorefront, Sums, FiniteSetTheorems, SequenceTheorems, WellFoundedInduction, TLAPS

-----------------------------------------------------------------------------
(* The systems by themselves, of which the run checks some parts at a time. *)

\* The sign-ins, with requests that overlap and one at a time; the visitors and
\* the tickets, one request at a time.
SignInSpec == SignInInit /\ [][SignInNext]_signInVars
ClerksAlone == \A v, w \in Clerks : serving[v] # Free /\ serving[w] # Free => v = w
SignInAlone == SignInInit /\ [][SignInNext /\ ClerksAlone']_signInVars

VisitorsInTurn ==
  /\ VisitorsNext
  /\ \A v, w \in Servers : does'[v] # Rests /\ does'[w] # Rests => v = w
  /\ \A w \in Servers : does[w] = Rests \/ does' # does
VisitorsAlone == VisitorsInit /\ [][VisitorsInTurn]_visitorsVars
TicketsAlone == TicketsInit /\ [][TicketsMoves]_ticketsVars

\* The readers, however many read at the same time.
BrowseSpec == BrowseInit /\ [][BrowseNext]_browseVars

-----------------------------------------------------------------------------
(* Sign-ins: what a request remembers.                                      *)

\* Every request is told apart by its operation.
ServingKnown ==
  /\ serving = [w \in Clerks |-> serving[w]]
  /\ \A w \in Clerks : "op" \in DOMAIN serving[w]

\* What a request goes on with: its next step, and what it has learnt.
LEMMA ThenFields ==
  ASSUME ServingKnown, NEW w \in Clerks, NEW step, NEW more, Then(w, step, more)
  PROVE  /\ ServingKnown' /\ \A v \in Clerks : v # w => serving'[v] = serving[v]
         /\ DOMAIN serving'[w] = {"step"} \cup DOMAIN more \cup DOMAIN serving[w]
         /\ serving'[w].step = step
         /\ \A x \in DOMAIN more : x # "step" => serving'[w][x] = more[x]
         /\ \A x \in DOMAIN serving[w] :
              x # "step" /\ x \notin DOMAIN more => serving'[w][x] = serving[w][x]
<1>1. /\ serving'[w] = Over([step |-> step], Over(more, serving[w]))
      /\ \A v \in Clerks : v # w => serving'[v] = serving[v]
      /\ serving' = [v \in Clerks |-> serving'[v]]
  BY DEF Then, ServingKnown
<1>2. Over(more, serving[w]) = [x \in DOMAIN more \cup DOMAIN serving[w] |->
                                  IF x \in DOMAIN more THEN more[x] ELSE serving[w][x]]
  BY DEF Over
<1>3. serving'[w] = [x \in {"step"} \cup DOMAIN more \cup DOMAIN serving[w] |->
                       IF x = "step" THEN step
                       ELSE IF x \in DOMAIN more THEN more[x] ELSE serving[w][x]]
  BY <1>1, <1>2 DEF Over
<1>4. "op" \in DOMAIN serving'[w]
  BY <1>3 DEF ServingKnown
<1>5. ServingKnown'
  BY <1>1, <1>4 DEF ServingKnown
<1> QED BY <1>1, <1>3, <1>5

\* A request that has been answered is there no more.
LEMMA ServedFields ==
  ASSUME ServingKnown, NEW w \in Clerks, Served(w)
  PROVE  /\ ServingKnown' /\ \A v \in Clerks : v # w => serving'[v] = serving[v]
         /\ serving'[w] = Free
  BY DEF ServingKnown, Served, Free

\* A request that comes in.
LEMMA ReceivedFields ==
  ASSUME ServingKnown, NEW w \in Clerks, NEW r \in Asked, Receives(w, r)
  PROVE  /\ ServingKnown' /\ \A v \in Clerks : v # w => serving'[v] = serving[v]
         /\ DOMAIN serving'[w] = {"step"} \cup DOMAIN r
         /\ serving'[w].step = FirstStep(r.op)
         /\ \A x \in DOMAIN r : serving'[w][x] = r[x]
<1>1. /\ serving'[w] = Over([step |-> FirstStep(r.op)], r)
      /\ \A v \in Clerks : v # w => serving'[v] = serving[v]
      /\ serving' = [v \in Clerks |-> serving'[v]]
  BY DEF Receives, ServingKnown
<1>2. serving'[w] = [x \in {"step"} \cup DOMAIN r |-> IF x = "step" THEN FirstStep(r.op) ELSE r[x]]
  BY <1>1 DEF Over
<1>3. "op" \in DOMAIN r /\ "step" \notin DOMAIN r
  BY DEF Asked
<1> QED BY <1>1, <1>2, <1>3 DEF ServingKnown

\* The request of w is answered or goes on, still for the same operation; the
\* others are not touched.
GoesOn(w) ==
  /\ \A v \in Clerks : v # w => serving'[v] = serving[v]
  /\ serving'[w] = Free \/ serving'[w].op = serving[w].op

LEMMA ThenGoesOn ==
  ASSUME ServingKnown, NEW w \in Clerks, NEW step, NEW more, "op" \notin DOMAIN more,
         Then(w, step, more)
  PROVE  ServingKnown' /\ GoesOn(w)
  BY ThenFields DEF ServingKnown, GoesOn

LEMMA ServedGoesOn ==
  ASSUME ServingKnown, NEW w \in Clerks, Served(w)
  PROVE  ServingKnown' /\ GoesOn(w)
  BY ServedFields DEF GoesOn

\* So does every step of a request.
LEMMA EachGoesOn ==
  ASSUME ServingKnown, NEW w \in Clerks, Serves(w)
  PROVE  ServingKnown' /\ GoesOn(w)
<1>0. /\ "op" \notin DOMAIN <<>>
      /\ \A h : "op" \notin DOMAIN [holder |-> h]
      /\ \A h, to : "op" \notin DOMAIN [holder |-> h, send |-> to]
      /\ \A h, row0 : "op" \notin DOMAIN [holder |-> h, seen |-> row0]
  OBVIOUS
<1>1. CASE SendCheck(w) \/ SendExpire(w) \/ SendCreate(w)
  BY <1>1, ThenGoesOn, ServedGoesOn DEF SendCheck, SendExpire, SendCreate
<1>2. CASE ClaimLook(w) \/ ClaimCode(w)
  BY <1>2, ThenGoesOn, ServedGoesOn DEF ClaimLook, ClaimCode
<1>3. CASE Admit(w) \/ Refresh(w) \/ Logout(w)
  BY <1>3, ThenGoesOn, ServedGoesOn DEF Admit, Refresh, Logout
<1>4. CASE CheckBruteForce(w)
  BY <1>4, ThenGoesOn, ServedGoesOn DEF CheckBruteForce
<1>5. CASE Login(w)
  BY <1>0, <1>5, ThenGoesOn, ServedGoesOn DEF Login
<1>6. CASE RecordFailure(w) \/ ResetAttempts(w)
  BY <1>6, ThenGoesOn, ServedGoesOn DEF RecordFailure, ResetAttempts
<1>7. CASE Find(w)
  BY <1>0, <1>7, ThenGoesOn, ServedGoesOn DEF Find
<1>8. CASE Verify(w)
  BY <1>8, ThenGoesOn, ServedGoesOn DEF Verify
<1>9. CASE Register(w)
  BY <1>9, ThenGoesOn, ServedGoesOn DEF Register
<1>10. CASE RegisterWrite(w)
  BY <1>0, <1>10, ThenGoesOn, ServedGoesOn DEF RegisterWrite
<1>11. CASE Google(w)
  BY <1>0, <1>11, ThenGoesOn, ServedGoesOn DEF Google
<1>12. CASE CreateStaff(w)
  BY <1>0, <1>12, ThenGoesOn, ServedGoesOn DEF CreateStaff
<1>13. CASE SetActive(w)
  BY <1>13, ThenGoesOn, ServedGoesOn DEF SetActive
<1>14. CASE Update(w)
  BY <1>14, ThenGoesOn, ServedGoesOn DEF Update
<1> QED
  BY <1>1, <1>2, <1>3, <1>4, <1>5, <1>6, <1>7, <1>8, <1>9, <1>10, <1>11, <1>12, <1>13, <1>14
  DEF Serves

-----------------------------------------------------------------------------
(* Signing out.                                                             *)

\* Every token goes back to the sign-in it belongs to, and the sign-ins that were
\* signed out are revoked.
TokensTell ==
  /\ \E S : token \in Seq([user : S, sid : S, root : S])
  /\ \A i \in DOMAIN token : token[i].root = token[i].sid
  /\ \A x \in left : <<"sid", x>> \in revoked

\* A renewal or a logout is about a token that was issued.
TokenOps == {"refresh", "logout"}
CarriesToken(r) ==
  r.op \in TokenOps => /\ "token" \in DOMAIN r /\ r.token \in DOMAIN token
                       /\ r.step \in {"admit", "renew", "revoke", "revokeAll"}
SessionsTell == ServingKnown /\ TokensTell /\ \A w \in Clerks : CarriesToken(serving[w])

\* A new token belongs to the sign-in it goes back to.
LEMMA IssueTells ==
  ASSUME TokensTell, NEW u, NEW x, Issue(NewToken(u, x, x)), UNCHANGED <<left, revoked>>
  PROVE  TokensTell' /\ DOMAIN token \subseteq DOMAIN token'
<1>1. PICK S : token \in Seq([user : S, sid : S, root : S])
  BY DEF TokensTell
<1>2. PICK t : t = [user |-> u, sid |-> x, root |-> x] /\ token' = Append(token, t)
  BY DEF Issue, NewToken
<1>3. PICK T : T = S \cup {u, x}
  OBVIOUS
<1>4. token \in Seq([user : T, sid : T, root : T]) /\ t \in [user : T, sid : T, root : T]
  <2>1. PICK A, B : A = [user : S, sid : S, root : S] /\ B = [user : T, sid : T, root : T]
    OBVIOUS
  <2>2. A \subseteq B /\ t \in B
    BY <1>2, <1>3, <2>1
  <2>3. token \in Seq(A)
    BY <1>1, <2>1
  <2>4. token \in Seq(B)
    BY <2>2, <2>3, SeqMonotonic
  <2> QED BY <2>1, <2>2, <2>4
<1>5. token' \in Seq([user : T, sid : T, root : T])
  BY <1>2, <1>4
<1>6. \A i \in DOMAIN token' : token'[i].root = token'[i].sid
  BY <1>2, <1>4 DEF TokensTell
<1>7. DOMAIN token \subseteq DOMAIN token'
  BY <1>2, <1>4
<1> QED BY <1>5, <1>6, <1>7 DEF TokensTell

\* What the steps of renewal and logout do, and what all others leave.
LEMMA TokensKept ==
  ASSUME SessionsTell, NEW w \in Clerks, Serves(w)
  PROVE  TokensTell' /\ DOMAIN token \subseteq DOMAIN token'
<1>1. CASE \/ SendCheck(w) \/ SendExpire(w) \/ SendCreate(w) \/ ClaimLook(w) \/ ClaimCode(w)
           \/ Admit(w) \/ CheckBruteForce(w) \/ Login(w) \/ RecordFailure(w) \/ Find(w)
           \/ Register(w) \/ RegisterWrite(w) \/ CreateStaff(w) \/ Update(w) \/ SetActive(w)
  <2>1. UNCHANGED <<token, left, revoked>>
    BY <1>1 DEF SendCheck, SendExpire, SendCreate, ClaimLook, ClaimCode, Admit, CheckBruteForce,
                Login, RecordFailure, Find, Register, RegisterWrite, CreateStaff, Update, SetActive
  <2> QED BY <2>1 DEF SessionsTell, TokensTell
<1>2. CASE ResetAttempts(w) \/ Verify(w) \/ Google(w)
  <2>1. /\ UNCHANGED <<left, revoked>>
        /\ UNCHANGED token \/ \E u : SignIn(u)
    BY <1>2 DEF ResetAttempts, Verify, Google
  <2>2. CASE UNCHANGED token
    BY <2>1, <2>2 DEF SessionsTell, TokensTell
  <2>3. CASE \E u : SignIn(u)
    BY <2>1, <2>3, IssueTells DEF SessionsTell, SignIn
  <2> QED BY <2>1, <2>2, <2>3
<1>3. CASE Refresh(w)
  <2>1. PICK t : t = token[serving[w].token] /\ UNCHANGED <<left, revoked>>
                 /\ (UNCHANGED token \/ Issue(NewToken(t.user, t.sid, t.root)))
    BY <1>3 DEF Refresh, Renewed
  <2>2. serving[w].token \in DOMAIN token
    BY <1>3 DEF SessionsTell, CarriesToken, Refresh, At, TokenOps
  <2>3. t.root = t.sid
    BY <2>1, <2>2 DEF SessionsTell, TokensTell
  <2>4. CASE UNCHANGED token
    BY <2>1, <2>4 DEF SessionsTell, TokensTell
  <2>5. CASE Issue(NewToken(t.user, t.sid, t.root))
    BY <2>1, <2>3, <2>5, IssueTells DEF SessionsTell
  <2> QED BY <2>1, <2>4, <2>5
<1>4. CASE Logout(w)
  <2>1. PICK i : i = serving[w].token
    OBVIOUS
  <2>2. i \in DOMAIN token
    BY <1>4, <2>1 DEF SessionsTell, CarriesToken, Logout, At, TokenOps
  <2>3. token[i].root = token[i].sid
    BY <2>2 DEF SessionsTell, TokensTell
  <2>4. /\ UNCHANGED token
        /\ revoked \subseteq revoked'
        /\ left' = left \/ (left' = left \cup {token[i].root} /\ <<"sid", token[i].sid>> \in revoked')
    BY <1>4, <2>1 DEF Logout
  <2> QED BY <2>3, <2>4 DEF SessionsTell, TokensTell
<1> QED BY <1>1, <1>2, <1>3, <1>4 DEF Serves

\* A request for a renewal or a logout keeps its token.
LEMMA TokenCarried ==
  ASSUME SessionsTell, NEW w \in Clerks, Serves(w), DOMAIN token \subseteq DOMAIN token'
  PROVE  CarriesToken(serving[w])'
<1>1. CASE serving[w].op \notin TokenOps
  <2>1. serving'[w].op \notin TokenOps
    BY <1>1, EachGoesOn DEF SessionsTell, GoesOn, Free, TokenOps
  <2> QED BY <2>1 DEF CarriesToken
<1>2. CASE serving[w].op \in TokenOps
  <2>1. /\ "token" \in DOMAIN serving[w] /\ serving[w].token \in DOMAIN token
        /\ serving[w].step \in {"admit", "renew", "revoke", "revokeAll"}
        /\ ServingKnown
    BY <1>2 DEF SessionsTell, CarriesToken
  <2>2. Admit(w) \/ Refresh(w) \/ Logout(w)
    BY <1>2, <2>1
    DEF Serves, SendCheck, SendExpire, SendCreate, ClaimLook, ClaimCode, CheckBruteForce, Login,
        RecordFailure, ResetAttempts, Find, Verify, Register, RegisterWrite, Google, CreateStaff,
        Update, SetActive, At, TokenOps
  <2>3. \/ Served(w)
        \/ \E step \in {"renew", "revoke", "revokeAll"} : Then(w, step, <<>>)
    BY <2>2 DEF Admit, Refresh, Logout
  <2>4. CASE Served(w)
    <3>1. serving'[w].op = "free"
      BY <2>1, <2>4, ServedFields DEF Free
    <3> QED BY <3>1 DEF CarriesToken, TokenOps
  <2>5. ASSUME NEW step \in {"renew", "revoke", "revokeAll"}, Then(w, step, <<>>)
        PROVE  CarriesToken(serving[w])'
    <3>1. /\ DOMAIN serving[w] \subseteq DOMAIN serving'[w] /\ serving'[w].step = step
          /\ serving'[w].token = serving[w].token
      BY <2>1, <2>5, ThenFields
    <3> QED BY <2>1, <3>1 DEF CarriesToken
  <2> QED BY <2>3, <2>4, <2>5
<1> QED BY <1>1, <1>2

\* Every step keeps what sessions say.
LEMMA SessionsStep ==
  ASSUME SessionsTell, [SignInNext]_signInVars
  PROVE  SessionsTell'
<1>0. ASSUME NEW w \in Clerks, ServingKnown', \A v \in Clerks : v # w => serving'[v] = serving[v],
             TokensTell', DOMAIN token \subseteq DOMAIN token', CarriesToken(serving[w])'
      PROVE  SessionsTell'
  <2>1. ASSUME NEW v \in Clerks, v # w PROVE CarriesToken(serving[v])'
    BY <1>0, <2>1 DEF SessionsTell, CarriesToken
  <2> QED BY <1>0, <2>1 DEF SessionsTell
<1>1. ASSUME NEW w \in Clerks, Serves(w) PROVE SessionsTell'
  <2>1. ServingKnown' /\ \A v \in Clerks : v # w => serving'[v] = serving[v]
    BY <1>1, EachGoesOn DEF SessionsTell, GoesOn
  <2> QED BY <1>0, <1>1, <2>1, TokensKept, TokenCarried
<1>2. ASSUME NEW w \in Clerks, NEW r \in Asked, Receives(w, r) PROVE SessionsTell'
  <2>1. UNCHANGED <<token, left, revoked>>
    BY <1>2 DEF Receives
  <2>2. TokensTell' /\ DOMAIN token = DOMAIN token'
    BY <2>1 DEF SessionsTell, TokensTell
  <2>3. "op" \in DOMAIN r /\ (r.op \in TokenOps => "token" \in DOMAIN r)
    BY DEF Asked, TokenOps
  <2>4. r.op \in TokenOps => r.token \in DOMAIN token /\ FirstStep(r.op) = "admit"
    BY <1>2, <2>3 DEF Receives, FirstStep, TokenOps
  <2>5. /\ ServingKnown' /\ \A v \in Clerks : v # w => serving'[v] = serving[v]
        /\ DOMAIN serving'[w] = {"step"} \cup DOMAIN r
        /\ serving'[w].step = FirstStep(r.op)
        /\ \A x \in DOMAIN r : serving'[w][x] = r[x]
    BY <1>2, ReceivedFields DEF SessionsTell
  <2>6. CarriesToken(serving[w])'
    BY <2>2, <2>3, <2>4, <2>5 DEF CarriesToken
  <2> QED BY <1>0, <2>2, <2>5, <2>6
<1>3. ASSUME UNCHANGED <<token, left, revoked, serving>> PROVE SessionsTell'
  BY <1>3 DEF SessionsTell, TokensTell, CarriesToken, ServingKnown
<1> QED
  BY <1>1, <1>2, <1>3 DEF SignInNext, SignInStep, Ages, Quarter, signInVars

\* A step of the whole is a step of the sign-ins or leaves them as they are.
LEMMA SignInMovesOn == [MCNext]_<<browseVars, signInVars, visitorsVars, ticketsVars, contentVars, setting>>
                         => [SignInNext]_signInVars
  BY DEF MCNext, SignInMoves, SignInNext

LEMMA SessionsBegin == SignInInit => SessionsTell
<1> SUFFICES ASSUME SignInInit PROVE SessionsTell
  OBVIOUS
<1>1. ServingKnown /\ \A w \in Clerks : CarriesToken(serving[w])
  BY DEF SignInInit, ServingKnown, CarriesToken, Free, TokenOps
<1>2. token \in Seq([user : {}, sid : {}, root : {}]) /\ DOMAIN token = {}
  BY DEF SignInInit
<1>3. TokensTell
  BY <1>2 DEF SignInInit, TokensTell
<1> QED BY <1>1, <1>3 DEF SessionsTell

LEMMA SessionsEnd == SessionsTell => SignedOutStays
  BY DEF SessionsTell, TokensTell, SignedOutStays, Admitted

\* Once a customer has signed out, no token of that sign-in is admitted any more,
\* a renewal that was under way included (refreshSession, logout): whatever is
\* asked for and however it overlaps.
THEOREM SignedOutForGood == SignInSpec => []SignedOutStays
  BY SessionsBegin, SessionsStep, SessionsEnd, PTL DEF SignInSpec

\* So it is in the run, which asks for some things at a time.
THEOREM SignedOut == MCSpec => []SignedOutStays
<1>1. MCInit => SignInInit
  BY DEF MCInit
<1> QED BY <1>1, SignInMovesOn, SessionsBegin, SessionsStep, SessionsEnd, PTL DEF MCSpec

-----------------------------------------------------------------------------
(* Tickets.                                                                 *)

\* Requests come one at a time, and the one that is served knows the ticket's
\* status as it is.
AgentKnows(w) ==
  /\ acts[w].op = "looked" => acts[w].saw = ticket.status
  /\ acts[w].op = "progress" => ticket.status = "OPEN"
TicketTells ==
  /\ acts = [w \in Agents |-> acts[w]]
  /\ \A v, w \in Agents : acts[v] # Still /\ acts[w] # Still => v = w
  /\ ticket \in [status : TicketStatuses, resolvedAt : BOOLEAN, closedAt : BOOLEAN,
                 assignedTo : Staff \cup {NoOne}]
  /\ waiting \in BOOLEAN
  /\ \A w \in Agents : AgentKnows(w)

\* What a served request may do: the ticket it leaves is sound, and whoever is
\* served next knows it.
LEMMA TicketServed ==
  ASSUME TicketTells, RepliesReopen, TicketsMoves, NEW w \in Agents, NEW s, acts[w] # Still,
         acts' = [acts EXCEPT ![w] = s], s = Still \/ AgentKnows(w)',
         ticket' \in [status : TicketStatuses, resolvedAt : BOOLEAN, closedAt : BOOLEAN,
                      assignedTo : Staff \cup {NoOne}],
         waiting' \in BOOLEAN
  PROVE  TicketTells'
<1>1. \A v \in Agents : v # w => acts'[v] = Still
  BY DEF TicketTells
<1>2. acts'[w] = s /\ acts' = [v \in Agents |-> acts'[v]]
  BY DEF TicketTells
<1>3. ASSUME NEW v \in Agents, acts'[v] = Still PROVE AgentKnows(v)'
  BY <1>3 DEF AgentKnows, Still
<1>4. \A v \in Agents : AgentKnows(v)'
  BY <1>1, <1>2, <1>3
<1> QED BY <1>2, <1>4 DEF TicketTells, TicketsMoves

\* Every step keeps what tickets tell.
LEMMA TicketStep ==
  ASSUME TicketTells, RepliesReopen, TicketsMoves
  PROVE  TicketTells' /\ RepliesReopen'
<1> USE DEF TicketStatuses
<1>0. /\ ticket.status \in TicketStatuses /\ ticket.resolvedAt \in BOOLEAN
      /\ \A w \in Agents : acts[w].op \in {"looked", "progress"} => acts[w] # Still
  BY DEF TicketTells, Still
<1>1. ASSUME NEW w \in Agents, NEW r, LooksUp(w, r) PROVE TicketTells' /\ RepliesReopen'
  <2>1. PICK s : s = [saw |-> ticket.status, request |-> r, op |-> "looked"]
    OBVIOUS
  <2>2. /\ acts' = [acts EXCEPT ![w] = s] /\ s.op = "looked" /\ s.saw = ticket.status
        /\ UNCHANGED <<ticket, waiting>>
    BY <1>1, <2>1 DEF LooksUp, Acting
  <2>3. acts'[w] = s /\ acts' = [v \in Agents |-> acts'[v]] /\ s # Still
    BY <2>2 DEF TicketTells, Still
  <2>4. \A v \in Agents : v # w => acts'[v] = Still
    BY <2>3 DEF TicketsMoves
  <2>5. \A v \in Agents : AgentKnows(v)'
    BY <2>2, <2>3, <2>4 DEF AgentKnows, Still
  <2> QED BY <2>2, <2>3, <2>5 DEF TicketTells, TicketsMoves, RepliesReopen
<1>2. ASSUME NEW w \in Agents, AddCustomerReply(w) PROVE TicketTells' /\ RepliesReopen'
  <2>1. acts[w] # Still /\ acts[w].saw = ticket.status /\ acts' = [acts EXCEPT ![w] = Still]
    BY <1>0, <1>2 DEF AddCustomerReply, Acting, TicketTells, AgentKnows
  <2>2. CASE ticket.status = "CLOSED"
    BY <1>2, <2>1, <2>2, TicketServed DEF AddCustomerReply, TicketTells, RepliesReopen
  <2>3. CASE ticket.status = "RESOLVED"
    <3>1. ticket' = Reopened(ticket) /\ waiting' = TRUE
      BY <1>2, <2>1, <2>3 DEF AddCustomerReply
    <3>2. /\ ticket' \in [status : TicketStatuses, resolvedAt : BOOLEAN, closedAt : BOOLEAN,
                          assignedTo : Staff \cup {NoOne}]
          /\ ticket'.status = "IN_PROGRESS" /\ ticket'.resolvedAt = FALSE
      BY <3>1 DEF TicketTells, Reopened
    <3> QED BY <2>1, <3>1, <3>2, TicketServed DEF RepliesReopen
  <2>4. CASE ticket.status \in {"OPEN", "IN_PROGRESS"}
    BY <1>2, <2>1, <2>4, TicketServed DEF AddCustomerReply, TicketTells, RepliesReopen
  <2> QED BY <1>0, <2>2, <2>3, <2>4
<1>3. ASSUME NEW w \in Agents, ReplyToTicket(w) PROVE TicketTells' /\ RepliesReopen'
  <2>1. acts[w] # Still /\ acts[w].saw = ticket.status /\ UNCHANGED ticket
    BY <1>0, <1>3 DEF ReplyToTicket, TicketTells, AgentKnows
  <2>2. waiting' = (waiting /\ acts[w].request = "note")
    BY <1>3 DEF ReplyToTicket
  <2>3. RepliesReopen' /\ waiting' \in BOOLEAN
    BY <2>1, <2>2 DEF RepliesReopen
  <2>4. PICK s : /\ acts' = [acts EXCEPT ![w] = s]
                 /\ s = Still \/ (s = [op |-> "progress"] /\ ticket.status = "OPEN")
    BY <1>3, <2>1 DEF ReplyToTicket, Acting
  <2>5. s = Still \/ AgentKnows(w)'
    BY <2>1, <2>4 DEF AgentKnows, TicketTells
  <2> QED BY <2>1, <2>3, <2>4, <2>5, TicketServed DEF TicketTells
<1>4. ASSUME NEW w \in Agents, ReplyProgress(w) PROVE TicketTells' /\ RepliesReopen'
  <2>1. /\ acts[w] # Still /\ ticket.status = "OPEN" /\ acts' = [acts EXCEPT ![w] = Still]
        /\ ticket' = [ticket EXCEPT !.status = "IN_PROGRESS"] /\ UNCHANGED waiting
    BY <1>0, <1>4 DEF ReplyProgress, Acting, TicketTells, AgentKnows
  <2>2. /\ ticket' \in [status : TicketStatuses, resolvedAt : BOOLEAN, closedAt : BOOLEAN,
                        assignedTo : Staff \cup {NoOne}]
        /\ ticket'.status = "IN_PROGRESS" /\ ticket'.resolvedAt = ticket.resolvedAt
    BY <2>1 DEF TicketTells
  <2> QED BY <2>1, <2>2, TicketServed DEF RepliesReopen, TicketTells
<1>5. ASSUME NEW w \in Agents, UpdateStatus(w) PROVE TicketTells' /\ RepliesReopen'
  <2>1. PICK status : status = acts[w].request
    OBVIOUS
  <2>2. /\ acts[w] # Still /\ status \in TicketStatuses /\ acts' = [acts EXCEPT ![w] = Still]
        /\ waiting' = FALSE
        /\ \/ status = "RESOLVED" /\ ticket' = [ticket EXCEPT !.status = status, !.resolvedAt = TRUE]
           \/ status = "CLOSED" /\ ticket' = [ticket EXCEPT !.status = status, !.closedAt = TRUE]
           \/ ticket' = [ticket EXCEPT !.status = status, !.resolvedAt = FALSE, !.closedAt = FALSE]
    BY <1>0, <1>5, <2>1 DEF UpdateStatus, Acting
  <2>3. /\ ticket' \in [status : TicketStatuses, resolvedAt : BOOLEAN, closedAt : BOOLEAN,
                        assignedTo : Staff \cup {NoOne}]
        /\ ticket'.status \in {"RESOLVED", "CLOSED"} \/ ticket'.resolvedAt = FALSE
    BY <2>2 DEF TicketTells
  <2> QED BY <2>2, <2>3, TicketServed DEF RepliesReopen
<1>6. ASSUME NEW w \in Agents, Assign(w) PROVE TicketTells' /\ RepliesReopen'
  <2>1. /\ acts[w] # Still /\ acts[w].request \in Staff /\ acts' = [acts EXCEPT ![w] = Still]
        /\ ticket' = [ticket EXCEPT !.assignedTo = acts[w].request] /\ UNCHANGED waiting
    BY <1>0, <1>6 DEF Assign, Acting
  <2>2. /\ ticket' \in [status : TicketStatuses, resolvedAt : BOOLEAN, closedAt : BOOLEAN,
                        assignedTo : Staff \cup {NoOne}]
        /\ ticket'.status = ticket.status /\ ticket'.resolvedAt = ticket.resolvedAt
    BY <2>1 DEF TicketTells
  <2> QED BY <2>1, <2>2, TicketServed DEF RepliesReopen, TicketTells
<1>7. ASSUME NEW s \in Staff, Joins(s) PROVE TicketTells' /\ RepliesReopen'
  BY <1>7 DEF Joins, TicketTells, RepliesReopen, AgentKnows
<1> QED BY <1>1, <1>2, <1>3, <1>4, <1>5, <1>6, <1>7 DEF TicketsMoves, TicketsNext

LEMMA TicketsBegin == TicketsInit => TicketTells /\ RepliesReopen
  BY DEF TicketsInit, TicketTells, RepliesReopen, AgentKnows, Still, TicketStatuses

LEMMA TicketsGoOn ==
  TicketTells /\ RepliesReopen /\ [TicketsMoves]_ticketsVars => TicketTells' /\ RepliesReopen'
<1>1. ASSUME TicketTells, RepliesReopen, UNCHANGED ticketsVars PROVE TicketTells' /\ RepliesReopen'
  BY <1>1 DEF ticketsVars, TicketTells, RepliesReopen, AgentKnows
<1> QED BY <1>1, TicketStep

\* One request at a time, a reply of the customer is never left in a ticket that
\* counts as done, and the time of a resolution goes when the ticket is taken up
\* again (addCustomerReply, replyToTicket, updateStatus).
THEOREM RepliesReopenInTurn == TicketsAlone => []RepliesReopen
  BY TicketsBegin, TicketsGoOn, PTL DEF TicketsAlone

\* So it is in the run.
THEOREM RepliesAreAnswered == MCSpec => []RepliesReopenAlone
<1>1. MCInit => TicketsInit
  BY DEF MCInit
<1>2. [MCNext]_<<browseVars, signInVars, visitorsVars, ticketsVars, contentVars, setting>>
        => [TicketsMoves]_ticketsVars
  BY DEF MCNext
<1> QED BY <1>1, <1>2, TicketsBegin, TicketsGoOn, PTL DEF MCSpec, RepliesReopenAlone

-----------------------------------------------------------------------------
(* Visitors.                                                                *)

Purchase == [user : Someone, device : OnDevices, guest : BOOLEAN]
Seen == [user : Someone, device : OnDevices]
RowKinds == {"wishlist", "cart lines", "codes"}

\* The requests that are served.
VisitorRequest ==
  {Rests} \cup [op : {"view"}, step : {"visitor", "create", "count"}, user : Someone, device : OnDevices]
          \cup [op : {"merge"}, user : Customers, device : Devices]
          \cup [op : {"delete"}, step : {"cart lines", "codes", "account"}, user : Customers,
                had : SUBSET RowKinds]

\* Requests come one at a time, and what the one that is served has found is
\* still so when it writes.
ServerKnows(w) ==
  /\ does[w].op = "view" =>
       (does[w].step \in {"visitor", "create"} => Same(does[w].user, does[w].device) = {})
  /\ does[w].op = "merge" => ~IsOthers(does[w].device, does[w].user)
  /\ does[w].op = "delete" => ~HasOrders(does[w].user)
ServersTell ==
  /\ does \in [Servers -> VisitorRequest]
  /\ \A v, w \in Servers : does[v] # Rests /\ does[w] # Rests => v = w
  /\ \A w \in Servers : ServerKnows(w)

\* A guest's orders are of a device, and once they have an account it is the one
\* the device is linked to.  The views of a device are one row.
OrdersTell(orders, links) ==
  \A i \in DOMAIN orders : orders[i].guest =>
    /\ orders[i].device \in Devices
    /\ orders[i].user # NoId => links[orders[i].device] = orders[i].user
ViewsTell(views) ==
  \A i, j \in DOMAIN views : i # j /\ views[i].device = views[j].device => views[i].device = NoId
RowsTell ==
  /\ known \subseteq Customers
  /\ owns \in [Customers -> SUBSET RowKinds]
  /\ link \in [Devices -> {NoRow} \cup Someone]
  /\ bought \in Seq(Purchase) /\ view \in Seq(Seen)
  /\ OrdersTell(bought, link) /\ ViewsTell(view)

\* While nobody is served, others may come and go.
LEMMA NobodyServed ==
  ASSUME ServersTell, VisitorsInTurn, UNCHANGED does
  PROVE  ServersTell' /\ \A w \in Servers : does[w] = Rests
<1>1. \A w \in Servers : does[w] = Rests
  BY DEF VisitorsInTurn
<1> QED BY <1>1 DEF ServersTell, ServerKnows, Rests

\* A request that is served, or comes in, is the only one.
LEMMA OneServed ==
  ASSUME ServersTell, VisitorsInTurn, NEW w \in Servers, NEW r \in VisitorRequest,
         does' = [does EXCEPT ![w] = r], does[w] # Rests \/ r # Rests, r = Rests \/ ServerKnows(w)'
  PROVE  ServersTell'
<1>1. /\ does'[w] = r /\ does' \in [Servers -> VisitorRequest]
      /\ \A v \in Servers : v # w => does'[v] = does[v]
  BY DEF ServersTell
<1>2. \A v \in Servers : v # w => does'[v] = Rests
  BY <1>1 DEF ServersTell, VisitorsInTurn
<1>3. \A v \in Servers : does'[v] = Rests => ServerKnows(v)'
  BY DEF ServerKnows, Rests
<1>4. \A v \in Servers : ServerKnows(v)'
  BY <1>1, <1>2, <1>3
<1> QED BY <1>1, <1>4 DEF ServersTell, VisitorsInTurn

\* The rows of a device, when there are any, stay as they are.
LEMMA RowAdded ==
  ASSUME NEW v \in OnDevices, link \in [Devices -> {NoRow} \cup Someone]
  PROVE  /\ WithRow(v) \in [Devices -> {NoRow} \cup Someone]
         /\ \A x \in Devices : link[x] # NoRow => WithRow(v)[x] = link[x]
<1>1. CASE v = NoId \/ link[v] # NoRow
  BY <1>1 DEF WithRow
<1>2. CASE v # NoId /\ link[v] = NoRow
  BY <1>2 DEF WithRow, OnDevices, Someone
<1> QED BY <1>1, <1>2

\* What is given to an account stays with its device, and was nobody's.
LEMMA OrdersGiven ==
  ASSUME NEW rows \in Seq(Purchase), NEW v \in Devices, NEW u \in Customers
  PROVE  /\ Given(rows, v, u) \in Seq(Purchase) /\ DOMAIN Given(rows, v, u) = DOMAIN rows
         /\ \A i \in DOMAIN rows :
              /\ Given(rows, v, u)[i].device = rows[i].device
              /\ Given(rows, v, u)[i].guest = rows[i].guest
              /\ Given(rows, v, u)[i].user = IF rows[i].device = v /\ rows[i].user = NoId
                                             THEN u ELSE rows[i].user
<1>1. Len(rows) \in Nat /\ DOMAIN rows = 1 .. Len(rows) /\ \A i \in 1 .. Len(rows) : rows[i] \in Purchase
  OBVIOUS
<1>2. PICK given : given = Given(rows, v, u)
  OBVIOUS
<1>3. given = [i \in 1 .. Len(rows) |-> IF rows[i].device = v /\ rows[i].user = NoId
                                        THEN [rows[i] EXCEPT !.user = u] ELSE rows[i]]
  BY <1>1, <1>2 DEF Given
<1>4. \A i \in 1 .. Len(rows) :
        /\ given[i] \in Purchase /\ given[i].device = rows[i].device /\ given[i].guest = rows[i].guest
        /\ given[i].user = IF rows[i].device = v /\ rows[i].user = NoId THEN u ELSE rows[i].user
  BY <1>1, <1>3 DEF Purchase, Someone
<1>5. given \in Seq(Purchase)
  BY <1>1, <1>3, <1>4
<1> QED BY <1>1, <1>2, <1>3, <1>4, <1>5

LEMMA ViewsGiven ==
  ASSUME NEW rows \in Seq(Seen), NEW v \in Devices, NEW u \in Customers
  PROVE  /\ Given(rows, v, u) \in Seq(Seen) /\ DOMAIN Given(rows, v, u) = DOMAIN rows
         /\ \A i \in DOMAIN rows : Given(rows, v, u)[i].device = rows[i].device
<1>1. Len(rows) \in Nat /\ DOMAIN rows = 1 .. Len(rows) /\ \A i \in 1 .. Len(rows) : rows[i] \in Seen
  OBVIOUS
<1>2. PICK given : given = Given(rows, v, u)
  OBVIOUS
<1>3. given = [i \in 1 .. Len(rows) |-> IF rows[i].device = v /\ rows[i].user = NoId
                                        THEN [rows[i] EXCEPT !.user = u] ELSE rows[i]]
  BY <1>1, <1>2 DEF Given
<1>4. \A i \in 1 .. Len(rows) : given[i] \in Seen /\ given[i].device = rows[i].device
  BY <1>1, <1>3 DEF Seen, Someone
<1>5. given \in Seq(Seen)
  BY <1>1, <1>3, <1>4
<1> QED BY <1>1, <1>2, <1>3, <1>4, <1>5

\* Each step keeps what the rows tell, and gives no order to another account.
OrdersKept == \A i \in DOMAIN bought : bought[i].user # NoId => bought'[i].user = bought[i].user
Kept == RowsTell' /\ OrdersKept

LEMMA Unmoved ==
  ASSUME RowsTell, UNCHANGED <<known, owns, link, bought, view>>
  PROVE  Kept
  BY DEF RowsTell, Kept, OrdersKept, OrdersTell, ViewsTell

LEMMA BuysStep ==
  ASSUME ServersTell, RowsTell, VisitorsInTurn, NEW u \in Someone, NEW v \in OnDevices, Buys(u, v)
  PROVE  ServersTell' /\ Kept
<1>1. ServersTell'
  BY NobodyServed DEF Buys
<1>2. PICK n : n = [user |-> u, device |-> v, guest |-> u = NoId]
  OBVIOUS
<1>3. /\ n \in Purchase /\ (n.guest => n.user = NoId /\ n.device \in Devices)
      /\ bought' = Append(bought, n) /\ link' = WithRow(v) /\ UNCHANGED <<known, owns, view>>
  BY <1>2 DEF Buys, Purchase, OnDevices
<1>4. /\ bought' \in Seq(Purchase) /\ DOMAIN bought' = DOMAIN bought \cup {Len(bought) + 1}
      /\ \A i \in DOMAIN bought : bought'[i] = bought[i]
      /\ bought'[Len(bought) + 1] = n
  BY <1>3 DEF RowsTell
<1>5. /\ link' \in [Devices -> {NoRow} \cup Someone]
      /\ \A x \in Devices : link[x] # NoRow => link'[x] = link[x]
  BY <1>3, RowAdded DEF RowsTell
<1>6. \A i \in DOMAIN bought : bought[i].user \in Someone
  <2>1. \A i \in DOMAIN bought : bought[i] \in Purchase
    BY DEF RowsTell
  <2> QED BY <2>1 DEF Purchase
<1>7. OrdersTell(bought, link)'
  BY <1>3, <1>4, <1>5, <1>6, VisitorsAssumption DEF RowsTell, OrdersTell, Someone, VisitorsAssumption
<1> QED BY <1>1, <1>3, <1>4, <1>5, <1>7 DEF Kept, OrdersKept, RowsTell, ViewsTell

LEMMA KeepsStep ==
  ASSUME ServersTell, RowsTell, VisitorsInTurn, NEW u \in Customers, NEW rows \in RowKinds, Keeps(u, rows)
  PROVE  ServersTell' /\ Kept
<1>1. ServersTell'
  BY NobodyServed DEF Keeps
<1>2. owns' \in [Customers -> SUBSET RowKinds] /\ UNCHANGED <<known, link, bought, view>>
  BY DEF Keeps, RowsTell
<1> QED BY <1>1, <1>2 DEF Kept, OrdersKept, RowsTell, OrdersTell, ViewsTell

\* What is known of the request that is served.
LEMMA Requested ==
  ASSUME ServersTell, NEW w \in Servers
  PROVE  /\ does[w].op = "view" =>
              /\ does[w] \in [op : {"view"}, step : {"visitor", "create", "count"}, user : Someone,
                              device : OnDevices]
              /\ does[w] # Rests
         /\ does[w].op = "merge" =>
              does[w].user \in Customers /\ does[w].device \in Devices /\ does[w] # Rests
         /\ does[w].op = "delete" =>
              /\ does[w] \in [op : {"delete"}, step : {"cart lines", "codes", "account"},
                              user : Customers, had : SUBSET RowKinds]
              /\ does[w] # Rests
<1>1. does[w] \in VisitorRequest
  BY DEF ServersTell
<1>2. Rests.op = "rests"
  BY DEF Rests
<1>3. /\ \A r \in [op : {"view"}, step : {"visitor", "create", "count"}, user : Someone,
                   device : OnDevices] : r.op = "view"
      /\ \A r \in [op : {"merge"}, user : Customers, device : Devices] :
           r.op = "merge" /\ r.user \in Customers /\ r.device \in Devices
      /\ \A r \in [op : {"delete"}, step : {"cart lines", "codes", "account"},
                   user : Customers, had : SUBSET RowKinds] : r.op = "delete"
  OBVIOUS
<1> QED BY <1>1, <1>2, <1>3, Zenon DEF VisitorRequest

LEMMA ViewLookStep ==
  ASSUME ServersTell, RowsTell, VisitorsInTurn, NEW w \in Servers, NEW u \in Someone,
         NEW v \in OnDevices, ViewLook(w, u, v)
  PROVE  ServersTell' /\ Kept
<1>1. PICK r : r = [op |-> "view", step |-> IF Same(u, v) = {} THEN "visitor" ELSE "count",
                    user |-> u, device |-> v]
  OBVIOUS
<1>2. /\ r \in VisitorRequest /\ r # Rests /\ r.op = "view" /\ r.user = u /\ r.device = v
      /\ r.step \in {"visitor", "create"} => Same(u, v) = {}
  BY <1>1 DEF VisitorRequest, Rests
<1>3. does' = [does EXCEPT ![w] = r] /\ UNCHANGED <<known, owns, link, bought, view>>
  BY <1>1 DEF ViewLook, Starts
<1>4. does'[w] = r /\ Same(u, v)' = Same(u, v)
  BY <1>3 DEF ServersTell, Same
<1>5. ServerKnows(w)'
  BY <1>2, <1>4 DEF ServerKnows, Same
<1> QED BY <1>2, <1>3, <1>5, OneServed, Unmoved

LEMMA ViewVisitorStep ==
  ASSUME ServersTell, RowsTell, VisitorsInTurn, NEW w \in Servers, ViewVisitor(w)
  PROVE  ServersTell' /\ Kept
<1>1. PICK r : r = [does[w] EXCEPT !.step = "create"]
  OBVIOUS
<1>2. /\ does[w] \in [op : {"view"}, step : {"visitor", "create", "count"}, user : Someone,
                      device : OnDevices]
      /\ does[w] # Rests /\ does[w].step = "visitor"
  BY Requested DEF ViewVisitor
<1>3. /\ r \in VisitorRequest /\ r.op = "view" /\ r.user = does[w].user /\ r.device = does[w].device
  BY <1>1, <1>2 DEF VisitorRequest
<1>4. /\ does' = [does EXCEPT ![w] = r] /\ UNCHANGED <<known, owns, bought, view>>
      /\ link' = WithRow(does[w].device)
  BY <1>1 DEF ViewVisitor, Goes
<1>5. does'[w] = r /\ Same(r.user, r.device)' = Same(does[w].user, does[w].device)
  BY <1>3, <1>4 DEF ServersTell, Same
<1>6. Same(does[w].user, does[w].device) = {}
  BY <1>2 DEF ServersTell, ServerKnows
<1>7. ServerKnows(w)'
  BY <1>3, <1>5, <1>6 DEF ServerKnows
<1>8. /\ link' \in [Devices -> {NoRow} \cup Someone]
      /\ \A x \in Devices : link[x] # NoRow => link'[x] = link[x]
  BY <1>2, <1>4, RowAdded DEF RowsTell
<1>9. \A i \in DOMAIN bought : bought[i].user \in Someone
  <2>1. \A i \in DOMAIN bought : bought[i] \in Purchase
    BY DEF RowsTell
  <2> QED BY <2>1 DEF Purchase
<1>10. OrdersTell(bought, link)'
  BY <1>4, <1>8, <1>9, VisitorsAssumption DEF RowsTell, OrdersTell, Someone, VisitorsAssumption
<1> QED BY <1>2, <1>3, <1>4, <1>7, <1>8, <1>10, OneServed DEF Kept, OrdersKept, RowsTell, ViewsTell

LEMMA ViewWriteStep ==
  ASSUME ServersTell, RowsTell, VisitorsInTurn, NEW w \in Servers, ViewWrite(w)
  PROVE  ServersTell' /\ Kept
<1>1. /\ does[w] \in [op : {"view"}, step : {"visitor", "create", "count"}, user : Someone,
                      device : OnDevices]
      /\ does[w] # Rests
  BY Requested DEF ViewWrite
<1>2. PICK n : n = [user |-> does[w].user, device |-> does[w].device]
  OBVIOUS
<1>3. /\ does' = [does EXCEPT ![w] = Rests] /\ UNCHANGED <<known, owns, link, bought>>
      /\ UNCHANGED view \/ (does[w].step = "create" /\ view' = Append(view, n))
  BY <1>2 DEF ViewWrite, Ends
<1>4. ServersTell'
  BY <1>1, <1>3, OneServed DEF VisitorRequest
<1>5. CASE UNCHANGED view
  BY <1>3, <1>4, <1>5, Unmoved
<1>6. CASE does[w].step = "create" /\ view' = Append(view, n)
  <2>1. Same(does[w].user, does[w].device) = {}
    BY <1>1, <1>6 DEF ServersTell, ServerKnows
  <2>2. \A i \in DOMAIN view : n.device = NoId \/ view[i].device # n.device
    BY <1>2, <2>1 DEF Same
  <2>3. n \in Seen
    BY <1>1, <1>2 DEF Seen
  <2>4. /\ view' \in Seq(Seen) /\ DOMAIN view' = DOMAIN view \cup {Len(view) + 1}
        /\ \A i \in DOMAIN view : view'[i] = view[i]
        /\ view'[Len(view) + 1] = n
    BY <1>6, <2>3 DEF RowsTell
  <2>5. ViewsTell(view)'
    BY <2>2, <2>4 DEF ViewsTell, RowsTell
  <2> QED BY <1>3, <1>4, <2>4, <2>5 DEF Kept, OrdersKept, RowsTell, OrdersTell
<1> QED BY <1>3, <1>5, <1>6

LEMMA MergeLookStep ==
  ASSUME ServersTell, RowsTell, VisitorsInTurn, NEW w \in Servers, NEW u \in Customers,
         NEW v \in Devices, MergeLook(w, u, v)
  PROVE  ServersTell' /\ Kept
<1>1. UNCHANGED <<known, owns, link, bought, view>>
  BY DEF MergeLook
<1>2. CASE IsOthers(v, u)
  BY <1>1, <1>2, NobodyServed, Unmoved DEF MergeLook
<1>3. CASE ~IsOthers(v, u)
  <2>1. PICK r : r = [op |-> "merge", user |-> u, device |-> v]
    OBVIOUS
  <2>2. r \in VisitorRequest /\ r # Rests /\ r.op = "merge" /\ r.user = u /\ r.device = v
    BY <2>1 DEF VisitorRequest, Rests
  <2>3. does' = [does EXCEPT ![w] = r]
    BY <1>3, <2>1 DEF MergeLook, Starts
  <2>4. does'[w] = r /\ ~IsOthers(v, u)'
    BY <1>1, <1>3, <2>3 DEF ServersTell, IsOthers
  <2>5. ServerKnows(w)'
    BY <2>2, <2>4 DEF ServerKnows, IsOthers
  <2> QED BY <1>1, <2>2, <2>3, <2>5, OneServed, Unmoved
<1> QED BY <1>2, <1>3

LEMMA MergeCommitStep ==
  ASSUME ServersTell, RowsTell, VisitorsInTurn, NEW w \in Servers, MergeCommit(w)
  PROVE  ServersTell' /\ Kept
<1>1. PICK u, v : u = does[w].user /\ v = does[w].device
  OBVIOUS
<1>2. u \in Customers /\ v \in Devices /\ does[w] # Rests /\ ~IsOthers(v, u)
  BY <1>1, Requested DEF MergeCommit, ServersTell, ServerKnows
<1>3. does' = [does EXCEPT ![w] = Rests] /\ UNCHANGED <<known, owns>>
  BY DEF MergeCommit, Ends
<1>4. ServersTell'
  BY <1>2, <1>3, OneServed DEF VisitorRequest
<1>5. CASE UNCHANGED <<link, bought, view>>
  BY <1>3, <1>4, <1>5, Unmoved
<1>6. CASE /\ link' = [link EXCEPT ![v] = u]
           /\ bought' = Given(bought, v, u) /\ view' = Given(view, v, u)
  <2>1. /\ bought' \in Seq(Purchase) /\ DOMAIN bought' = DOMAIN bought
        /\ \A i \in DOMAIN bought :
             /\ bought'[i].device = bought[i].device /\ bought'[i].guest = bought[i].guest
             /\ bought'[i].user = IF bought[i].device = v /\ bought[i].user = NoId
                                  THEN u ELSE bought[i].user
    BY <1>2, <1>6, OrdersGiven DEF RowsTell
  <2>2. /\ view' \in Seq(Seen) /\ DOMAIN view' = DOMAIN view
        /\ \A i \in DOMAIN view : view'[i].device = view[i].device
    BY <1>2, <1>6, ViewsGiven DEF RowsTell
  <2>3. link' \in [Devices -> {NoRow} \cup Someone] /\ link'[v] = u
        /\ \A x \in Devices : x # v => link'[x] = link[x]
    BY <1>2, <1>6 DEF RowsTell, Someone
  <2>4. link[v] \in {NoRow, NoId, u}
    BY <1>2 DEF IsOthers
  <2>5. \A i \in DOMAIN bought : bought[i].user \in Someone
    <3>1. \A i \in DOMAIN bought : bought[i] \in Purchase
      BY DEF RowsTell
    <3> QED BY <3>1 DEF Purchase
  <2>6. OrdersTell(bought, link)'
    <3> SUFFICES ASSUME NEW i \in DOMAIN bought, bought[i].guest
                 PROVE  /\ bought[i].device \in Devices
                        /\ bought'[i].user # NoId => link'[bought[i].device] = bought'[i].user
      BY <2>1 DEF OrdersTell
    <3>1. /\ bought[i].device \in Devices
          /\ bought[i].user # NoId => link[bought[i].device] = bought[i].user
      BY DEF RowsTell, OrdersTell
    <3>2. CASE bought[i].device = v
      <4>1. bought[i].user # NoId => bought[i].user = u
        BY <2>4, <2>5, <3>1, <3>2, VisitorsAssumption DEF Someone, VisitorsAssumption
      <4> QED BY <2>1, <2>3, <3>1, <3>2, <4>1
    <3>3. CASE bought[i].device # v
      BY <2>1, <2>3, <3>1, <3>3
    <3> QED BY <3>2, <3>3
  <2>7. ViewsTell(view)'
    BY <2>2 DEF RowsTell, ViewsTell
  <2>8. OrdersKept
    BY <2>1 DEF OrdersKept
  <2> QED BY <1>3, <1>4, <2>1, <2>2, <2>3, <2>6, <2>7, <2>8 DEF Kept, RowsTell
<1> QED BY <1>1, <1>5, <1>6 DEF MergeCommit

LEMMA DeleteLookUpStep ==
  ASSUME ServersTell, RowsTell, VisitorsInTurn, NEW w \in Servers, NEW u \in Customers,
         DeleteLookUp(w, u)
  PROVE  ServersTell' /\ Kept
<1>1. UNCHANGED <<known, owns, link, bought, view>>
  BY DEF DeleteLookUp
<1>2. CASE HasOrders(u)
  BY <1>1, <1>2, NobodyServed, Unmoved DEF DeleteLookUp
<1>3. CASE ~HasOrders(u)
  <2>1. PICK r : r = [op |-> "delete", step |-> "cart lines", user |-> u, had |-> owns[u]]
    OBVIOUS
  <2>2. owns[u] \in SUBSET RowKinds
    BY DEF RowsTell
  <2>3. r \in VisitorRequest /\ r # Rests /\ r.op = "delete" /\ r.user = u
    BY <2>1, <2>2 DEF VisitorRequest, Rests
  <2>4. does' = [does EXCEPT ![w] = r]
    BY <1>3, <2>1 DEF DeleteLookUp, Starts
  <2>5. does'[w] = r /\ ~HasOrders(u)'
    BY <1>1, <1>3, <2>4 DEF ServersTell, HasOrders
  <2>6. ServerKnows(w)'
    BY <2>3, <2>5 DEF ServerKnows, HasOrders
  <2> QED BY <1>1, <2>3, <2>4, <2>6, OneServed, Unmoved
<1> QED BY <1>2, <1>3

LEMMA CleanUpStep ==
  ASSUME ServersTell, RowsTell, VisitorsInTurn, NEW w \in Servers, CleanUp(w)
  PROVE  ServersTell' /\ Kept
<1>1. /\ does[w] \in [op : {"delete"}, step : {"cart lines", "codes", "account"},
                      user : Customers, had : SUBSET RowKinds]
      /\ does[w] # Rests /\ does[w].op = "delete"
  BY Requested DEF CleanUp
<1>2. PICK r : r = [does[w] EXCEPT !.step = IF does[w].step = "cart lines" THEN "codes" ELSE "account"]
  OBVIOUS
<1>3. /\ does' = [does EXCEPT ![w] = r] /\ UNCHANGED <<known, link, bought, view>>
      /\ owns' = [owns EXCEPT ![does[w].user] = owns[does[w].user] \ {does[w].step}]
  BY <1>2 DEF CleanUp, Goes
<1>4. r \in VisitorRequest /\ r.op = "delete" /\ r.user = does[w].user
  BY <1>1, <1>2 DEF VisitorRequest
<1>5. does'[w] = r /\ ~HasOrders(r.user)'
  BY <1>1, <1>3, <1>4 DEF ServersTell, ServerKnows, HasOrders
<1>6. ServerKnows(w)'
  BY <1>4, <1>5 DEF ServerKnows, HasOrders
<1>7. owns' \in [Customers -> SUBSET RowKinds]
  BY <1>1, <1>3 DEF RowsTell
<1> QED BY <1>1, <1>3, <1>4, <1>6, <1>7, OneServed
        DEF Kept, OrdersKept, RowsTell, OrdersTell, ViewsTell

\* Whoever has orders is not deleted, and the rest loses its user.
LEMMA DeleteAccountStep ==
  ASSUME ServersTell, RowsTell, VisitorsInTurn, NEW w \in Servers, DeleteAccount(w)
  PROVE  ServersTell' /\ Kept
<1>1. PICK u : u = does[w].user
  OBVIOUS
<1>2. u \in Customers /\ does[w] # Rests /\ ~HasOrders(u)
  BY <1>1, Requested DEF DeleteAccount, ServersTell, ServerKnows
<1>3. does' = [does EXCEPT ![w] = Rests]
  BY DEF DeleteAccount, Ends
<1>4. ServersTell'
  BY <1>2, <1>3, OneServed DEF VisitorRequest
<1>5. CASE UNCHANGED <<known, owns, link, bought, view>>
  BY <1>4, <1>5, Unmoved
<1>6. CASE /\ known' = known \ {u} /\ owns' = [owns EXCEPT ![u] = {}]
           /\ link' = [v \in Devices |-> IF link[v] = u THEN NoId ELSE link[v]]
           /\ bought' = [i \in DOMAIN bought |->
                           IF bought[i].user = u THEN [bought[i] EXCEPT !.user = NoId] ELSE bought[i]]
           /\ view' = [i \in DOMAIN view |->
                         IF view[i].user = u THEN [view[i] EXCEPT !.user = NoId] ELSE view[i]]
  <2>1. /\ Len(bought) \in Nat /\ DOMAIN bought = 1 .. Len(bought)
        /\ \A i \in 1 .. Len(bought) : bought[i] \in Purchase
        /\ Len(view) \in Nat /\ DOMAIN view = 1 .. Len(view)
        /\ \A i \in 1 .. Len(view) : view[i] \in Seen
    BY DEF RowsTell
  <2>2. \A i \in DOMAIN bought : bought[i].user # u
    BY <1>2 DEF HasOrders
  <2>3. bought' = bought
    <3>1. bought' = [i \in 1 .. Len(bought) |-> bought[i]]
      BY <1>6, <2>1, <2>2
    <3>2. bought = [i \in 1 .. Len(bought) |-> bought[i]]
      BY DEF RowsTell
    <3> QED BY <3>1, <3>2
  <2>4. \A i \in 1 .. Len(view) : view'[i] \in Seen /\ view'[i].device = view[i].device
    BY <1>6, <2>1 DEF Seen, Someone
  <2>5. view' \in Seq(Seen) /\ DOMAIN view' = DOMAIN view
    <3>1. view' = [i \in 1 .. Len(view) |-> view'[i]]
      BY <1>6, <2>1
    <3> QED BY <2>1, <2>4, <3>1
  <2>6. ViewsTell(view)'
    BY <2>1, <2>4, <2>5 DEF RowsTell, ViewsTell
  <2>7. link' \in [Devices -> {NoRow} \cup Someone]
    BY <1>6 DEF RowsTell, Someone
  <2>8. \A v \in Devices : link[v] # u => link'[v] = link[v]
    BY <1>6
  <2>9. OrdersTell(bought, link)'
    BY <2>2, <2>3, <2>8 DEF RowsTell, OrdersTell
  <2>10. known' \subseteq Customers /\ owns' \in [Customers -> SUBSET RowKinds]
    BY <1>2, <1>6 DEF RowsTell
  <2> QED BY <1>4, <2>3, <2>5, <2>6, <2>7, <2>9, <2>10 DEF Kept, OrdersKept, RowsTell
<1> QED BY <1>1, <1>5, <1>6 DEF DeleteAccount

LEMMA VisitorsStep ==
  ASSUME ServersTell, RowsTell, VisitorsInTurn
  PROVE  ServersTell' /\ Kept
<1>1. ASSUME NEW w \in Servers, Dies(w) PROVE ServersTell' /\ Kept
  BY <1>1, OneServed, Unmoved DEF Dies, Ends, VisitorRequest
<1> QED
  BY <1>1, BuysStep, KeepsStep, ViewLookStep, ViewVisitorStep, ViewWriteStep, MergeLookStep,
     MergeCommitStep, DeleteLookUpStep, CleanUpStep, DeleteAccountStep
  DEF VisitorsInTurn, VisitorsNext, RowKinds

LEMMA VisitorsBegin == VisitorsInit => ServersTell /\ RowsTell
<1> SUFFICES ASSUME VisitorsInit PROVE ServersTell /\ RowsTell
  OBVIOUS
<1>1. ServersTell
  BY DEF VisitorsInit, ServersTell, ServerKnows, VisitorRequest, Rests
<1>2. RowsTell
  BY DEF VisitorsInit, RowsTell, OrdersTell, ViewsTell, Someone
<1> QED BY <1>1, <1>2

LEMMA VisitorsGoOn ==
  ServersTell /\ RowsTell /\ [VisitorsInTurn]_visitorsVars
    => (ServersTell /\ RowsTell)' /\ [OrdersKeepCustomer]_visitorsVars
<1>1. ASSUME ServersTell, RowsTell, UNCHANGED visitorsVars
      PROVE  (ServersTell /\ RowsTell)' /\ [OrdersKeepCustomer]_visitorsVars
  <2>1. ServersTell'
    BY <1>1 DEF visitorsVars, ServersTell, ServerKnows, Same, IsOthers, HasOrders
  <2> QED BY <1>1, <2>1, Unmoved DEF visitorsVars, Kept
<1>2. Kept => RowsTell' /\ OrdersKeepCustomer
  BY DEF Kept, OrdersKept, OrdersKeepCustomer
<1> QED BY <1>1, <1>2, VisitorsStep

LEMMA VisitorsMoveOn ==
  [MCNext]_<<browseVars, signInVars, visitorsVars, ticketsVars, contentVars, setting>>
    => [VisitorsInTurn]_visitorsVars
  BY DEF MCNext, VisitorsMoves, VisitorsInTurn

LEMMA VisitorsEnd == RowsTell => GuestOrdersGoToOne /\ MergeNeverCollides
<1> SUFFICES ASSUME RowsTell PROVE GuestOrdersGoToOne /\ MergeNeverCollides
  OBVIOUS
<1>1. GuestOrdersGoToOne
  BY DEF RowsTell, OrdersTell, GuestOrdersGoToOne
<1>2. ASSUME NEW u \in known, NEW v \in Devices PROVE ~Collides(u, v)
  <2>1. PICK given : given = Given(view, v, u)
    OBVIOUS
  <2>2. /\ DOMAIN given = DOMAIN view
        /\ \A i \in DOMAIN view : given[i].device = view[i].device
    BY <2>1, ViewsGiven DEF RowsTell
  <2>3. ~Twins(given)
    BY <2>2 DEF RowsTell, ViewsTell, Twins
  <2> QED BY <2>1, <2>3 DEF Collides
<1> QED BY <1>1, <1>2 DEF MergeNeverCollides

\* One request at a time, the orders of a device are given to one account, the
\* one the device is linked to, giving its views to an account never breaks the
\* unique key (mergeGuestData), and an order keeps the customer it has (src/user).
THEOREM GuestDataInTurn ==
  VisitorsAlone => /\ [](GuestOrdersGoToOne /\ MergeNeverCollides)
                   /\ [][OrdersKeepCustomer]_visitorsVars
  BY VisitorsBegin, VisitorsGoOn, VisitorsEnd, PTL DEF VisitorsAlone

\* So it is in the run, of the first two.
THEOREM GuestDataGoesToOne == MCSpec => []GuestDataAlone
<1>1. MCInit => VisitorsInit
  BY DEF MCInit
<1> QED BY <1>1, VisitorsBegin, VisitorsMoveOn, VisitorsGoOn, VisitorsEnd, PTL DEF MCSpec, GuestDataAlone

-----------------------------------------------------------------------------
(* One-time codes.                                                          *)

CodeRow(S) == [user : S, to : S, age : 0 .. 3, expired : BOOLEAN, verified : BOOLEAN, attempts : Nat]

\* Rows are written again: to the same contacts, no younger, and compared within
\* the cap.
Rewritten ==
  /\ DOMAIN code' = DOMAIN code
  /\ \A i \in DOMAIN code :
       /\ code'[i].to = code[i].to /\ code[i].age <= code'[i].age
       /\ code'[i].attempts <= code[i].attempts \/ code'[i].attempts <= MaxChecks

\* One row written again.
LEMMA RowRewritten ==
  ASSUME NEW S, code \in Seq(CodeRow(S)), NEW k, NEW new, code' = [code EXCEPT ![k] = new],
         k \in DOMAIN code => /\ new \in CodeRow(S) /\ new.to = code[k].to /\ code[k].age <= new.age
                              /\ new.attempts <= code[k].attempts \/ new.attempts <= MaxChecks
  PROVE  code' \in Seq(CodeRow(S)) /\ Rewritten
<1>1. PICK C : C = CodeRow(S)
  OBVIOUS
<1>2. code' \in Seq(C) /\ DOMAIN code' = DOMAIN code
  <2>1. Len(code) \in Nat /\ DOMAIN code = 1 .. Len(code) /\ \A i \in 1 .. Len(code) : code[i] \in C
    BY <1>1
  <2>2. /\ DOMAIN code' = 1 .. Len(code) /\ code' = [i \in 1 .. Len(code) |-> code'[i]]
        /\ \A i \in 1 .. Len(code) : code'[i] = IF i = k THEN new ELSE code[i]
    BY <2>1
  <2>3. \A i \in 1 .. Len(code) : code'[i] \in C
    BY <1>1, <2>1, <2>2
  <2>4. PICK c, n : c = code' /\ n = Len(code)
    OBVIOUS
  <2>5. n \in Nat /\ c = [i \in 1 .. n |-> c[i]] /\ \A i \in 1 .. n : c[i] \in C
    BY <2>1, <2>2, <2>3, <2>4
  <2>6. c \in Seq(C)
    BY <2>5
  <2> QED BY <2>1, <2>2, <2>4, <2>6
<1>3. \A i \in DOMAIN code : code[i] \in CodeRow(S)
  OBVIOUS
<1>4. \A i \in DOMAIN code : code'[i] = IF i = k THEN new ELSE code[i]
  OBVIOUS
<1>5. \A i \in DOMAIN code : code[i].age \in 0 .. 3 /\ code[i].attempts \in Nat
  BY <1>3 DEF CodeRow
<1> QED BY <1>1, <1>2, <1>4, <1>5 DEF Rewritten

LEMMA CodesMove ==
  ASSUME NEW w \in Clerks, Serves(w), ~SendCreate(w), NEW S, code \in Seq(CodeRow(S))
  PROVE  code' \in Seq(CodeRow(S)) /\ Rewritten
<1>0. /\ \A i \in DOMAIN code : code[i] \in CodeRow(S)
      /\ \A i \in DOMAIN code : code[i].age \in 0 .. 3 /\ code[i].attempts \in Nat
  <2>1. \A i \in DOMAIN code : code[i] \in CodeRow(S)
    OBVIOUS
  <2> QED BY <2>1 DEF CodeRow
<1>1. CASE UNCHANGED code
  BY <1>0, <1>1 DEF Rewritten
<1>2. CASE SendExpire(w)
  <2>1. PICK C : C = CodeRow(S)
    OBVIOUS
  <2>2. /\ DOMAIN code' = DOMAIN code
        /\ \A i \in DOMAIN code : code'[i] = code[i] \/ code'[i] = [code[i] EXCEPT !.expired = TRUE]
        /\ code' = [i \in DOMAIN code |-> code'[i]]
    BY <1>2 DEF SendExpire
  <2>3. \A i \in DOMAIN code : /\ code'[i] \in CodeRow(S) /\ code'[i].to = code[i].to
                               /\ code'[i].age = code[i].age /\ code'[i].attempts = code[i].attempts
    <3>1. ASSUME NEW c \in CodeRow(S), NEW d, d = c \/ d = [c EXCEPT !.expired = TRUE]
          PROVE  d \in CodeRow(S) /\ d.to = c.to /\ d.age = c.age /\ d.attempts = c.attempts
      BY <3>1 DEF CodeRow
    <3> QED BY <1>0, <2>2, <3>1
  <2>4. code' \in Seq(C)
    BY <2>1, <2>2, <2>3
  <2> QED BY <1>0, <2>1, <2>2, <2>3, <2>4 DEF Rewritten
<1>3. CASE ClaimCode(w)
  <2>1. PICK k : k = serving[w].row
    OBVIOUS
  <2>2. CASE ~code[k].verified /\ code[k].attempts < MaxChecks
    <3>1. PICK new : new = [code[k] EXCEPT !.attempts = code[k].attempts + 1]
      OBVIOUS
    <3>2. code' = [code EXCEPT ![k] = new]
      BY <1>3, <2>1, <2>2, <3>1 DEF ClaimCode
    <3>3. ASSUME k \in DOMAIN code
          PROVE  /\ new \in CodeRow(S) /\ new.to = code[k].to /\ code[k].age <= new.age
                 /\ new.attempts <= MaxChecks
      <4>1. PICK old \in CodeRow(S) : old = code[k]
        BY <1>0, <3>3
      <4>2. new = [old EXCEPT !.attempts = old.attempts + 1] /\ old.attempts < MaxChecks
        BY <2>2, <3>1, <4>1
      <4>3. MaxChecks \in Nat
        BY SignInAssumption DEF SignInAssumption
      <4>4. /\ new \in CodeRow(S) /\ new.to = old.to /\ old.age <= new.age
            /\ new.attempts <= MaxChecks
        <5>1. old.attempts \in Nat /\ old.age \in 0 .. 3
          BY DEF CodeRow
        <5>2. old.attempts + 1 \in Nat /\ old.attempts + 1 <= MaxChecks
          BY <4>2, <4>3, <5>1
        <5>3. PICK n \in Nat : n = old.attempts + 1
          BY <5>2
        <5>4. new \in CodeRow(S) /\ new.to = old.to /\ new.age = old.age /\ new.attempts = n
          BY <4>2, <5>3 DEF CodeRow
        <5> QED BY <5>1, <5>2, <5>3, <5>4
      <4> QED BY <4>1, <4>4
    <3> QED BY <3>2, <3>3, RowRewritten
  <2>3. CASE ~(~code[k].verified /\ code[k].attempts < MaxChecks)
    BY <1>1, <1>3, <2>1, <2>3 DEF ClaimCode
  <2> QED BY <2>2, <2>3
<1>4. CASE Verify(w) \/ Update(w)
  <2>1. PICK k, new : k = serving[w].row /\ new = [code[k] EXCEPT !.verified = TRUE]
    OBVIOUS
  <2>2. UNCHANGED code \/ code' = [code EXCEPT ![k] = new]
    BY <1>4, <2>1 DEF Verify, Update
  <2>3. ASSUME k \in DOMAIN code
        PROVE  /\ new \in CodeRow(S) /\ new.to = code[k].to /\ code[k].age <= new.age
               /\ new.attempts <= code[k].attempts
    <3>1. PICK old \in CodeRow(S) : old = code[k]
      BY <1>0, <2>3
    <3>2. new = [old EXCEPT !.verified = TRUE]
      BY <2>1, <3>1
    <3>3. /\ new \in CodeRow(S) /\ new.to = old.to /\ new.age = old.age
          /\ new.attempts = old.attempts
      BY <3>2 DEF CodeRow
    <3>4. old.age \in Nat /\ old.attempts \in Nat
      BY DEF CodeRow
    <3> QED BY <3>1, <3>3, <3>4
  <2> QED BY <1>1, <2>2, <2>3, RowRewritten
<1>5. CASE \/ SendCheck(w) \/ ClaimLook(w) \/ Admit(w) \/ Refresh(w) \/ Logout(w)
           \/ CheckBruteForce(w) \/ Login(w) \/ RecordFailure(w) \/ ResetAttempts(w)
           \/ Find(w) \/ Register(w) \/ RegisterWrite(w) \/ Google(w) \/ CreateStaff(w) \/ SetActive(w)
  <2>1. UNCHANGED code
    BY <1>5 DEF SendCheck, ClaimLook, Admit, Refresh, Logout, CheckBruteForce, Login, RecordFailure,
                ResetAttempts, Find, Register, RegisterWrite, Google, CreateStaff, SetActive
  <2> QED BY <1>1, <2>1
<1> QED BY <1>2, <1>3, <1>4, <1>5 DEF Serves

\* A code that grows older.
LEMMA CodeAges ==
  ASSUME NEW i \in DOMAIN code, Ages(i), NEW S, code \in Seq(CodeRow(S))
  PROVE  code' \in Seq(CodeRow(S)) /\ Rewritten
<1>1. code[i] \in CodeRow(S)
  OBVIOUS
<1>2. PICK new : new = [code[i] EXCEPT !.age = code[i].age + 1]
  OBVIOUS
<1>3. code' = [code EXCEPT ![i] = new] /\ code[i].age < 3
  BY <1>2 DEF Ages
<1>4. /\ new \in CodeRow(S) /\ new.to = code[i].to /\ code[i].age <= new.age
      /\ new.attempts <= code[i].attempts
  <2>1. PICK old \in CodeRow(S) : old = code[i]
    BY <1>1
  <2>2. new = [old EXCEPT !.age = old.age + 1] /\ old.age < 3
    BY <1>2, <1>3, <2>1
  <2>3. new \in CodeRow(S) /\ new.to = old.to /\ old.age <= new.age /\ new.attempts <= old.attempts
    BY <2>2 DEF CodeRow
  <2> QED BY <2>1, <2>3
<1> QED BY <1>3, <1>4, RowRewritten

\* The row of a code that is sent.
LEMMA CodeSent ==
  ASSUME NEW w \in Clerks, SendCreate(w), NEW S, code \in Seq(CodeRow(S))
  PROVE  /\ \E T : code' \in Seq(CodeRow(T))
         /\ DOMAIN code' = DOMAIN code \cup {Len(code) + 1}
         /\ \A i \in DOMAIN code : code'[i] = code[i]
         /\ code'[Len(code) + 1].to = serving[w].send /\ code'[Len(code) + 1].attempts = 0
<1>1. PICK new : new = [user |-> serving[w].holder, to |-> serving[w].send, age |-> 0,
                        expired |-> FALSE, verified |-> FALSE, attempts |-> 0]
  OBVIOUS
<1>2. code' = Append(code, new)
  BY <1>1 DEF SendCreate
<1>3. PICK T : T = S \cup {serving[w].holder, serving[w].send}
  OBVIOUS
<1>4. PICK A, B : A = CodeRow(S) /\ B = CodeRow(T)
  OBVIOUS
<1>5. A \subseteq B /\ new \in B
  BY <1>1, <1>3, <1>4 DEF CodeRow
<1>6. code \in Seq(A)
  BY <1>4
<1>7. code \in Seq(B)
  BY <1>5, <1>6, SeqMonotonic
<1>8. code' \in Seq(B)
  BY <1>2, <1>5, <1>7
<1>9. /\ DOMAIN code' = DOMAIN code \cup {Len(code) + 1}
      /\ \A i \in DOMAIN code : code'[i] = code[i]
      /\ code'[Len(code) + 1] = new
  BY <1>2, <1>5, <1>7
<1> QED BY <1>1, <1>4, <1>8, <1>9

\* However requests race, no code is compared more often than the cap says.
CodesTell == ServingKnown /\ (\E S : code \in Seq(CodeRow(S))) /\ ChecksWithinCap

LEMMA CheckedWithinCap ==
  ASSUME CodesTell, [SignInNext]_signInVars
  PROVE  CodesTell'
<1>1. PICK S : code \in Seq(CodeRow(S))
  BY DEF CodesTell
<1>2. ASSUME code' \in Seq(CodeRow(S)), Rewritten, ServingKnown' PROVE CodesTell'
  <2>1. \A i \in DOMAIN code : code[i] \in CodeRow(S) /\ code'[i] \in CodeRow(S)
    BY <1>1, <1>2 DEF Rewritten
  <2>2. \A i \in DOMAIN code : code[i].attempts \in Nat /\ code'[i].attempts \in Nat
    BY <2>1 DEF CodeRow
  <2>3. MaxChecks \in Nat
    BY SignInAssumption DEF SignInAssumption
  <2>4. ChecksWithinCap'
    BY <1>2, <2>2, <2>3 DEF CodesTell, ChecksWithinCap, Rewritten
  <2> QED BY <1>2, <2>4 DEF CodesTell
<1>3. ASSUME UNCHANGED code, ServingKnown' PROVE CodesTell'
  BY <1>3 DEF CodesTell, ChecksWithinCap
<1>4. ASSUME NEW w \in Clerks, Serves(w) PROVE CodesTell'
  <2>1. ServingKnown'
    BY <1>4, EachGoesOn DEF CodesTell
  <2>2. CASE SendCreate(w)
    <3>1. MaxChecks \in Nat
      BY SignInAssumption DEF SignInAssumption
    <3>2. /\ \E T : code' \in Seq(CodeRow(T))
          /\ DOMAIN code' = DOMAIN code \cup {Len(code) + 1}
          /\ \A i \in DOMAIN code : code'[i] = code[i]
          /\ code'[Len(code) + 1].attempts = 0
      BY <1>1, <2>2, CodeSent
    <3>3. ChecksWithinCap'
      BY <3>1, <3>2 DEF CodesTell, ChecksWithinCap
    <3> QED BY <2>1, <3>2, <3>3 DEF CodesTell
  <2>3. CASE ~SendCreate(w)
    BY <1>1, <1>2, <1>4, <2>1, <2>3, CodesMove
  <2> QED BY <2>2, <2>3
<1>5. ASSUME NEW i \in DOMAIN code, Ages(i) PROVE CodesTell'
  <2>1. ServingKnown'
    BY <1>5 DEF CodesTell, ServingKnown, Ages
  <2> QED BY <1>1, <1>2, <1>5, <2>1, CodeAges
<1>6. ASSUME NEW to \in Contacts, Quarter(to) PROVE CodesTell'
  BY <1>3, <1>6 DEF Quarter, CodesTell, ServingKnown
<1>7. ASSUME NEW w \in Clerks, NEW r \in Asked, Receives(w, r) PROVE CodesTell'
  BY <1>3, <1>7, ReceivedFields DEF Receives, CodesTell
<1>8. ASSUME UNCHANGED signInVars PROVE CodesTell'
  BY <1>3, <1>8 DEF signInVars, CodesTell, ServingKnown
<1> QED BY <1>4, <1>5, <1>6, <1>7, <1>8 DEF SignInNext, SignInStep

-----------------------------------------------------------------------------
(* One request at a time.                                                   *)

\* Whoever is served is served alone.
LEMMA ServedAlone ==
  ASSUME ClerksAlone, ClerksAlone', NEW w \in Clerks,
         serving[w] # Free \/ serving'[w] # Free,
         \A v \in Clerks : v # w => serving'[v] = serving[v]
  PROVE  ClerksAlone' /\ \A v \in Clerks : v # w => serving'[v] = Free
<1>2. ASSUME NEW v \in Clerks, v # w PROVE serving'[v] = Free
  <2>1. CASE serving[w] # Free
    BY <1>2, <2>1 DEF ClerksAlone
  <2>2. CASE serving'[w] # Free
    BY <1>2, <2>2 DEF ClerksAlone
  <2> QED BY <2>1, <2>2
<1> QED BY <1>2

LEMMA NotFree ==
  ASSUME ServingKnown, NEW w \in Clerks, Serves(w)
  PROVE  serving[w] # Free
<1>0. Free.op = "free"
  BY DEF Free
<1>1. CASE SendCheck(w) \/ SendExpire(w) \/ SendCreate(w) \/ ClaimLook(w) \/ ClaimCode(w)
  BY <1>1 DEF SendCheck, SendExpire, SendCreate, ClaimLook, ClaimCode
<1>2. CASE \/ Admit(w) \/ Refresh(w) \/ Logout(w) \/ CheckBruteForce(w) \/ Login(w)
           \/ RecordFailure(w) \/ ResetAttempts(w)
  BY <1>0, <1>2 DEF Admit, Refresh, Logout, CheckBruteForce, Login, RecordFailure, ResetAttempts, At
<1>3. CASE \/ Find(w) \/ Verify(w) \/ Register(w) \/ RegisterWrite(w) \/ Google(w)
           \/ CreateStaff(w) \/ Update(w) \/ SetActive(w)
  BY <1>0, <1>3 DEF Find, Verify, Register, RegisterWrite, Google, CreateStaff, Update, SetActive, At
<1> QED BY <1>1, <1>2, <1>3 DEF Serves

-----------------------------------------------------------------------------
(* The codes of an hour, one request at a time.                             *)

Recent(to) == {i \in DOMAIN code : code[i].to = to /\ code[i].age < 3}

\* A request that sends a code knows whom to, and once it was checked there is
\* room for one more.
SendSteps == {"send", "expire", "create"}
SendTells(w) ==
  serving[w] # Free /\ serving[w].step \in SendSteps =>
    /\ "send" \in DOMAIN serving[w]
    /\ serving[w].step # "send" => Cardinality(Recent(serving[w].send)) < HourlyLimit
CodesAlone ==
  /\ ServingKnown /\ ClerksAlone /\ \A w \in Clerks : SendTells(w)
  /\ \E S : code \in Seq(CodeRow(S))
  /\ \A to : Cardinality(Recent(to)) <= HourlyLimit

\* There are so many recent codes, and written again they are no more.
LEMMA RecentFinite ==
  ASSUME NEW S, code \in Seq(CodeRow(S)), NEW to
  PROVE  IsFiniteSet(Recent(to)) /\ Cardinality(Recent(to)) \in Nat
<1>1. Recent(to) \subseteq 1 .. Len(code) /\ Len(code) \in Nat
  BY DEF Recent
<1>2. IsFiniteSet(1 .. Len(code))
  BY <1>1, FS_Interval
<1> QED BY <1>1, <1>2, FS_Subset, FS_CardinalityType

LEMMA RecentShrinks ==
  ASSUME NEW S, code \in Seq(CodeRow(S)), code' \in Seq(CodeRow(S)), Rewritten, NEW to
  PROVE  Cardinality(Recent(to)') <= Cardinality(Recent(to))
<1>1. \A i \in DOMAIN code : code[i] \in CodeRow(S) /\ code'[i] \in CodeRow(S)
  BY DEF Rewritten
<1>2. \A i \in DOMAIN code : code[i].age \in 0 .. 3 /\ code'[i].age \in 0 .. 3
  BY <1>1 DEF CodeRow
<1>3. Recent(to)' \subseteq Recent(to)
  BY <1>2 DEF Recent, Rewritten
<1> QED BY <1>3, RecentFinite, FS_Subset

\* A request that goes on elsewhere.
LEMMA SendLater ==
  ASSUME ServingKnown, NEW w \in Clerks, NEW step, NEW more, Then(w, step, more),
         step \notin SendSteps \/ (step = "send" /\ "send" \in DOMAIN more)
  PROVE  SendTells(w)'
  BY ThenFields DEF SendTells, SendSteps

LEMMA SendStays ==
  ASSUME ServingKnown, NEW w \in Clerks, Served(w)
  PROVE  SendTells(w)'
  BY ServedFields DEF SendTells

LEMMA SendStep ==
  ASSUME CodesAlone, NEW w \in Clerks, Serves(w), ~SendCheck(w), ~SendExpire(w)
  PROVE  SendTells(w)'
<1> USE DEF SendSteps
<1>0. /\ \A h, to : "send" \in DOMAIN [holder |-> h, send |-> to]
      /\ \A to : "send" \in DOMAIN [send |-> to]
      /\ ServingKnown
  BY DEF CodesAlone
<1>1. CASE SendCreate(w) \/ ClaimLook(w) \/ ClaimCode(w)
  BY <1>0, <1>1, SendLater, SendStays DEF SendCreate, ClaimLook, ClaimCode
<1>2. CASE Admit(w) \/ Refresh(w) \/ Logout(w)
  BY <1>0, <1>2, SendLater, SendStays DEF Admit, Refresh, Logout
<1>3. CASE CheckBruteForce(w) \/ Login(w) \/ RecordFailure(w)
  BY <1>0, <1>3, SendLater, SendStays DEF CheckBruteForce, Login, RecordFailure
<1>4. CASE ResetAttempts(w)
  BY <1>0, <1>4, SendLater, SendStays DEF ResetAttempts
<1>5. CASE Find(w) \/ Verify(w)
  BY <1>0, <1>5, SendLater, SendStays DEF Find, Verify
<1>6. CASE Register(w) \/ RegisterWrite(w)
  BY <1>0, <1>6, SendLater, SendStays DEF Register, RegisterWrite
<1>7. CASE Google(w)
  BY <1>0, <1>7, SendLater, SendStays DEF Google
<1>8. CASE CreateStaff(w) \/ SetActive(w)
  BY <1>0, <1>8, SendLater, SendStays DEF CreateStaff, SetActive
<1>9. CASE Update(w)
  BY <1>0, <1>9, SendLater, SendStays DEF Update
<1> QED BY <1>1, <1>2, <1>3, <1>4, <1>5, <1>6, <1>7, <1>8, <1>9 DEF Serves

\* One code more, where there was room for it.
LEMMA CodeFits ==
  ASSUME CodesAlone, NEW w \in Clerks, SendCreate(w), NEW to
  PROVE  Cardinality(Recent(to)') <= HourlyLimit
<1>1. PICK S : code \in Seq(CodeRow(S))
  BY DEF CodesAlone
<1>2. /\ DOMAIN code' = DOMAIN code \cup {Len(code) + 1}
      /\ \A i \in DOMAIN code : code'[i] = code[i]
      /\ code'[Len(code) + 1].to = serving[w].send
  BY <1>1, CodeSent
<1>3. IsFiniteSet(Recent(to)) /\ Cardinality(Recent(to)) \in Nat
  BY <1>1, RecentFinite
<1>4. HourlyLimit \in Nat
  BY SignInAssumption DEF SignInAssumption
<1>5. CASE to = serving[w].send
  <2>1. Cardinality(Recent(to)) < HourlyLimit
    BY <1>5 DEF CodesAlone, SendTells, SendCreate, SendSteps
  <2>2. Recent(to)' \subseteq Recent(to) \cup {Len(code) + 1}
    BY <1>2 DEF Recent
  <2>3. /\ IsFiniteSet(Recent(to) \cup {Len(code) + 1})
        /\ Cardinality(Recent(to) \cup {Len(code) + 1}) <= Cardinality(Recent(to)) + 1
        /\ Cardinality(Recent(to) \cup {Len(code) + 1}) \in Nat
    BY <1>3, FS_AddElement, FS_CardinalityType
  <2>4. /\ Cardinality(Recent(to)') <= Cardinality(Recent(to) \cup {Len(code) + 1})
        /\ Cardinality(Recent(to)') \in Nat
    BY <2>2, <2>3, FS_Subset, FS_CardinalityType
  <2> QED BY <1>3, <1>4, <2>1, <2>3, <2>4
<1>6. CASE to # serving[w].send
  <2>1. Recent(to)' \subseteq Recent(to)
    BY <1>2, <1>6 DEF Recent
  <2>2. Cardinality(Recent(to)') <= Cardinality(Recent(to)) /\ Cardinality(Recent(to)') \in Nat
    BY <1>3, <2>1, FS_Subset, FS_CardinalityType
  <2> QED BY <1>3, <1>4, <2>2 DEF CodesAlone
<1> QED BY <1>5, <1>6

\* One request at a time, a contact gets no more codes in an hour than the limit.
LEMMA CodesStep ==
  ASSUME CodesAlone, SignInNext, ClerksAlone'
  PROVE  CodesAlone'
<1>1. PICK S : code \in Seq(CodeRow(S))
  BY DEF CodesAlone
<1>2. HourlyLimit \in Nat
  BY SignInAssumption DEF SignInAssumption
<1>3. ASSUME code' \in Seq(CodeRow(S)), Rewritten
      PROVE  /\ \A to : Cardinality(Recent(to)') <= HourlyLimit
             /\ \A to : Cardinality(Recent(to)) < HourlyLimit => Cardinality(Recent(to)') < HourlyLimit
  <2>1. \A to : /\ Cardinality(Recent(to)') <= Cardinality(Recent(to))
                /\ Cardinality(Recent(to)) \in Nat
    BY <1>1, <1>3, RecentShrinks, RecentFinite
  <2>2. \A to : Cardinality(Recent(to)') \in Nat
    <3>1. ASSUME NEW to PROVE IsFiniteSet(Recent(to)') /\ Cardinality(Recent(to)') \in Nat
      <4>1. Recent(to)' \subseteq 1 .. Len(code') /\ Len(code') \in Nat
        BY <1>3 DEF Recent
      <4>2. IsFiniteSet(1 .. Len(code'))
        BY <4>1, FS_Interval
      <4> QED BY <4>1, <4>2, FS_Subset, FS_CardinalityType
    <3> QED BY <3>1
  <2> QED BY <1>2, <2>1, <2>2 DEF CodesAlone
<1>4. ASSUME NEW w \in Clerks, Serves(w) PROVE CodesAlone'
  <2>1. ServingKnown' /\ \A v \in Clerks : v # w => serving'[v] = serving[v]
    BY <1>4, EachGoesOn DEF CodesAlone, GoesOn
  <2>2. ClerksAlone' /\ \A v \in Clerks : v # w => serving'[v] = Free
    BY <1>4, <2>1, NotFree, ServedAlone DEF CodesAlone
  <2>3. /\ \E T : code' \in Seq(CodeRow(T))
        /\ \A to : Cardinality(Recent(to)') <= HourlyLimit
    BY <1>1, <1>3, <1>4, CodesMove, CodeSent, CodeFits
  <2>4. SendTells(w)'
    <3>1. CASE ~SendCheck(w) /\ ~SendExpire(w)
      BY <1>4, <3>1, SendStep
    <3>2. CASE SendCheck(w)
      <4>1. UNCHANGED code
        BY <3>2 DEF SendCheck
      <4>2. CASE Served(w)
        BY <4>2, SendStays DEF CodesAlone
      <4>3. CASE ~Served(w)
        <5>1. /\ Then(w, "expire", <<>>) /\ "send" \in DOMAIN serving[w]
              /\ ~(Cardinality(Recent(serving[w].send)) >= HourlyLimit)
          BY <3>2, <4>3 DEF SendCheck, Recent, CodesAlone, SendTells, SendSteps
        <5>2. /\ "send" \in DOMAIN serving'[w] /\ serving'[w].send = serving[w].send
              /\ serving'[w].step = "expire"
          BY <5>1, ThenFields DEF CodesAlone
        <5>3. Cardinality(Recent(serving[w].send)) < HourlyLimit
          <6>1. Cardinality(Recent(serving[w].send)) \in Nat
            BY <1>1, RecentFinite
          <6> QED BY <1>2, <5>1, <6>1
        <5> QED BY <4>1, <5>2, <5>3 DEF SendTells, Recent
      <4> QED BY <4>2, <4>3
    <3>3. CASE SendExpire(w)
      <4>1. /\ Then(w, "create", <<>>) /\ "send" \in DOMAIN serving[w]
            /\ Cardinality(Recent(serving[w].send)) < HourlyLimit
        BY <3>3 DEF SendExpire, CodesAlone, SendTells, SendSteps
      <4>2. /\ "send" \in DOMAIN serving'[w] /\ serving'[w].send = serving[w].send
            /\ serving'[w].step = "create"
        BY <4>1, ThenFields DEF CodesAlone
      <4>3. ~SendCreate(w)
        BY <3>3 DEF SendExpire, SendCreate
      <4>4. code' \in Seq(CodeRow(S)) /\ Rewritten
        BY <1>1, <1>4, <4>3, CodesMove
      <4>5. Cardinality(Recent(serving[w].send)') < HourlyLimit
        <5>1. PICK to : to = serving[w].send
          OBVIOUS
        <5>2. Cardinality(Recent(to)') < HourlyLimit
          BY <1>3, <4>1, <4>4, <5>1
        <5>3. Recent(serving[w].send)' = Recent(to)'
          BY <4>2, <5>1
        <5> QED BY <5>2, <5>3
      <4> QED BY <4>2, <4>5 DEF SendTells
    <3> QED BY <3>1, <3>2, <3>3
  <2>5. \A v \in Clerks : SendTells(v)'
    BY <2>2, <2>4 DEF SendTells
  <2> QED BY <2>1, <2>2, <2>3, <2>5 DEF CodesAlone
<1>5. ASSUME NEW w \in Clerks, NEW r \in Asked, Receives(w, r) PROVE CodesAlone'
  <2>1. /\ ServingKnown' /\ \A v \in Clerks : v # w => serving'[v] = serving[v]
        /\ serving'[w].step = FirstStep(r.op) /\ "op" \in DOMAIN serving'[w] /\ serving'[w].op = r.op
    <3>1. "op" \in DOMAIN r
      BY DEF Asked
    <3> QED BY <1>5, <3>1, ReceivedFields DEF CodesAlone
  <2>2. r.op # "free" /\ FirstStep(r.op) \notin SendSteps
    <3>1. r.op \in {"register", "login", "resend", "verify", "update", "profile", "google", "staff",
                    "refresh", "logout", "active"}
      BY DEF Asked
    <3> QED BY <3>1 DEF FirstStep, SendSteps
  <2>3. ClerksAlone' /\ \A v \in Clerks : v # w => serving'[v] = Free
    <3>1. serving'[w] # Free
      BY <2>1, <2>2 DEF Free
    <3> QED BY <2>1, <3>1, ServedAlone DEF CodesAlone
  <2>4. UNCHANGED code
    BY <1>5 DEF Receives
  <2>5. \A v \in Clerks : SendTells(v)'
    BY <2>1, <2>2, <2>3 DEF SendTells
  <2> QED BY <2>1, <2>3, <2>4, <2>5 DEF CodesAlone, Recent
<1>6. ASSUME NEW i \in DOMAIN code, Ages(i) PROVE CodesAlone'
  <2>1. code' \in Seq(CodeRow(S)) /\ Rewritten
    BY <1>1, <1>6, CodeAges
  <2>2. UNCHANGED serving
    BY <1>6 DEF Ages
  <2>3. /\ \A to : Cardinality(Recent(to)') <= HourlyLimit
        /\ \A to : Cardinality(Recent(to)) < HourlyLimit => Cardinality(Recent(to)') < HourlyLimit
    BY <1>3, <2>1
  <2>4. ASSUME NEW v \in Clerks PROVE SendTells(v)'
    <3>1. PICK to : to = serving[v].send
      OBVIOUS
    <3>2. Recent(serving[v].send)' = Recent(to)' /\ Recent(serving[v].send) = Recent(to)
      BY <2>2, <3>1
    <3>3. SendTells(v)
      BY DEF CodesAlone
    <3> QED BY <2>2, <2>3, <3>1, <3>2, <3>3 DEF SendTells
  <2> QED BY <2>1, <2>2, <2>3, <2>4 DEF CodesAlone, ServingKnown, ClerksAlone
<1>7. ASSUME NEW to \in Contacts, Quarter(to) PROVE CodesAlone'
  <2>1. UNCHANGED <<code, serving>>
    BY <1>7 DEF Quarter
  <2> QED BY <2>1 DEF CodesAlone, ServingKnown, ClerksAlone, SendTells, Recent
<1> QED BY <1>4, <1>5, <1>6, <1>7 DEF SignInNext, SignInStep

-----------------------------------------------------------------------------
(* The failures of a quarter of an hour, one request at a time.             *)

AttemptRow == [attempts : Nat, past : BOOLEAN]
LoginSteps == {"check", "forget", "find", "recall", "record", "reset"}

\* The row counts the failures since it began, and those that are past are none.
MissedTells(to) ==
  /\ attempt[to] = Nobody => missed[to] = 0
  /\ attempt[to] # Nobody => IF attempt[to].past THEN missed[to] = 0 ELSE missed[to] <= attempt[to].attempts
  /\ missed[to] <= MaxFailures

\* A sign-in that goes on is not blocked, and has read the row as it is, but for
\* the quarter of an hour that may have passed.
LoginTells(w) ==
  serving[w].op = "login" /\ serving[w].step \in LoginSteps =>
    /\ "to" \in DOMAIN serving[w] /\ serving[w].to \in Contacts
    /\ serving[w].step = "forget" =>
         attempt[serving[w].to] # Nobody /\ attempt[serving[w].to].past
    /\ serving[w].step \in {"find", "recall", "record"} => ~Blocked(attempt[serving[w].to])
    /\ serving[w].step = "record" =>
         IF serving[w].was = Nobody THEN attempt[serving[w].to] = Nobody
         ELSE /\ attempt[serving[w].to] # Nobody
              /\ serving[w].was.attempts = attempt[serving[w].to].attempts
FailuresAlone ==
  /\ ServingKnown /\ ClerksAlone /\ \A w \in Clerks : LoginTells(w)
  /\ attempt \in [Contacts -> {Nobody} \cup AttemptRow] /\ missed \in [Contacts -> Nat]
  /\ \A to \in Contacts : MissedTells(to)

\* Elsewhere a request is about no password.
LEMMA LoginElsewhere ==
  ASSUME ServingKnown, NEW w \in Clerks, Serves(w),
         ~CheckBruteForce(w), ~Login(w), ~RecordFailure(w), ~ResetAttempts(w)
  PROVE  LoginTells(w)' /\ UNCHANGED <<attempt, missed>>
<1>0. Free.op = "free" /\ ServingKnown' /\ GoesOn(w)
  BY EachGoesOn DEF Free
<1>1. ASSUME NEW step, NEW more, Then(w, step, more), step \notin LoginSteps PROVE LoginTells(w)'
  <2>1. serving'[w].step = step
    BY <1>1, ThenFields
  <2> QED BY <1>1, <2>1 DEF LoginTells
<1>2. ASSUME Served(w) PROVE LoginTells(w)'
  <2>1. serving'[w] = Free
    BY <1>2, ServedFields
  <2> QED BY <1>0, <2>1 DEF LoginTells
<1>3. ASSUME serving[w].op # "login" PROVE LoginTells(w)'
  BY <1>0, <1>3 DEF GoesOn, LoginTells
<1> USE DEF LoginSteps
<1>4. CASE SendCheck(w) \/ SendExpire(w) \/ SendCreate(w) \/ ClaimLook(w) \/ ClaimCode(w)
  BY <1>1, <1>2, <1>4 DEF SendCheck, SendExpire, SendCreate, ClaimLook, ClaimCode
<1>5. CASE \/ Admit(w) \/ Refresh(w) \/ Logout(w) \/ Find(w) \/ Verify(w) \/ Register(w)
           \/ RegisterWrite(w) \/ Google(w) \/ CreateStaff(w) \/ Update(w) \/ SetActive(w)
  <2>1. serving[w].op # "login" /\ UNCHANGED <<attempt, missed>>
    BY <1>5 DEF Admit, Refresh, Logout, Find, Verify, Register, RegisterWrite, Google, CreateStaff,
                Update, SetActive, At
  <2> QED BY <1>3, <2>1
<1> QED BY <1>4, <1>5 DEF Serves

\* What a row is.
LEMMA Rowed ==
  ASSUME FailuresAlone, NEW to \in Contacts
  PROVE  /\ attempt[to] # Nobody => attempt[to].attempts \in Nat /\ attempt[to].past \in BOOLEAN
         /\ missed[to] \in Nat
  BY DEF FailuresAlone, AttemptRow

LEMMA CheckStep ==
  ASSUME FailuresAlone, NEW w \in Clerks, CheckBruteForce(w)
  PROVE  /\ LoginTells(w)' /\ UNCHANGED missed
         /\ attempt' \in [Contacts -> {Nobody} \cup AttemptRow]
         /\ \A to \in Contacts : MissedTells(to)'
<1> USE DEF LoginSteps
<1>0. Free.op = "free" /\ ServingKnown /\ LoginTells(w) /\ serving[w].op = "login"
  BY DEF FailuresAlone, Free, CheckBruteForce, At
<1>1. PICK to : to = serving[w].to
  OBVIOUS
<1>2. /\ "to" \in DOMAIN serving[w] /\ to \in Contacts /\ UNCHANGED missed
      /\ serving[w].step = "forget" => attempt[to] # Nobody /\ attempt[to].past
  BY <1>0, <1>1 DEF CheckBruteForce, At, LoginTells
<1>3. ASSUME NEW step, Then(w, step, <<>>)
      PROVE  /\ serving'[w].step = step /\ "to" \in DOMAIN serving'[w] /\ serving'[w].to = to
  BY <1>0, <1>1, <1>2, <1>3, ThenFields
<1>4. CASE Served(w) /\ UNCHANGED attempt
  <2>1. serving'[w] = Free
    BY <1>0, <1>4, ServedFields
  <2> QED BY <1>0, <1>2, <1>4, <2>1 DEF LoginTells, FailuresAlone, MissedTells
<1>5. CASE /\ UNCHANGED attempt /\ ~Blocked(attempt[to])
           /\ Then(w, IF attempt[to] # Nobody /\ attempt[to].past THEN "forget" ELSE "find", <<>>)
  <2>1. PICK step : /\ step = IF attempt[to] # Nobody /\ attempt[to].past THEN "forget" ELSE "find"
                    /\ Then(w, step, <<>>)
    BY <1>5
  <2>2. /\ serving'[w].step = step /\ "to" \in DOMAIN serving'[w] /\ serving'[w].to = to
    BY <1>3, <2>1
  <2>3. LoginTells(w)'
    BY <1>2, <1>5, <2>1, <2>2 DEF LoginTells
  <2> QED BY <1>2, <1>5, <2>3 DEF FailuresAlone, MissedTells
<1>6. CASE /\ attempt[to] # Nobody /\ attempt[to].past
           /\ attempt' = [attempt EXCEPT ![to] = Nobody]
           /\ Then(w, "find", <<>>)
  <2>1. /\ serving'[w].step = "find" /\ "to" \in DOMAIN serving'[w] /\ serving'[w].to = to
    BY <1>3, <1>6
  <2>2. /\ attempt' \in [Contacts -> {Nobody} \cup AttemptRow] /\ attempt'[to] = Nobody
        /\ \A x \in Contacts : x # to => attempt'[x] = attempt[x]
    BY <1>2, <1>6 DEF FailuresAlone
  <2>3. LoginTells(w)'
    BY <1>2, <2>1, <2>2 DEF LoginTells, Blocked
  <2>4. missed[to] = 0
    BY <1>2, <1>6 DEF FailuresAlone, MissedTells
  <2>5. \A x \in Contacts : MissedTells(x)'
    BY <1>2, <2>2, <2>4 DEF FailuresAlone, MissedTells
  <2> QED BY <1>2, <2>2, <2>3, <2>5
<1> QED BY <1>1, <1>2, <1>4, <1>5, <1>6 DEF CheckBruteForce, At

LEMMA LoginStep ==
  ASSUME FailuresAlone, NEW w \in Clerks, Login(w)
  PROVE  LoginTells(w)' /\ UNCHANGED <<attempt, missed>>
<1> USE DEF LoginSteps
<1>0. /\ ServingKnown /\ LoginTells(w) /\ UNCHANGED <<attempt, missed>>
      /\ serving[w].op = "login" /\ serving[w].step = "find"
  BY DEF FailuresAlone, Login, At
<1>1. /\ "to" \in DOMAIN serving[w] /\ serving[w].to \in Contacts
      /\ ~Blocked(attempt[serving[w].to])
  BY <1>0 DEF LoginTells
<1>2. /\ \A h, row0 : DOMAIN [holder |-> h, seen |-> row0] = {"holder", "seen"}
      /\ DOMAIN <<>> = {}
  OBVIOUS
<1>3. CASE Then(w, "recall", <<>>)
  <2>1. /\ serving'[w].step = "recall" /\ "to" \in DOMAIN serving'[w] /\ serving'[w].to = serving[w].to
    BY <1>0, <1>1, <1>2, <1>3, ThenFields
  <2> QED BY <1>0, <1>1, <2>1 DEF LoginTells
<1>4. CASE \E u \in Holder(serving[w].to) : Then(w, "reset", [holder |-> u, seen |-> account[u]])
  <2>1. PICK more : DOMAIN more = {"holder", "seen"} /\ Then(w, "reset", more)
    BY <1>2, <1>4
  <2>2. /\ serving'[w].step = "reset" /\ "to" \in DOMAIN serving'[w] /\ serving'[w].to = serving[w].to
    BY <1>0, <1>1, <2>1, ThenFields
  <2> QED BY <1>0, <1>1, <2>2 DEF LoginTells
<1> QED BY <1>3, <1>4 DEF Login

LEMMA ResetStep ==
  ASSUME FailuresAlone, NEW w \in Clerks, ResetAttempts(w)
  PROVE  /\ LoginTells(w)'
         /\ attempt' \in [Contacts -> {Nobody} \cup AttemptRow] /\ missed' \in [Contacts -> Nat]
         /\ \A to \in Contacts : MissedTells(to)'
<1> USE DEF LoginSteps
<1>0. Free.op = "free" /\ ServingKnown
  BY DEF Free, FailuresAlone
<1>1. PICK to : to = serving[w].to
  OBVIOUS
<1>2. /\ attempt' = [attempt EXCEPT ![to] = Nobody] /\ missed' = [missed EXCEPT ![to] = 0]
      /\ Served(w) \/ \E more : Then(w, "send", more)
  BY <1>1 DEF ResetAttempts
<1>3. LoginTells(w)'
  <2>1. serving'[w] = Free \/ serving'[w].step = "send"
    BY <1>0, <1>2, ThenFields, ServedFields
  <2> QED BY <1>0, <2>1 DEF LoginTells
<1>4. /\ attempt' \in [Contacts -> {Nobody} \cup AttemptRow] /\ missed' \in [Contacts -> Nat]
  BY <1>2 DEF FailuresAlone
<1>5. MaxFailures \in Nat
  BY SignInAssumption DEF SignInAssumption
<1>6. \A x \in Contacts : MissedTells(x)'
  <2>1. ASSUME NEW x \in Contacts, x = to PROVE MissedTells(x)'
    <3>1. attempt'[x] = Nobody /\ missed'[x] = 0
      BY <1>2, <2>1 DEF FailuresAlone
    <3> QED BY <1>5, <3>1 DEF MissedTells
  <2>2. ASSUME NEW x \in Contacts, x # to PROVE MissedTells(x)'
    <3>1. attempt'[x] = attempt[x] /\ missed'[x] = missed[x]
      BY <1>2, <2>2 DEF FailuresAlone
    <3> QED BY <3>1 DEF FailuresAlone, MissedTells
  <2> QED BY <2>1, <2>2
<1> QED BY <1>3, <1>4, <1>6

LEMMA RecordStep ==
  ASSUME FailuresAlone, NEW w \in Clerks, RecordFailure(w)
  PROVE  /\ LoginTells(w)'
         /\ attempt' \in [Contacts -> {Nobody} \cup AttemptRow] /\ missed' \in [Contacts -> Nat]
         /\ \A to \in Contacts : MissedTells(to)'
<1> USE DEF LoginSteps
<1>0. Free.op = "free" /\ ServingKnown /\ LoginTells(w) /\ serving[w].op = "login"
  BY DEF FailuresAlone, Free, RecordFailure, At
<1>1. PICK to : to = serving[w].to
  OBVIOUS
<1>2. /\ "to" \in DOMAIN serving[w] /\ to \in Contacts /\ ~Blocked(attempt[to])
  BY <1>0, <1>1 DEF RecordFailure, At, LoginTells
<1>3. CASE At(w, {"login"}, "recall")
  <2>1. PICK more : more = [was |-> attempt[to]]
    OBVIOUS
  <2>0. DOMAIN more = {"was"} /\ more.was = attempt[to] /\ more["was"] = attempt[to]
    BY <2>1
  <2>2. Then(w, "record", more) /\ UNCHANGED <<attempt, missed>>
    BY <1>1, <1>3, <2>1 DEF RecordFailure, At
  <2>3. /\ serving'[w].step = "record" /\ "to" \in DOMAIN serving'[w] /\ serving'[w].to = to
        /\ serving'[w].was = attempt[to]
    BY <1>0, <1>1, <1>2, <2>0, <2>2, ThenFields
  <2>4. LoginTells(w)'
    BY <1>2, <2>2, <2>3 DEF LoginTells
  <2> QED BY <2>2, <2>4 DEF FailuresAlone, MissedTells
<1>4. CASE At(w, {"login"}, "record")
  <2>1. PICK was : was = serving[w].was
    OBVIOUS
  <2>2. IF was = Nobody THEN attempt[to] = Nobody
        ELSE attempt[to] # Nobody /\ was.attempts = attempt[to].attempts
    BY <1>0, <1>1, <1>4, <2>1 DEF LoginTells, At
  <2>3. PICK n : n = IF was = Nobody THEN 1 ELSE was.attempts + 1
    OBVIOUS
  <2>4. PICK new : new = [attempts |-> n, past |-> FALSE]
    OBVIOUS
  <2>5. /\ Served(w) /\ missed' = [missed EXCEPT ![to] = missed[to] + 1]
        /\ attempt' = [attempt EXCEPT ![to] = new]
    BY <1>1, <1>4, <2>1, <2>2, <2>3, <2>4 DEF RecordFailure, At
  <2>6. /\ missed[to] \in Nat /\ MissedTells(to)
        /\ attempt[to] # Nobody => attempt[to].attempts \in Nat
    BY <1>2, Rowed DEF FailuresAlone
  <2>7. n \in Nat
    BY <2>2, <2>3, <2>6
  <2>8. new \in AttemptRow /\ new # Nobody /\ new.attempts = n /\ new.past = FALSE
    <3>1. new \in AttemptRow /\ new.attempts = n /\ new.past = FALSE
      BY <2>4, <2>7 DEF AttemptRow
    <3>2. Nobody \notin AttemptRow
      BY SignInAssumption, Zenon DEF AttemptRow, SignInAssumption
    <3> QED BY <3>1, <3>2
  <2>9. MaxFailures \in Nat \ {0}
    BY SignInAssumption DEF SignInAssumption
  <2>10. missed[to] + 1 <= n /\ missed[to] + 1 <= MaxFailures
    <3>1. CASE attempt[to] = Nobody
      BY <2>2, <2>3, <2>6, <2>9, <3>1 DEF MissedTells
    <3>2. CASE attempt[to] # Nobody /\ attempt[to].past
      BY <2>2, <2>3, <2>6, <2>9, <3>2 DEF MissedTells
    <3>3. CASE attempt[to] # Nobody /\ ~attempt[to].past
      <4>1. attempt[to].attempts < MaxFailures /\ n = attempt[to].attempts + 1
        BY <1>2, <2>2, <2>3, <2>6, <2>9, <3>3 DEF Blocked
      <4> QED BY <2>6, <2>9, <3>3, <4>1 DEF MissedTells
    <3> QED BY <3>1, <3>2, <3>3
  <2>11. /\ attempt' \in [Contacts -> {Nobody} \cup AttemptRow] /\ missed' \in [Contacts -> Nat]
         /\ attempt'[to] = new /\ missed'[to] = missed[to] + 1
         /\ \A x \in Contacts : x # to => attempt'[x] = attempt[x] /\ missed'[x] = missed[x]
    BY <1>2, <2>5, <2>6, <2>8 DEF FailuresAlone
  <2>12. MissedTells(to)'
    BY <2>8, <2>10, <2>11 DEF MissedTells
  <2>13. \A x \in Contacts : MissedTells(x)'
    BY <2>11, <2>12 DEF FailuresAlone, MissedTells
  <2>14. LoginTells(w)'
    <3>1. serving'[w] = Free
      BY <1>0, <2>5, ServedFields
    <3> QED BY <1>0, <3>1 DEF LoginTells
  <2> QED BY <2>11, <2>13, <2>14
<1> QED BY <1>3, <1>4 DEF RecordFailure

\* One request at a time, no contact fails more often in a quarter of an hour than
\* the limit.
LEMMA FailuresStep ==
  ASSUME FailuresAlone, SignInNext, ClerksAlone'
  PROVE  FailuresAlone'
<1>1. ASSUME NEW w \in Clerks, Serves(w) PROVE FailuresAlone'
  <2>1. ServingKnown' /\ \A v \in Clerks : v # w => serving'[v] = serving[v]
    BY <1>1, EachGoesOn DEF FailuresAlone, GoesOn
  <2>2. ClerksAlone' /\ \A v \in Clerks : v # w => serving'[v] = Free
    BY <1>1, <2>1, NotFree, ServedAlone DEF FailuresAlone
  <2>3. /\ LoginTells(w)'
        /\ attempt' \in [Contacts -> {Nobody} \cup AttemptRow] /\ missed' \in [Contacts -> Nat]
        /\ \A to \in Contacts : MissedTells(to)'
    <3>1. CASE CheckBruteForce(w)
      BY <3>1, CheckStep DEF FailuresAlone
    <3>2. CASE Login(w)
      BY <3>2, LoginStep DEF FailuresAlone, MissedTells
    <3>3. CASE RecordFailure(w)
      BY <3>3, RecordStep
    <3>4. CASE ResetAttempts(w)
      BY <3>4, ResetStep
    <3>5. CASE ~CheckBruteForce(w) /\ ~Login(w) /\ ~RecordFailure(w) /\ ~ResetAttempts(w)
      BY <1>1, <3>5, LoginElsewhere DEF FailuresAlone, MissedTells
    <3> QED BY <3>1, <3>2, <3>3, <3>4, <3>5
  <2>4. Free.op = "free"
    BY DEF Free
  <2>5. \A v \in Clerks : LoginTells(v)'
    BY <2>2, <2>3, <2>4 DEF LoginTells
  <2> QED BY <2>1, <2>2, <2>3, <2>5 DEF FailuresAlone
<1>2. ASSUME NEW w \in Clerks, NEW r \in Asked, Receives(w, r) PROVE FailuresAlone'
  <2>1. /\ ServingKnown' /\ \A v \in Clerks : v # w => serving'[v] = serving[v]
        /\ serving'[w].step = FirstStep(r.op) /\ "op" \in DOMAIN serving'[w] /\ serving'[w].op = r.op
        /\ DOMAIN serving'[w] = {"step"} \cup DOMAIN r
        /\ \A x \in DOMAIN r : serving'[w][x] = r[x]
    <3>1. "op" \in DOMAIN r
      BY DEF Asked
    <3> QED BY <1>2, <3>1, ReceivedFields DEF FailuresAlone
  <2>2. /\ r.op # "free"
        /\ r.op = "login" => "to" \in DOMAIN r /\ r.to \in Contacts
    BY DEF Asked
  <2>3. Free.op = "free"
    BY DEF Free
  <2>4. ClerksAlone' /\ \A v \in Clerks : v # w => serving'[v] = Free
    BY <2>1, <2>2, <2>3, ServedAlone DEF FailuresAlone
  <2>5. UNCHANGED <<attempt, missed>>
    BY <1>2 DEF Receives
  <2>6. r.op = "login" => FirstStep(r.op) = "check"
    BY DEF FirstStep
  <2>7. LoginTells(w)'
    BY <2>1, <2>2, <2>6 DEF LoginTells
  <2>8. \A v \in Clerks : LoginTells(v)'
    BY <2>3, <2>4, <2>7 DEF LoginTells
  <2> QED BY <2>1, <2>4, <2>5, <2>8 DEF FailuresAlone, MissedTells
<1>3. ASSUME NEW i \in DOMAIN code, Ages(i) PROVE FailuresAlone'
  <2>1. UNCHANGED <<attempt, missed, serving>>
    BY <1>3 DEF Ages
  <2> QED BY <2>1 DEF FailuresAlone, ServingKnown, ClerksAlone, LoginTells, MissedTells
<1>4. ASSUME NEW to \in Contacts, Quarter(to) PROVE FailuresAlone'
  <2>1. PICK new : new = [attempt[to] EXCEPT !.past = TRUE]
    OBVIOUS
  <2>2. /\ attempt[to] # Nobody /\ attempt' = [attempt EXCEPT ![to] = new]
        /\ missed' = [missed EXCEPT ![to] = 0] /\ UNCHANGED serving
    BY <1>4, <2>1 DEF Quarter
  <2>3. PICK old \in AttemptRow : old = attempt[to]
    BY <2>2 DEF FailuresAlone
  <2>4. new \in AttemptRow /\ new.past = TRUE /\ new.attempts = attempt[to].attempts
    BY <2>1, <2>3 DEF AttemptRow
  <2>5. new # Nobody
    BY <2>4, SignInAssumption, Zenon DEF AttemptRow, SignInAssumption
  <2>6. /\ attempt' \in [Contacts -> {Nobody} \cup AttemptRow] /\ missed' \in [Contacts -> Nat]
        /\ attempt'[to] = new /\ missed'[to] = 0
        /\ \A x \in Contacts : x # to => attempt'[x] = attempt[x] /\ missed'[x] = missed[x]
    BY <2>2, <2>4 DEF FailuresAlone
  <2>7. MaxFailures \in Nat
    BY SignInAssumption DEF SignInAssumption
  <2>8. \A x \in Contacts : MissedTells(x)'
    BY <2>4, <2>6, <2>7 DEF FailuresAlone, MissedTells
  <2>9. ASSUME NEW w \in Clerks PROVE LoginTells(w)'
    <3>1. \A x \in Contacts : /\ attempt[x] # Nobody =>
                                   /\ attempt'[x] # Nobody /\ attempt'[x].attempts = attempt[x].attempts
                                   /\ attempt[x].past => attempt'[x].past
                              /\ attempt[x] = Nobody => attempt'[x] = Nobody
                              /\ ~Blocked(attempt[x]) => ~Blocked(attempt'[x])
      BY <2>2, <2>4, <2>5, <2>6 DEF Blocked
    <3>2. LoginTells(w)
      BY DEF FailuresAlone
    <3> QED BY <2>2, <3>1, <3>2 DEF LoginTells
  <2> QED BY <2>2, <2>6, <2>8, <2>9 DEF FailuresAlone, ServingKnown, ClerksAlone
<1> QED BY <1>1, <1>2, <1>3, <1>4 DEF SignInNext, SignInStep

LEMMA CodesBegin == SignInInit => CodesTell /\ CodesAlone /\ FailuresAlone
<1> SUFFICES ASSUME SignInInit PROVE CodesTell /\ CodesAlone /\ FailuresAlone
  OBVIOUS
<1>1. /\ ServingKnown /\ ClerksAlone /\ \A w \in Clerks : SendTells(w) /\ LoginTells(w)
  BY DEF SignInInit, ServingKnown, ClerksAlone, SendTells, LoginTells, Free
<1>2. code \in Seq(CodeRow({})) /\ DOMAIN code = {}
  BY DEF SignInInit
<1>3. CodesTell
  BY <1>1, <1>2 DEF CodesTell, ChecksWithinCap
<1>4. \A to : Recent(to) = {}
  BY <1>2 DEF Recent
<1>5. Cardinality({}) = 0 /\ HourlyLimit \in Nat /\ MaxFailures \in Nat
  BY SignInAssumption, FS_EmptySet DEF SignInAssumption
<1>6. CodesAlone
  <2>1. \A to : Cardinality(Recent(to)) <= HourlyLimit
    BY <1>4, <1>5
  <2>2. \E S : code \in Seq(CodeRow(S))
    BY <1>2
  <2> QED BY <1>1, <2>1, <2>2, Zenon DEF CodesAlone
<1>7. FailuresAlone
  BY <1>1, <1>5 DEF SignInInit, FailuresAlone, MissedTells
<1> QED BY <1>3, <1>6, <1>7

LEMMA CodesGoOn ==
  CodesAlone /\ FailuresAlone /\ [SignInNext /\ ClerksAlone']_signInVars
    => CodesAlone' /\ FailuresAlone'
<1>1. ASSUME CodesAlone, FailuresAlone, UNCHANGED signInVars PROVE CodesAlone' /\ FailuresAlone'
  <2>1. UNCHANGED <<code, attempt, missed, serving>>
    BY <1>1 DEF signInVars
  <2>2. CodesAlone'
    BY <1>1, <2>1 DEF CodesAlone, ServingKnown, ClerksAlone, SendTells, Recent
  <2>3. FailuresAlone'
    BY <1>1, <2>1 DEF FailuresAlone, ServingKnown, ClerksAlone, LoginTells, MissedTells
  <2> QED BY <2>2, <2>3
<1> QED BY <1>1, CodesStep, FailuresStep

LEMMA CodesEnd ==
  /\ CodesTell => ChecksWithinCap
  /\ CodesAlone /\ FailuresAlone => CodesWithinCap /\ FailuresWithinCap
  BY DEF CodesTell, CodesAlone, FailuresAlone, MissedTells, Recent, CodesWithinCap, FailuresWithinCap

\* Without overlap a step of the whole is one of a single request.
LEMMA AloneMovesOn ==
  [MCNext]_<<browseVars, signInVars, visitorsVars, ticketsVars, contentVars, setting>>
    => /\ overlap' = overlap
       /\ ~overlap => [SignInNext /\ ClerksAlone']_signInVars
<1>1. ASSUME MCNext PROVE overlap' = overlap /\ (UNCHANGED signInVars \/ SignInMoves)
  BY <1>1 DEF MCNext, setting
<1>2. SignInMoves /\ ~overlap => SignInNext /\ ClerksAlone'
  BY DEF SignInMoves, SignInNext, ClerksAlone
<1> QED BY <1>1, <1>2 DEF setting

\* However requests race, a code is compared no more often than the cap says
\* (claimOtp).
THEOREM ChecksAreCapped == SignInSpec => []ChecksWithinCap
  BY CodesBegin, CheckedWithinCap, CodesEnd, PTL DEF SignInSpec

\* One request at a time a contact gets no more codes in an hour (checkOtpSend) and
\* fails no more often in a quarter of one (checkBruteForce, recordFailedAttempt)
\* than the limits.
THEOREM LimitsHoldInTurn == SignInAlone => [](CodesWithinCap /\ FailuresWithinCap)
  BY CodesBegin, CodesGoOn, CodesEnd, PTL DEF SignInAlone

\* So it is in the run, of the last two where requests do not overlap.
THEOREM LimitsHold == MCSpec => []LimitsHoldAlone
<1> DEFINE Inv == CodesTell /\ (overlap \/ (CodesAlone /\ FailuresAlone))
           vars == <<browseVars, signInVars, visitorsVars, ticketsVars, contentVars, setting>>
<1>1. MCInit => Inv
  BY CodesBegin DEF MCInit
<1>2. Inv /\ [MCNext]_vars => Inv'
  BY SignInMovesOn, CheckedWithinCap, AloneMovesOn, CodesGoOn
<1>3. Inv => LimitsHoldAlone
  BY CodesEnd DEF LimitsHoldAlone
<1> QED BY <1>1, <1>2, <1>3, PTL DEF MCSpec

-----------------------------------------------------------------------------
(* Phones and emails, one request at a time.                                *)

AccountRow ==
  [phone : Phones \cup {Nobody}, email : Mails \cup {Nobody}, role : {"CUSTOMER", "STAFF"},
   isVerified : BOOLEAN, isActive : BOOLEAN, googleId : Mails \cup {Nobody}]
Known(u) == u \in Users /\ account[u] \in AccountRow
Unclaimed(u) == u = Nobody \/ (Known(u) /\ ~account[u].isVerified)

\* What a request brings along.
RequestFields == {"phone", "email", "user", "to", "isActive"}
Brings(r) ==
  /\ r.op = "register" => /\ {"phone", "email"} \subseteq DOMAIN r
                          /\ r.phone \in Phones /\ r.email \in Mails \cup {Nobody}
  /\ r.op \in {"update", "profile"} => {"user", "to"} \subseteq DOMAIN r /\ r.to \in Contacts
  /\ r.op = "active" => {"user", "isActive"} \subseteq DOMAIN r /\ r.isActive \in BOOLEAN
  /\ r.op = "google" => "email" \in DOMAIN r /\ r.email \in Mails
  /\ r.op = "staff" => {"phone", "email"} \subseteq DOMAIN r /\ r.phone \in Phones /\ r.email \in Mails

\* What it has learnt of accounts, and is so until it writes.
Learnt(w) ==
  /\ serving[w].op = "register" /\ serving[w].step \in {"mail", "release", "write"} =>
       "holder" \in DOMAIN serving[w] /\ Unclaimed(serving[w].holder)
  /\ serving[w].op = "register" /\ serving[w].step = "release" =>
       "owner" \in DOMAIN serving[w] /\ \A u \in serving[w].owner : Known(u) /\ ~account[u].isVerified
  /\ serving[w].op \in {"update", "profile", "active"} =>
       "user" \in DOMAIN serving[w] /\ Known(serving[w].user)
  /\ serving[w].op = "verify" /\ serving[w].step \in {"claim", "compare", "mark"} =>
       "holder" \in DOMAIN serving[w] /\ Known(serving[w].holder)
  /\ serving[w].op = "google" /\ serving[w].step = "write" =>
       /\ "holder" \in DOMAIN serving[w]
       /\ serving[w].holder = Nobody \/ Known(serving[w].holder)
AccountsType == account \in [Users -> {Nobody} \cup AccountRow]
DetailsAlone ==
  /\ ServingKnown /\ ClerksAlone /\ AccountsType
  /\ \A w \in Clerks : Brings(serving[w]) /\ Learnt(w)

\* The next row is a new one.
LEMMA NextIsNew ==
  ASSUME Taken # Users
  PROVE  NextUser \in Users \ Taken
<1>1. PICK T : T = Users \ Taken
  OBVIOUS
<1>2. T \subseteq Nat /\ T # {}
  BY <1>1, SignInAssumption DEF SignInAssumption, Taken
<1>3. PICK u \in T : \A v \in T : ~(<<v, u>> \in OpToRel(<, Nat))
  BY <1>2, NatLessThanWellFounded, WFMin, Zenon
<1>4. \A v \in T : u <= v
  <2> TAKE v \in T
  <2>1. u \in Nat /\ v \in Nat
    BY <1>2
  <2>2. ~(v < u)
    BY <1>3, <2>1 DEF OpToRel
  <2> QED BY <2>1, <2>2
<1> QED BY <1>1, <1>4 DEF NextUser

\* A row that is written, unless another has its phone or email.
LEMMA RowSaved ==
  ASSUME AccountsType, NEW u \in Users, NEW row0 \in AccountRow, Save(u, row0)
  PROVE  /\ AccountsType' /\ account'[u] \in {account[u], row0}
         /\ \A v \in Users : v # u => account'[v] = account[v]
<1>1. UNCHANGED account \/ account' = [account EXCEPT ![u] = row0]
  BY DEF Save
<1> QED BY <1>1 DEF AccountsType

LEMMA BringsOn ==
  ASSUME ServingKnown, NEW w \in Clerks, Brings(serving[w]), Serves(w)
  PROVE  Brings(serving'[w])
<1>0. /\ ServingKnown' /\ GoesOn(w) /\ Free.op = "free"
      /\ DOMAIN <<>> = {}
      /\ \A h : DOMAIN [holder |-> h] = {"holder"}
      /\ \A h : DOMAIN [row |-> h] = {"row"}
      /\ \A h : DOMAIN [was |-> h] = {"was"}
      /\ \A h : DOMAIN [owner |-> h] = {"owner"}
      /\ \A h : DOMAIN [send |-> h] = {"send"}
      /\ \A h, to : DOMAIN [holder |-> h, send |-> to] = {"holder", "send"}
      /\ \A h, row0 : DOMAIN [holder |-> h, seen |-> row0] = {"holder", "seen"}
  BY EachGoesOn DEF Free
<1>1. ASSUME NEW step, NEW more, Then(w, step, more), DOMAIN more \cap RequestFields = {}
      PROVE  Brings(serving'[w])
  <2>1. /\ \A x \in DOMAIN serving[w] : x \in RequestFields => serving'[w][x] = serving[w][x]
        /\ DOMAIN serving[w] \subseteq DOMAIN serving'[w]
    <3>1. "step" \notin RequestFields
      BY DEF RequestFields
    <3> QED BY <1>1, <3>1, ThenFields
  <2>2. CASE serving'[w].op = serving[w].op
    <3>1. \A x \in {"phone", "email", "user", "to", "isActive"} :
            x \in DOMAIN serving[w] => serving'[w][x] = serving[w][x]
      BY <2>1 DEF RequestFields
    <3> QED BY <2>1, <2>2, <3>1 DEF Brings
  <2>3. CASE serving'[w] = Free
    BY <1>0, <2>3 DEF Brings
  <2> QED BY <1>0, <2>2, <2>3 DEF GoesOn
<1>2. ASSUME Served(w) PROVE Brings(serving'[w])
  <2>1. serving'[w] = Free
    BY <1>2, ServedFields
  <2> QED BY <1>0, <2>1 DEF Brings
<1> USE DEF RequestFields
<1>3. CASE SendCheck(w) \/ SendExpire(w) \/ SendCreate(w)
  BY <1>0, <1>1, <1>2, <1>3 DEF SendCheck, SendExpire, SendCreate
<1>4. CASE ClaimLook(w) \/ ClaimCode(w)
  BY <1>0, <1>1, <1>2, <1>4 DEF ClaimLook, ClaimCode
<1>5. CASE Admit(w) \/ Refresh(w) \/ Logout(w)
  BY <1>0, <1>1, <1>2, <1>5 DEF Admit, Refresh, Logout
<1>6. CASE CheckBruteForce(w)
  BY <1>0, <1>1, <1>2, <1>6 DEF CheckBruteForce
<1>7. CASE Login(w)
  BY <1>0, <1>1, <1>2, <1>7 DEF Login
<1>8. CASE RecordFailure(w)
  BY <1>0, <1>1, <1>2, <1>8 DEF RecordFailure
<1>9. CASE ResetAttempts(w)
  BY <1>0, <1>1, <1>2, <1>9 DEF ResetAttempts
<1>10. CASE Find(w) \/ Verify(w)
  BY <1>0, <1>1, <1>2, <1>10 DEF Find, Verify
<1>11. CASE Register(w)
  BY <1>0, <1>1, <1>2, <1>11 DEF Register
<1>12. CASE RegisterWrite(w)
  BY <1>0, <1>1, <1>2, <1>12 DEF RegisterWrite
<1>13. CASE Google(w)
  BY <1>0, <1>1, <1>2, <1>13 DEF Google
<1>14. CASE CreateStaff(w) \/ SetActive(w)
  BY <1>0, <1>1, <1>2, <1>14 DEF CreateStaff, SetActive
<1>15. CASE Update(w)
  BY <1>0, <1>1, <1>2, <1>15 DEF Update
<1> QED BY <1>3, <1>4, <1>5, <1>6, <1>7, <1>8, <1>9, <1>10, <1>11, <1>12, <1>13, <1>14, <1>15 DEF Serves

\* What a request has learnt it keeps when it goes on to another step and no
\* account is written.
LEMMA LearntElsewhere ==
  ASSUME ServingKnown, NEW w \in Clerks, Learnt(w), NEW step, NEW more, Then(w, step, more),
         UNCHANGED account, GoesOn(w), DOMAIN more \cap RequestFields = {},
         step \notin {"mail", "release", "write", "claim", "compare", "mark"}
  PROVE  Learnt(w)'
<1>1. serving'[w].step = step /\ (serving'[w] = Free \/ serving'[w].op = serving[w].op)
  BY ThenFields DEF GoesOn
<1>2. CASE serving'[w] = Free
  BY <1>2 DEF Learnt, Free
<1>3. CASE serving'[w].op = serving[w].op
  <2>1. "user" \in DOMAIN serving[w] => "user" \in DOMAIN serving'[w] /\ serving'[w].user = serving[w].user
    BY ThenFields DEF RequestFields
  <2> QED BY <1>1, <1>3, <2>1 DEF Learnt, Known
<1> QED BY <1>1, <1>2, <1>3

LEMMA LearntNothing ==
  ASSUME ServingKnown, NEW w \in Clerks, Served(w)
  PROVE  Learnt(w)'
<1>1. serving'[w] = Free /\ Free.op = "free"
  BY ServedFields DEF Free
<1> QED BY <1>1 DEF Learnt

\* What a step leaves: rows that are rows, what was learnt, and the phones and
\* emails of verified customers, unless it is their own request.
AccountsAfter(w) ==
  /\ AccountsType' /\ Learnt(w)'
  /\ \A u \in Taken : account[u].isVerified => KeepsDetails(u)

\* The rows of others are as they were.
LEMMA OthersKeep ==
  ASSUME NEW u \in Users, account'[u].phone = account[u].phone, account'[u].email = account[u].email
  PROVE  KeepsDetails(u)
  BY DEF KeepsDetails

LEMMA TakenIsKnown ==
  ASSUME AccountsType, NEW u \in Taken
  PROVE  Known(u) /\ u # Nobody
  BY SignInAssumption DEF AccountsType, Taken, Known, SignInAssumption

\* The steps that leave all accounts as they are.
LEMMA NoAccountWritten ==
  ASSUME AccountsType, UNCHANGED account, NEW w \in Clerks, Learnt(w)'
  PROVE  AccountsAfter(w)
<1>1. \A u \in Taken : KeepsDetails(u)
  BY OthersKeep DEF Taken
<1> QED BY <1>1 DEF AccountsAfter, AccountsType

LEMMA CodesLearn ==
  ASSUME DetailsAlone, NEW w \in Clerks,
         SendCheck(w) \/ SendExpire(w) \/ SendCreate(w) \/ ClaimLook(w) \/ ClaimCode(w)
  PROVE  AccountsAfter(w)
<1>0. /\ ServingKnown /\ AccountsType /\ Learnt(w) /\ GoesOn(w) /\ UNCHANGED account
      /\ DOMAIN <<>> = {} /\ \A h : DOMAIN [row |-> h] = {"row"}
  <2>1. /\ ServingKnown /\ AccountsType /\ Learnt(w) /\ Serves(w)
        /\ DOMAIN <<>> = {} /\ \A h : DOMAIN [row |-> h] = {"row"}
    BY DEF DetailsAlone, Serves
  <2>2. UNCHANGED account
    BY DEF SendCheck, SendExpire, SendCreate, ClaimLook, ClaimCode
  <2> QED BY <2>1, <2>2, EachGoesOn
<1>1. CASE SendCheck(w) \/ SendExpire(w) \/ SendCreate(w)
  <2>1. Served(w) \/ Then(w, "expire", <<>>) \/ Then(w, "create", <<>>)
    BY <1>1 DEF SendCheck, SendExpire, SendCreate
  <2> QED BY <1>0, <2>1, LearntElsewhere, LearntNothing, NoAccountWritten
<1>2. CASE ClaimLook(w) \/ ClaimCode(w)
  <2>1. /\ serving[w].step \in {"claim", "compare"}
        /\ \/ Served(w)
           \/ \E step, more : /\ step \in {"compare", "mark"} /\ Then(w, step, more)
                              /\ DOMAIN more \subseteq {"row"}
    BY <1>0, <1>2 DEF ClaimLook, ClaimCode
  <2>2. CASE Served(w)
    BY <1>0, <2>2, LearntNothing, NoAccountWritten
  <2>3. ASSUME NEW step \in {"compare", "mark"}, NEW more, Then(w, step, more), DOMAIN more \subseteq {"row"}
        PROVE  Learnt(w)'
    <3>1. /\ DOMAIN serving[w] \subseteq DOMAIN serving'[w] /\ serving'[w].step = step
          /\ "user" \in DOMAIN serving[w] => serving'[w].user = serving[w].user
          /\ "holder" \in DOMAIN serving[w] => serving'[w].holder = serving[w].holder
          /\ serving'[w] = Free \/ serving'[w].op = serving[w].op
      BY <1>0, <2>3, ThenFields DEF GoesOn
    <3>2. CASE serving'[w] = Free
      BY <3>2 DEF Learnt, Free
    <3>3. CASE serving'[w].op = serving[w].op
      BY <1>0, <2>1, <3>1, <3>3 DEF Learnt, Known
    <3> QED BY <3>1, <3>2, <3>3
  <2> QED BY <1>0, <2>1, <2>2, <2>3, NoAccountWritten
<1> QED BY <1>1, <1>2

LEMMA TokensLearn ==
  ASSUME DetailsAlone, NEW w \in Clerks,
         \/ Admit(w) \/ Refresh(w) \/ Logout(w) \/ CheckBruteForce(w) \/ Login(w)
         \/ RecordFailure(w) \/ ResetAttempts(w)
  PROVE  AccountsAfter(w)
<1>0. /\ ServingKnown /\ AccountsType /\ GoesOn(w) /\ UNCHANGED account /\ Free.op = "free"
      /\ serving[w].op \in {"refresh", "logout", "login"}
  BY EachGoesOn DEF DetailsAlone, Serves, Admit, Refresh, Logout, CheckBruteForce, Login, RecordFailure,
                    ResetAttempts, At, Free
<1>1. serving'[w].op \in {"refresh", "logout", "login", "free"}
  BY <1>0 DEF GoesOn
<1>2. Learnt(w)'
  BY <1>1 DEF Learnt
<1> QED BY <1>0, <1>2, NoAccountWritten

LEMMA FindLearns ==
  ASSUME DetailsAlone, NEW w \in Clerks, Find(w)
  PROVE  AccountsAfter(w)
<1>0. /\ ServingKnown /\ AccountsType /\ GoesOn(w) /\ UNCHANGED account /\ Free.op = "free"
      /\ serving[w].op \in {"resend", "verify"}
  BY EachGoesOn DEF DetailsAlone, Serves, Find, At, Free
<1>1. CASE Served(w)
  BY <1>0, <1>1, LearntNothing, NoAccountWritten
<1>2. CASE ~Served(w)
  <2>1. PICK u, step, more :
          /\ u \in Holder(serving[w].to) /\ Then(w, step, more)
          /\ more = [holder |-> u, send |-> serving[w].to]
    BY <1>2 DEF Find
  <2>2. "holder" \in DOMAIN more /\ more.holder = u
    BY <2>1
  <2>3. "holder" \in DOMAIN serving'[w] /\ serving'[w].holder = u
    BY <1>0, <2>1, <2>2, ThenFields
  <2>4. Known(u)'
    BY <1>0, <2>1, TakenIsKnown DEF Holder, Known
  <2>5. serving'[w].op \in {"resend", "verify", "free"}
    BY <1>0 DEF GoesOn
  <2>6. Learnt(w)'
    BY <2>3, <2>4, <2>5 DEF Learnt, Known
  <2> QED BY <1>0, <2>6, NoAccountWritten
<1> QED BY <1>1, <1>2

LEMMA VerifyKeeps ==
  ASSUME DetailsAlone, NEW w \in Clerks, Verify(w)
  PROVE  AccountsAfter(w)
<1>1. PICK h : h = serving[w].holder
  OBVIOUS
<1>2. /\ ServingKnown /\ AccountsType /\ Served(w) /\ Known(h)
      /\ account' = [account EXCEPT ![h].isVerified = TRUE]
  BY <1>1 DEF DetailsAlone, Verify, At, Learnt
<1>3. PICK old, new : old \in AccountRow /\ old = account[h] /\ new = [old EXCEPT !.isVerified = TRUE]
  BY <1>2 DEF Known
<1>4. new \in AccountRow /\ new.phone = old.phone /\ new.email = old.email
  BY <1>3 DEF AccountRow
<1>5. AccountsType' /\ \A u \in Users : account'[u] = IF u = h THEN new ELSE account[u]
  BY <1>2, <1>3, <1>4 DEF AccountsType, Known
<1>6. \A u \in Taken : KeepsDetails(u)
  BY <1>3, <1>4, <1>5, OthersKeep DEF Taken
<1> QED BY <1>2, <1>5, <1>6, LearntNothing DEF AccountsAfter

\* register: the owner of the phone goes on being the one who signs up, unless
\* verified; the email is taken from owners that are not.
LEMMA RegisterKeeps ==
  ASSUME DetailsAlone, NEW w \in Clerks, Register(w)
  PROVE  AccountsAfter(w)
<1>1. PICK s : s = serving[w]
  OBVIOUS
<1>0. /\ ServingKnown /\ AccountsType /\ GoesOn(w) /\ Brings(s) /\ Learnt(w)
      /\ s.op = "register"
  BY <1>1, EachGoesOn DEF DetailsAlone, Serves, Register, At
<1>2. CASE Served(w) /\ UNCHANGED account
  BY <1>0, <1>2, LearntNothing, NoAccountWritten
<1>3. ASSUME NEW h, NEW owner, NEW step,
             serving'[w].op \in {"register", "free"}, serving'[w].step = step,
             "holder" \in DOMAIN serving'[w], serving'[w].holder = h,
             h = Nobody \/ (h \in Users /\ account'[h] \in AccountRow /\ ~account'[h].isVerified),
             step = "release" =>
               /\ "owner" \in DOMAIN serving'[w] /\ serving'[w].owner = owner
               /\ \A u \in owner : u \in Users /\ account'[u] \in AccountRow /\ ~account'[u].isVerified
      PROVE  Learnt(w)'
  BY <1>3 DEF Learnt, Unclaimed, Known
<1>4. serving'[w].op \in {"register", "free"}
  BY <1>0, <1>1 DEF GoesOn, Free
<1>5. CASE At(w, {"register"}, "look") /\ ~Served(w)
  <2>1. PICK owner : owner = Holder(s.phone)
    OBVIOUS
  <2>2. PICK h : h = IF owner = {} THEN Nobody ELSE CHOOSE u \in owner : TRUE
    OBVIOUS
  <2>3. PICK more : more = [holder |-> h]
    OBVIOUS
  <2>4. UNCHANGED account /\ Then(w, "mail", more) /\ \A u \in owner : ~account[u].isVerified
    BY <1>1, <1>5, <2>1, <2>2, <2>3 DEF Register, At
  <2>5. h = Nobody \/ h \in owner
    BY <2>2
  <2>6. \A u \in owner : Known(u)
    BY <1>0, <2>1, TakenIsKnown DEF Holder
  <2>7. DOMAIN more = {"holder"} /\ more.holder = h
    BY <2>3
  <2>8. "holder" \in DOMAIN serving'[w] /\ serving'[w].holder = h /\ serving'[w].step = "mail"
    BY <1>0, <2>4, <2>7, ThenFields
  <2>9. h = Nobody \/ (h \in Users /\ account'[h] \in AccountRow /\ ~account'[h].isVerified)
    BY <2>4, <2>5, <2>6 DEF Known
  <2>10. Learnt(w)'
    BY <1>3, <1>4, <2>8, <2>9
  <2> QED BY <1>0, <2>4, <2>10, NoAccountWritten
<1>6. CASE At(w, {"register"}, "mail") /\ ~Served(w)
  <2>1. PICK others : others = IF s.email = Nobody THEN {} ELSE Holder(s.email) \ {s.holder}
    OBVIOUS
  <2>2. PICK more : more = [owner |-> others]
    OBVIOUS
  <2>3. PICK step : step = IF others = {} THEN "write" ELSE "release"
    OBVIOUS
  <2>4. UNCHANGED account /\ Then(w, step, more) /\ \A u \in others : ~account[u].isVerified
    BY <1>1, <1>6, <2>1, <2>2, <2>3 DEF Register, At, MailIsTaken
  <2>5. DOMAIN more = {"owner"} /\ more.owner = others
    BY <2>2
  <2>6. \A u \in others : Known(u)
    BY <1>0, <2>1, TakenIsKnown DEF Holder
  <2>7. "holder" \in DOMAIN s /\ Unclaimed(s.holder)
    BY <1>0, <1>1, <1>6 DEF At, Learnt
  <2>8. /\ DOMAIN serving'[w] = {"step"} \cup {"owner"} \cup DOMAIN s
        /\ serving'[w].owner = others /\ serving'[w].step = step /\ serving'[w].holder = s.holder
    BY <1>0, <1>1, <2>4, <2>5, <2>7, ThenFields
  <2>9. PICK h : h = s.holder
    OBVIOUS
  <2>10. h = Nobody \/ (h \in Users /\ account'[h] \in AccountRow /\ ~account'[h].isVerified)
    BY <2>4, <2>7, <2>9 DEF Unclaimed, Known
  <2>11. \A u \in others : u \in Users /\ account'[u] \in AccountRow /\ ~account'[u].isVerified
    BY <2>4, <2>6 DEF Known
  <2>12. "holder" \in DOMAIN serving'[w] /\ "owner" \in DOMAIN serving'[w]
    BY <2>7, <2>8
  <2>13. Learnt(w)'
    BY <1>3, <1>4, <2>8, <2>9, <2>10, <2>11, <2>12
  <2> QED BY <1>0, <2>4, <2>13, NoAccountWritten
<1>7. CASE At(w, {"register"}, "release")
  <2>1. PICK owner : owner = s.owner
    OBVIOUS
  <2>2. /\ Then(w, "write", <<>>) /\ DOMAIN <<>> = {}
        /\ account' = [u \in Users |-> IF u \in owner THEN [account[u] EXCEPT !.email = Nobody]
                                       ELSE account[u]]
    BY <1>1, <1>7, <2>1 DEF Register, At
  <2>3. /\ \A u \in owner : Known(u) /\ ~account[u].isVerified
        /\ "holder" \in DOMAIN s /\ Unclaimed(s.holder)
    BY <1>0, <1>1, <1>7, <2>1 DEF At, Learnt
  <2>4. ASSUME NEW old \in AccountRow, NEW new, new = [old EXCEPT !.email = Nobody]
        PROVE  new \in AccountRow /\ new.isVerified = old.isVerified
    BY <2>4 DEF AccountRow
  <2>5. \A u \in owner : account'[u] \in AccountRow /\ account'[u].isVerified = account[u].isVerified
    BY <2>2, <2>3, <2>4 DEF Known
  <2>6. \A u \in Users : u \notin owner => account'[u] = account[u]
    BY <2>2
  <2>7. AccountsType'
    BY <1>0, <2>2, <2>5, <2>6 DEF AccountsType
  <2>8. "holder" \in DOMAIN serving'[w] /\ serving'[w].holder = s.holder /\ serving'[w].step = "write"
    BY <1>0, <1>1, <2>2, <2>3, ThenFields
  <2>9. PICK h : h = s.holder
    OBVIOUS
  <2>10. h = Nobody \/ (h \in Users /\ account'[h] \in AccountRow /\ ~account'[h].isVerified)
    BY <2>3, <2>5, <2>6, <2>9 DEF Unclaimed, Known
  <2>11. Learnt(w)'
    BY <1>3, <1>4, <2>8, <2>9, <2>10
  <2>12. \A u \in Taken : account[u].isVerified => KeepsDetails(u)
    BY <2>3, <2>6, OthersKeep DEF Taken
  <2> QED BY <2>7, <2>11, <2>12 DEF AccountsAfter
<1> QED BY <1>2, <1>5, <1>6, <1>7 DEF Register, At

\* Whoever writes a new row, or that of an account that is not verified.
LEMMA UnclaimedWritten ==
  ASSUME AccountsType, NEW u \in Users, NEW row0 \in AccountRow, Save(u, row0),
         u \notin Taken \/ ~account[u].isVerified
  PROVE  AccountsType' /\ \A v \in Taken : account[v].isVerified => KeepsDetails(v)
<1>1. AccountsType' /\ \A v \in Users : v # u => account'[v] = account[v]
  BY RowSaved
<1>2. ASSUME NEW v \in Taken, account[v].isVerified PROVE KeepsDetails(v)
  <2>1. v \in Users /\ v # u
    BY <1>2 DEF Taken
  <2> QED BY <1>1, <2>1, OthersKeep
<1> QED BY <1>1, <1>2

LEMMA NewRowIsRow ==
  ASSUME NEW phone \in Phones \cup {Nobody}, NEW email \in Mails \cup {Nobody},
         NEW role \in {"CUSTOMER", "STAFF"}, NEW verified \in BOOLEAN, NEW google \in Mails \cup {Nobody}
  PROVE  NewRow(phone, email, role, verified, google) \in AccountRow
  BY DEF NewRow, AccountRow

LEMMA RegisterWriteKeeps ==
  ASSUME DetailsAlone, NEW w \in Clerks, RegisterWrite(w)
  PROVE  AccountsAfter(w)
<1>1. PICK s : s = serving[w]
  OBVIOUS
<1>0. /\ ServingKnown /\ AccountsType /\ GoesOn(w) /\ Brings(s) /\ Learnt(w)
      /\ s.op = "register" /\ s.step = "write"
  BY <1>1, EachGoesOn DEF DetailsAlone, Serves, RegisterWrite, At
<1>2. PICK u, row0 :
        /\ u = IF s.holder # Nobody THEN s.holder ELSE NextUser
        /\ row0 = IF s.holder # Nobody THEN [account[s.holder] EXCEPT !.email = s.email]
                  ELSE NewRow(s.phone, s.email, "CUSTOMER", FALSE, Nobody)
  OBVIOUS
<1>3. /\ Save(u, row0) /\ (s.holder = Nobody => Taken # Users)
      /\ Served(w) \/ \E more : Then(w, "send", more)
  BY <1>1, <1>2 DEF RegisterWrite
<1>4. Unclaimed(s.holder) /\ s.phone \in Phones /\ s.email \in Mails \cup {Nobody}
  BY <1>0, <1>1 DEF Learnt, Brings
<1>5. u \in Users /\ row0 \in AccountRow /\ (u \notin Taken \/ ~account[u].isVerified)
  <2>1. CASE s.holder = Nobody
    BY <1>2, <1>3, <1>4, <2>1, NextIsNew, NewRowIsRow
  <2>2. CASE s.holder # Nobody
    <3>1. PICK old \in AccountRow : old = account[s.holder]
      BY <1>4, <2>2 DEF Unclaimed, Known
    <3>2. row0 = [old EXCEPT !.email = s.email]
      BY <1>2, <2>2, <3>1
    <3>3. row0 \in AccountRow
      BY <1>4, <3>2 DEF AccountRow
    <3> QED BY <1>2, <1>4, <2>2, <3>3 DEF Unclaimed, Known
  <2> QED BY <2>1, <2>2
<1>6. AccountsType' /\ \A v \in Taken : account[v].isVerified => KeepsDetails(v)
  BY <1>0, <1>3, <1>5, UnclaimedWritten
<1>7. Learnt(w)'
  <2>1. CASE Served(w)
    BY <1>0, <2>1, LearntNothing
  <2>2. CASE \E more : Then(w, "send", more)
    <3>1. serving'[w].step = "send"
      BY <1>0, <2>2, ThenFields
    <3>2. serving'[w].op \in {"register", "free"}
      BY <1>0, <1>1 DEF GoesOn, Free
    <3> QED BY <3>1, <3>2 DEF Learnt
  <2> QED BY <1>3, <2>1, <2>2
<1> QED BY <1>6, <1>7 DEF AccountsAfter

\* A Google account is added to the row with its email, which keeps its details.
LEMMA GoogleKeeps ==
  ASSUME DetailsAlone, NEW w \in Clerks, Google(w)
  PROVE  AccountsAfter(w)
<1>1. PICK s : s = serving[w]
  OBVIOUS
<1>0. /\ ServingKnown /\ AccountsType /\ GoesOn(w) /\ Brings(s) /\ Learnt(w)
      /\ s.op = "google" /\ \A h : DOMAIN [holder |-> h] = {"holder"}
  BY <1>1, EachGoesOn DEF DetailsAlone, Serves, Google, At
<1>2. serving'[w].op \in {"google", "free"}
  BY <1>0, <1>1 DEF GoesOn, Free
<1>3. ASSUME NEW h, NEW step, serving'[w].step = step, "holder" \in DOMAIN serving'[w],
             serving'[w].holder = h,
             step = "write" => h = Nobody \/ (h \in Users /\ account'[h] \in AccountRow)
      PROVE  Learnt(w)'
  BY <1>2, <1>3 DEF Learnt, Known
<1>4. CASE At(w, {"google"}, "look")
  <2>1. PICK h, step, more :
          /\ UNCHANGED account /\ Then(w, step, more) /\ more = [holder |-> h]
          /\ h = Nobody \/ h \in Taken
    BY <1>0, <1>1, <1>4 DEF Google, At
  <2>2. h = Nobody \/ (h \in Users /\ account'[h] \in AccountRow)
    BY <1>0, <2>1, TakenIsKnown DEF Known
  <2>3. DOMAIN more = {"holder"} /\ more.holder = h
    BY <2>1
  <2>4. "holder" \in DOMAIN serving'[w] /\ serving'[w].holder = h /\ serving'[w].step = step
    BY <1>0, <2>1, <2>3, ThenFields
  <2>5. Learnt(w)'
    BY <1>3, <2>2, <2>4
  <2> QED BY <1>0, <2>1, <2>5, NoAccountWritten
<1>5. CASE At(w, {"google"}, "write")
  <2>1. PICK u, row0 :
          /\ u = IF s.holder = Nobody THEN NextUser ELSE s.holder
          /\ row0 = IF s.holder = Nobody THEN NewRow(Nobody, s.email, "CUSTOMER", FALSE, s.email)
                    ELSE [account[u] EXCEPT !.googleId = s.email]
    OBVIOUS
  <2>2. /\ Save(u, row0) /\ (s.holder = Nobody => Taken # Users)
        /\ Served(w) \/ Then(w, "issue", [holder |-> u])
    BY <1>1, <1>5, <2>1 DEF Google, At
  <2>3. s.email \in Mails /\ (s.holder = Nobody \/ Known(s.holder))
    BY <1>0, <1>1, <1>5 DEF Learnt, Brings, At
  <2>4. ASSUME s.holder = Nobody
        PROVE  AccountsType' /\ \A v \in Taken : account[v].isVerified => KeepsDetails(v)
    <3>1. u \in Users \ Taken /\ row0 \in AccountRow
      BY <2>1, <2>2, <2>3, <2>4, NextIsNew, NewRowIsRow
    <3> QED BY <1>0, <2>2, <3>1, UnclaimedWritten
  <2>5. ASSUME s.holder # Nobody
        PROVE  AccountsType' /\ \A v \in Taken : account[v].isVerified => KeepsDetails(v)
    <3>1. PICK old \in AccountRow : old = account[u]
      BY <2>1, <2>3, <2>5 DEF Known
    <3>2. row0 = [old EXCEPT !.googleId = s.email]
      BY <2>1, <2>5, <3>1
    <3>3. u \in Users /\ row0 \in AccountRow /\ row0.phone = old.phone /\ row0.email = old.email
      BY <2>1, <2>3, <2>5, <3>2 DEF AccountRow, Known
    <3>4. /\ AccountsType' /\ account'[u] \in {account[u], row0}
          /\ \A v \in Users : v # u => account'[v] = account[v]
      BY <1>0, <2>2, <3>3, RowSaved
    <3>5. \A v \in Users : account'[v].phone = account[v].phone /\ account'[v].email = account[v].email
      BY <3>1, <3>3, <3>4
    <3>6. \A v \in Taken : KeepsDetails(v)
      BY <3>5, OthersKeep DEF Taken
    <3> QED BY <3>4, <3>6
  <2>6. AccountsType' /\ \A v \in Taken : account[v].isVerified => KeepsDetails(v)
    BY <2>4, <2>5
  <2>7. Learnt(w)'
    <3>1. CASE Served(w)
      BY <1>0, <3>1, LearntNothing
    <3>2. CASE Then(w, "issue", [holder |-> u])
      <4>1. serving'[w].step = "issue"
        BY <1>0, <3>2, ThenFields
      <4> QED BY <1>2, <4>1 DEF Learnt
    <3> QED BY <2>2, <3>1, <3>2
  <2> QED BY <2>6, <2>7 DEF AccountsAfter
<1>6. CASE At(w, {"google"}, "issue")
  <2>1. Served(w) /\ UNCHANGED account
    BY <1>6 DEF Google, At
  <2> QED BY <1>0, <2>1, LearntNothing, NoAccountWritten
<1> QED BY <1>4, <1>5, <1>6 DEF Google

LEMMA CreateStaffKeeps ==
  ASSUME DetailsAlone, NEW w \in Clerks, CreateStaff(w)
  PROVE  AccountsAfter(w)
<1>1. PICK s : s = serving[w]
  OBVIOUS
<1>0. /\ ServingKnown /\ AccountsType /\ GoesOn(w) /\ Brings(s)
      /\ s.op = "staff"
  BY <1>1, EachGoesOn DEF DetailsAlone, Serves, CreateStaff, At
<1>2. Learnt(w)'
  <2>1. serving'[w].op \in {"staff", "free"}
    BY <1>0, <1>1 DEF GoesOn, Free
  <2> QED BY <2>1 DEF Learnt
<1>3. CASE At(w, {"staff"}, "look")
  BY <1>0, <1>2, <1>3, NoAccountWritten DEF CreateStaff, At
<1>4. CASE At(w, {"staff"}, "write")
  <2>1. PICK row0 : row0 = NewRow(s.phone, s.email, "STAFF", TRUE, Nobody)
    OBVIOUS
  <2>2. Taken # Users /\ Save(NextUser, row0)
    BY <1>1, <1>4, <2>1 DEF CreateStaff, At
  <2>3. row0 \in AccountRow /\ NextUser \in Users \ Taken
    BY <1>0, <2>1, <2>2, NewRowIsRow, NextIsNew DEF Brings
  <2> QED BY <1>0, <1>2, <2>2, <2>3, UnclaimedWritten DEF AccountsAfter
<1> QED BY <1>3, <1>4 DEF CreateStaff

\* What a signed-in user's own request has learnt.
LEMMA OwnLearns ==
  ASSUME ServingKnown, NEW w \in Clerks, GoesOn(w), NEW u \in Users, u = serving[w].user,
         "user" \in DOMAIN serving[w], serving[w].op \in {"update", "profile", "active"},
         account'[u] \in AccountRow, NEW step, NEW more,
         Then(w, step, more), DOMAIN more \cap RequestFields = {}
  PROVE  Learnt(w)'
<1>1. "user" \in DOMAIN serving'[w] /\ serving'[w].user = u
  BY ThenFields DEF RequestFields
<1>2. serving'[w].op \in {"update", "profile", "active", "free"}
  BY DEF GoesOn, Free
<1> QED BY <1>1, <1>2 DEF Learnt, Known

\* A customer's own request changes a contact of theirs and of nobody else.
LEMMA UpdateKeeps ==
  ASSUME DetailsAlone, NEW w \in Clerks, Update(w)
  PROVE  AccountsAfter(w)
<1>1. PICK s : s = serving[w]
  OBVIOUS
<1>2. PICK u : u = s.user
  OBVIOUS
<1>0. /\ ServingKnown /\ AccountsType /\ GoesOn(w) /\ Brings(s)
      /\ s.op \in {"update", "profile"} /\ u \in Users /\ account[u] \in AccountRow
      /\ "user" \in DOMAIN s
      /\ DOMAIN <<>> = {}
      /\ \A h, to : DOMAIN [holder |-> h, send |-> to] = {"holder", "send"}
  <2>1. ServingKnown /\ AccountsType /\ Brings(s) /\ Learnt(w)
    BY <1>1 DEF DetailsAlone
  <2>2. GoesOn(w)
    BY <2>1, EachGoesOn DEF Serves
  <2>3. s.op \in {"update", "profile"}
    BY <1>1 DEF Update, At
  <2>4. u \in Users /\ account[u] \in AccountRow /\ "user" \in DOMAIN s
    BY <1>1, <1>2, <2>1, <2>3 DEF Learnt, Known
  <2>5. DOMAIN <<>> = {} /\ \A h, to : DOMAIN [holder |-> h, send |-> to] = {"holder", "send"}
    OBVIOUS
  <2> QED BY <2>1, <2>2, <2>3, <2>4, <2>5
<1>3. CASE At(w, {"update"}, "read") \/ At(w, {"update"}, "mark")
  <2>1. CASE UNCHANGED account /\ \E step, more : Then(w, step, more) /\ DOMAIN more \cap RequestFields = {}
    <3>1. Learnt(w)'
      BY <1>0, <1>1, <1>2, <2>1, OwnLearns
    <3> QED BY <1>0, <2>1, <3>1, NoAccountWritten
  <2>2. CASE ~(UNCHANGED account /\ \E step, more : Then(w, step, more) /\ DOMAIN more \cap RequestFields = {})
    BY <1>0, <1>3, <2>2 DEF Update, At, RequestFields
  <2> QED BY <2>1, <2>2
<1>4. CASE At(w, {"update"}, "write") \/ At(w, {"profile"}, "read")
  <2>1. PICK row0 : row0 = [account[u] EXCEPT ![Kind(s.to)] = s.to]
    OBVIOUS
  <2>2. Save(u, row0) /\ Served(w)
    BY <1>0, <1>1, <1>2, <1>3, <1>4, <2>1 DEF Update, At
  <2>3. PICK old \in AccountRow : old = account[u]
    BY <1>0
  <2>4. row0 \in AccountRow
    BY <1>0, <2>1, <2>3 DEF Brings, Kind, Contacts, AccountRow
  <2>5. AccountsType' /\ \A v \in Users : v # u => account'[v] = account[v]
    BY <1>0, <2>2, <2>4, RowSaved
  <2>6. KeepsDetails(u)
    BY <1>0, <1>1, <1>2, <2>2, ServedFields DEF KeepsDetails
  <2>7. \A v \in Taken : KeepsDetails(v)
    BY <2>5, <2>6, OthersKeep DEF Taken
  <2> QED BY <1>0, <2>2, <2>5, <2>7, LearntNothing DEF AccountsAfter
<1> QED BY <1>3, <1>4 DEF Update

LEMMA SetActiveKeeps ==
  ASSUME DetailsAlone, NEW w \in Clerks, SetActive(w)
  PROVE  AccountsAfter(w)
<1>1. PICK u, new : u = serving[w].user /\ new = serving[w].isActive
  OBVIOUS
<1>2. /\ ServingKnown /\ AccountsType /\ Served(w) /\ u \in Users /\ new \in BOOLEAN
      /\ account[u] \in AccountRow
      /\ UNCHANGED account \/ account' = [account EXCEPT ![u].isActive = new]
  BY <1>1 DEF DetailsAlone, SetActive, At, Learnt, Brings, Known
<1>3. PICK old, row0 : old \in AccountRow /\ old = account[u] /\ row0 = [old EXCEPT !.isActive = new]
  BY <1>2
<1>4. row0 \in AccountRow /\ row0.phone = old.phone /\ row0.email = old.email
  BY <1>2, <1>3 DEF AccountRow
<1>5. AccountsType' /\ \A v \in Users : account'[v] = account[v] \/ (v = u /\ account'[v] = row0)
  BY <1>2, <1>3, <1>4 DEF AccountsType
<1>6. \A v \in Taken : KeepsDetails(v)
  BY <1>3, <1>4, <1>5, OthersKeep DEF Taken
<1> QED BY <1>2, <1>5, <1>6, LearntNothing DEF AccountsAfter

\* So does every step, one request at a time.
LEMMA DetailsStep ==
  ASSUME DetailsAlone, SignInNext, ClerksAlone'
  PROVE  DetailsAlone' /\ VerifiedKeepsDetails
<1>1. ASSUME NEW w \in Clerks, Serves(w) PROVE DetailsAlone' /\ VerifiedKeepsDetails
  <2>1. ServingKnown' /\ \A v \in Clerks : v # w => serving'[v] = serving[v]
    BY <1>1, EachGoesOn DEF DetailsAlone, GoesOn
  <2>2. ClerksAlone' /\ \A v \in Clerks : v # w => serving'[v] = Free
    BY <1>1, <2>1, NotFree, ServedAlone DEF DetailsAlone
  <2>3. AccountsAfter(w)
    <3>1. CASE SendCheck(w) \/ SendExpire(w) \/ SendCreate(w) \/ ClaimLook(w) \/ ClaimCode(w)
      BY <3>1, CodesLearn
    <3>2. CASE \/ Admit(w) \/ Refresh(w) \/ Logout(w) \/ CheckBruteForce(w) \/ Login(w)
               \/ RecordFailure(w) \/ ResetAttempts(w)
      BY <3>2, TokensLearn
    <3>3. CASE Find(w) \/ Verify(w) \/ Register(w) \/ RegisterWrite(w)
      BY <3>3, FindLearns, VerifyKeeps, RegisterKeeps, RegisterWriteKeeps
    <3>4. CASE Google(w) \/ CreateStaff(w) \/ Update(w) \/ SetActive(w)
      BY <3>4, GoogleKeeps, CreateStaffKeeps, UpdateKeeps, SetActiveKeeps
    <3> QED BY <1>1, <3>1, <3>2, <3>3, <3>4 DEF Serves
  <2>4. Brings(serving'[w])
    BY <1>1, BringsOn DEF DetailsAlone
  <2>5. Free.op = "free"
    BY DEF Free
  <2>6. \A v \in Clerks : Brings(serving'[v]) /\ Learnt(v)'
    BY <2>2, <2>3, <2>4, <2>5 DEF AccountsAfter, Brings, Learnt
  <2>7. DetailsAlone'
    BY <2>1, <2>2, <2>3, <2>6 DEF DetailsAlone, AccountsAfter, Brings
  <2> QED BY <2>3, <2>7 DEF AccountsAfter, VerifiedKeepsDetails
<1>2. ASSUME UNCHANGED account PROVE AccountsType' = AccountsType /\ VerifiedKeepsDetails
  BY <1>2, OthersKeep DEF AccountsType, VerifiedKeepsDetails, Taken
<1>3. ASSUME NEW w \in Clerks, NEW r \in Asked, Receives(w, r) PROVE DetailsAlone' /\ VerifiedKeepsDetails
  <2>1. /\ ServingKnown' /\ \A v \in Clerks : v # w => serving'[v] = serving[v]
        /\ serving'[w].step = FirstStep(r.op) /\ "op" \in DOMAIN serving'[w] /\ serving'[w].op = r.op
        /\ DOMAIN serving'[w] = {"step"} \cup DOMAIN r
        /\ \A x \in DOMAIN r : serving'[w][x] = r[x]
    <3>1. "op" \in DOMAIN r
      BY DEF Asked
    <3> QED BY <1>3, <3>1, ReceivedFields DEF DetailsAlone
  <2>2. r.op # "free" /\ Brings(r)
    BY DEF Asked, Brings
  <2>3. Free.op = "free"
    BY DEF Free
  <2>4. ClerksAlone' /\ \A v \in Clerks : v # w => serving'[v] = Free
    BY <2>1, <2>2, <2>3, ServedAlone DEF DetailsAlone
  <2>5. UNCHANGED account /\ ("user" \in DOMAIN r => r.user \in Taken)
    BY <1>3 DEF Receives
  <2>6. Brings(serving'[w])
    BY <2>1, <2>2 DEF Brings
  <2>7. FirstStep(r.op) \notin {"mail", "release", "claim", "compare", "mark"}
        /\ (r.op # "active" => FirstStep(r.op) # "write")
    BY DEF FirstStep, Asked
  <2>8. Learnt(w)'
    <3>1. r.op \in {"update", "profile", "active"} => "user" \in DOMAIN r
      BY <2>2, Zenon DEF Asked, Brings
    <3>2. r.op \in {"update", "profile", "active"} =>
            /\ "user" \in DOMAIN serving'[w] /\ serving'[w].user \in Users
            /\ account'[serving'[w].user] \in AccountRow
      BY <2>1, <2>5, <3>1, TakenIsKnown DEF DetailsAlone, Known
    <3> QED BY <2>1, <2>7, <3>2 DEF Learnt, Known
  <2>9. \A v \in Clerks : Brings(serving'[v]) /\ Learnt(v)'
    BY <2>3, <2>4, <2>6, <2>8 DEF Brings, Learnt
  <2>10. DetailsAlone'
    BY <1>2, <2>1, <2>4, <2>5, <2>9 DEF DetailsAlone, Brings
  <2> QED BY <1>2, <2>5, <2>10
<1>4. ASSUME NEW i \in DOMAIN code, Ages(i) PROVE DetailsAlone' /\ VerifiedKeepsDetails
  <2>1. UNCHANGED <<account, serving>>
    BY <1>4 DEF Ages
  <2> QED BY <1>2, <2>1 DEF DetailsAlone, ServingKnown, ClerksAlone, Learnt, Unclaimed, Known, Brings
<1>5. ASSUME NEW to \in Contacts, Quarter(to) PROVE DetailsAlone' /\ VerifiedKeepsDetails
  <2>1. UNCHANGED <<account, serving>>
    BY <1>5 DEF Quarter
  <2> QED BY <1>2, <2>1 DEF DetailsAlone, ServingKnown, ClerksAlone, Learnt, Unclaimed, Known, Brings
<1> QED BY <1>1, <1>3, <1>4, <1>5 DEF SignInNext, SignInStep

LEMMA DetailsBegin == SignInInit => DetailsAlone
  BY DEF SignInInit, DetailsAlone, ServingKnown, ClerksAlone, AccountsType, Brings, Learnt, Free

LEMMA DetailsGoOn ==
  DetailsAlone /\ [SignInNext /\ ClerksAlone']_signInVars
    => DetailsAlone' /\ [VerifiedKeepsDetails]_signInVars
<1>1. ASSUME DetailsAlone, UNCHANGED signInVars PROVE DetailsAlone'
  <2>1. UNCHANGED <<account, serving>>
    BY <1>1 DEF signInVars
  <2> QED BY <1>1, <2>1 DEF DetailsAlone, ServingKnown, ClerksAlone, AccountsType, Brings, Learnt,
                            Unclaimed, Known
<1> QED BY <1>1, DetailsStep

\* One request at a time, a verified customer loses a phone or an email to
\* nobody else's request (register, findOrCreateGoogleUser, createAdminUser).
THEOREM DetailsKeptInTurn == SignInAlone => [][VerifiedKeepsDetails]_signInVars
  BY DetailsBegin, DetailsGoOn, PTL DEF SignInAlone

\* So it is in the run; and an order keeps the customer it has (src/user).
THEOREM DetailsAreKept == MCSpec => CustomersKeepTheirs
<1> DEFINE Inv == (overlap \/ DetailsAlone) /\ ServersTell /\ RowsTell
           vars == <<browseVars, signInVars, visitorsVars, ticketsVars, contentVars, setting>>
<1>1. MCInit => Inv
  BY DetailsBegin, VisitorsBegin DEF MCInit
<1>2. Inv /\ [MCNext]_vars => Inv' /\ [overlap \/ VerifiedKeepsDetails]_signInVars
                                   /\ [OrdersKeepCustomer]_visitorsVars
  BY AloneMovesOn, DetailsGoOn, VisitorsMoveOn, VisitorsGoOn
<1> QED BY <1>1, <1>2, PTL DEF MCSpec, CustomersKeepTheirs

-----------------------------------------------------------------------------
(* Reading the catalogue and the books.                                     *)

\* A sequence that has every row of M once.
LEMMA SequenceOfRows ==
  ASSUME NEW M \in SUBSET Rows, NEW s \in SetToSeqs(M)
  PROVE  /\ IsFiniteSet(M) /\ Cardinality(M) \in Nat /\ Cardinality(M) <= Cardinality(Rows)
         /\ s \in Seq(M) /\ s \in Seq(Rows) /\ Len(s) = Cardinality(M) /\ DOMAIN s = 1 .. Len(s)
         /\ \A i, j \in 1 .. Len(s) : s[i] = s[j] => i = j
         /\ ToSet(s) = M
<1>1. IsFiniteSet(M) /\ Cardinality(M) \in Nat /\ Cardinality(M) <= Cardinality(Rows)
  BY BrowseAssumption, FS_Subset, FS_CardinalityType
<1> DEFINE n == Cardinality(M)
<1> HIDE DEF n
<1>2. s \in [1 .. n -> M] /\ \A i, j \in 1 .. n : i # j => s[i] # s[j]
  BY Zenon DEF SetToSeqs, n
<1>3. n \in Nat
  BY <1>1 DEF n
<1>4. s \in Seq(M)
  BY <1>2, <1>3, SeqDef
<1>5. DOMAIN s = 1 .. n /\ DOMAIN s = 1 .. Len(s) /\ Len(s) \in Nat
  BY <1>2, <1>4, LenProperties
<1>6. Len(s) = n
  BY <1>3, <1>5
<1>7. s \in Surjection(1 .. n, M)
  <2>1. s \in Injection(1 .. n, M)
    BY <1>2, Zenon DEF Injection, IsInjective
  <2>2. Cardinality(1 .. n) = n
    BY <1>3, FS_Interval
  <2> QED BY <1>1, <2>1, <2>2, FS_Injection, Zenon DEF n
<1>8. ToSet(s) = M
  <2>1. \A x \in M : \E i \in 1 .. n : s[i] = x
    BY <1>7, Zenon DEF Surjection
  <2>2. \A i \in 1 .. n : s[i] \in M
    BY <1>2
  <2> QED BY <1>5, <2>1, <2>2, Zenon DEF ToSet
<1>9. s \in Seq(Rows)
  BY <1>4, SeqMonotonic
<1> QED BY <1>1, <1>2, <1>3, <1>4, <1>5, <1>6, <1>8, <1>9 DEF n

Ascends(s) == \A i, j \in DOMAIN s : i < j => s[i] < s[j]

\* Rows can be put in the order of their ids.
LEMMA RowsInOrder ==
  ASSUME NEW M \in SUBSET Rows
  PROVE  InOrder(M) \in SetToSeqs(M) /\ Ascends(InOrder(M))
<1> DEFINE bad == {U \in SUBSET Rows : ~\E s \in SetToSeqs(U) : Ascends(s)}
<1>1. SUFFICES ASSUME bad # {} PROVE FALSE
  BY Zenon DEF InOrder, Ascends
<1>2. PICK V \in bad : \A U \in bad : Cardinality(V) <= Cardinality(U)
  <2>1. \A U \in bad : IsFiniteSet(U)
    BY BrowseAssumption, FS_Subset
  <2> QED BY <1>1, <2>1, SmallestSet, Zenon
<1>3. V \in SUBSET Rows /\ IsFiniteSet(V) /\ Cardinality(V) \in Nat
  BY <1>2, BrowseAssumption, FS_Subset, FS_CardinalityType
<1>4. V # {}
  <2>1. Cardinality({}) = 0
    BY FS_EmptySet
  <2>2. 1 .. 0 = {}
    OBVIOUS
  <2>3. [i \in {} |-> 0] \in SetToSeqs({}) /\ Ascends([i \in {} |-> 0])
    BY <2>1, <2>2 DEF SetToSeqs, Ascends
  <2> QED BY <1>2, <2>3
<1>5. PICK c \in V : \A x \in V : c <= x
  BY <1>3, <1>4, BrowseAssumption, LeastNumber
<1> DEFINE W == V \ {c}
           n == Cardinality(V)
<1>6. Cardinality(W) = n - 1 /\ W \in SUBSET Rows /\ W \notin bad
  <2>1. Cardinality(W) = n - 1 /\ W \in SUBSET Rows
    BY <1>3, <1>5, FS_RemoveElement
  <2>2. ASSUME W \in bad PROVE FALSE
    <3>1. Cardinality(V) <= Cardinality(W)
      BY <1>2, <2>2, Zenon
    <3> QED BY <1>3, <2>1, <3>1
  <2> QED BY <2>1, <2>2
<1>7. PICK t \in SetToSeqs(W) : Ascends(t)
  BY <1>6
<1>8. t \in [1 .. n - 1 -> W] /\ (\A i, j \in 1 .. n - 1 : i # j => t[i] # t[j]) /\ n \in Nat
  BY <1>3, <1>6, <1>7 DEF SetToSeqs
<1>9. \A i \in 1 .. n - 1 : t[i] \in W /\ t[i] \in Nat /\ c < t[i]
  <2>1. \A x \in W : x \in V /\ x \in Nat /\ c \in Nat /\ c <= x /\ c # x
    BY <1>3, <1>5, BrowseAssumption
  <2>2. \A x \in W : x \in Nat /\ c < x
    BY <2>1
  <2>3. \A i \in 1 .. n - 1 : t[i] \in W
    BY <1>8
  <2> QED BY <2>2, <2>3, Zenon
<1> DEFINE s == [i \in 1 .. n |-> IF i = 1 THEN c ELSE t[i - 1]]
<1>10. s \in SetToSeqs(V)
  <2>1. s \in [1 .. n -> V]
    BY <1>5, <1>8, <1>9
  <2>2. \A i, j \in 1 .. n : i # j => s[i] # s[j]
    BY <1>5, <1>8, <1>9
  <2> QED BY <2>1, <2>2 DEF SetToSeqs
<1>11. Ascends(s)
  <2>1. \A i, j \in 1 .. n - 1 : i < j => t[i] < t[j]
    BY <1>7, <1>8 DEF Ascends
  <2> QED BY <1>5, <1>8, <1>9, <2>1 DEF Ascends
<1> QED BY <1>2, <1>10, <1>11

\* A row that comes before another in a listing that is sorted by its column
\* and then by the id.
Before(x, y) == rank[x] < rank[y] \/ (rank[x] = rank[y] /\ x < y)

\* Such a listing has one order.
LEMMA OneOrder ==
  ASSUME rank \in [Rows -> Ranks],
         NEW M \in SUBSET Rows, NEW s \in AllOrders(M, FALSE), NEW t \in AllOrders(M, FALSE)
  PROVE  s = t
<1>1. /\ s \in SetToSeqs(M) /\ \A i, j \in DOMAIN s : i < j => Before(s[i], s[j])
      /\ t \in SetToSeqs(M) /\ \A i, j \in DOMAIN t : i < j => Before(t[i], t[j])
  BY DEF AllOrders, Before
<1>2. /\ s \in Seq(Rows) /\ t \in Seq(Rows) /\ Len(s) = Len(t) /\ Len(s) \in Nat
      /\ DOMAIN s = 1 .. Len(s) /\ DOMAIN t = 1 .. Len(t)
      /\ \A i, j \in 1 .. Len(s) : s[i] = s[j] => i = j
      /\ \A i, j \in 1 .. Len(t) : t[i] = t[j] => i = j
      /\ ToSet(s) = M /\ ToSet(t) = M
  BY <1>1, SequenceOfRows
<1> DEFINE differ == {i \in 1 .. Len(s) : s[i] # t[i]}
<1>3. SUFFICES ASSUME differ # {} PROVE FALSE
  BY <1>2, SeqEqual
<1>4. PICK i \in differ : \A k \in differ : i <= k
  <2>1. differ \subseteq Nat
    BY <1>2
  <2> QED BY <1>3, <2>1, LeastNumber
<1>5. \A k \in 1 .. i - 1 : s[k] = t[k]
  BY <1>2, <1>4
<1>6. PICK j \in 1 .. Len(t) : t[j] = s[i]
  <2>1. i \in DOMAIN s
    BY <1>2, <1>4, Zenon
  <2>2. s[i] \in ToSet(s)
    BY <2>1, Zenon DEF ToSet
  <2>3. s[i] \in ToSet(t)
    BY <1>2, <2>2, Zenon
  <2> QED BY <1>2, <2>3, Zenon DEF ToSet
<1>7. PICK k \in 1 .. Len(s) : s[k] = t[i]
  <2>2. i \in DOMAIN t
    BY <1>2, <1>4, Zenon
  <2>3. t[i] \in ToSet(t)
    BY <2>2, Zenon DEF ToSet
  <2>1. t[i] \in ToSet(s)
    BY <1>2, <2>3, Zenon
  <2> QED BY <1>2, <2>1, Zenon DEF ToSet
<1>8. i < j /\ i < k
  BY <1>2, <1>4, <1>5, <1>6, <1>7
<1>9. Before(t[i], s[i]) /\ Before(s[i], t[i])
  BY <1>1, <1>2, <1>4, <1>6, <1>7, <1>8
<1>10. s[i] \in Rows /\ t[i] \in Rows
  BY <1>2, <1>4, ElementOfSeq
<1>11. {s[i], t[i], rank[s[i]], rank[t[i]]} \subseteq Nat
  BY <1>10, BrowseAssumption
<1> QED BY <1>9, <1>11 DEF Before

-----------------------------------------------------------------------------
(* What readers are in the middle of.                                       *)

Facets == {Facet[x] : x \in Rows}
Answers == [rows : Seq(Rows), total : 0 .. Cardinality(Rows)]
CachedPages == {l \in Listings : l.cached} \X Pages
Filterings == [at : {"filters"}, offered : SUBSET Facets, quiet : BOOLEAN]
Walks ==
  [at : {"ask", "load", "done"}, list : Listings, facet : Facets \cup {None}, n : Pages,
   got : Seq(Rows), rows : Seq(Rows) \cup {None}, total : (0 .. Cardinality(Rows)) \cup {None},
   fill : BOOLEAN, quiet : BOOLEAN, fresh : BOOLEAN]
Cursors ==
  [at : {"cursor", "end"}, list : {PartnerList, PartnerLowStock}, cursor : Rows \cup {None},
   got : Seq(Rows), stay : SUBSET Rows, lost : BOOLEAN]
Choosings ==
  [at : {"choose", "found", "chosen"}, advice : Advices, tiers : Seq(1 .. Farthest),
   without : SUBSET Rows, chosen : SUBSET Rows, many : Nat,
   fill : BOOLEAN, quiet : BOOLEAN, fresh : BOOLEAN]
KeptChoices == [advice : Advices, without : SUBSET Rows, chosen : SUBSET Rows]
Readings == {NotReading} \cup Filterings \cup Walks \cup Cursors \cup Choosings

\* The rows, the cache and the readers are of their types.
CacheTyped == kept \in [CachedPages -> Answers \cup {None}] /\ advised \in SUBSET KeptChoices
BrowseTyped ==
  /\ row \in [Rows -> States] /\ rank \in [Rows -> Ranks] /\ shelf \in BOOLEAN
  /\ dirty \in Nat /\ drift \in BOOLEAN /\ CacheTyped
  /\ reading \in [Readers -> Readings]

\* A reading is told apart by what it is at.
LEMMA ReadingKinds ==
  ASSUME NEW w \in Readings
  PROVE  /\ w.at = "rest" => w = NotReading
         /\ w.at = "filters" => w \in Filterings
         /\ w.at \in {"ask", "load", "done"} => w \in Walks
         /\ w.at \in {"cursor", "end"} => w \in Cursors
         /\ w.at \in {"choose", "found", "chosen"} => w \in Choosings
         /\ w \in Cursors <=> "stay" \in DOMAIN w
<1>1. CASE w = NotReading
  BY <1>1 DEF NotReading, Cursors
<1>2. CASE w \in Filterings
  BY <1>2 DEF Filterings, Cursors
<1>3. CASE w \in Walks
  BY <1>3 DEF Walks, Cursors
<1>4. CASE w \in Cursors
  BY <1>4 DEF Cursors
<1>5. CASE w \in Choosings
  BY <1>5 DEF Choosings, Cursors
<1> QED BY <1>1, <1>2, <1>3, <1>4, <1>5 DEF Readings

\* The listings: those that are cached, or sorted for the walk, have no shelf,
\* and the shelf's page is not cached.
LEMMA ListingFields ==
  /\ \A l \in Listings : /\ l.tied \in BOOLEAN /\ l.all \in BOOLEAN /\ l.cached \in BOOLEAN
                         /\ l.shelved \in BOOLEAN /\ (l.cached => ~l.shelved)
  /\ GetSeriesWiseProducts \in Listings /\ ~GetSeriesWiseProducts.cached
  /\ GetSeriesWiseProducts.shelved /\ GetSeriesWiseProducts \notin Sorted
  /\ \A l \in Sorted : l \in Listings /\ l.tied = FALSE /\ l.shelved = FALSE
<1> USE DEF Listings, Sorted, LoadAllProducts, GetAdminProducts, GetSeriesWiseProducts,
        GetSubCategoryWiseProducts, LoadOnSaleProducts, GetAllOrders, GetGuestOrders, GetInventory,
        GetWishlist, GetAllBlogs, GetAllBlogsAdmin, ListTickets, ListContactMessages,
        ListReturnRequests, ListRefunds, GetShipments, GetUsers, GetLogs
<1> DEFINE IsListing(l) ==
      \E h, b, c, d \in BOOLEAN, e \in {InTurn, CountFirst, AtOnce} : l = Listing(h, b, c, d, e) /\ (c = FALSE \/ d = FALSE)
<1>1. \A l \in Listings : IsListing(l)
  <2> SUFFICES ASSUME NEW l \in Listings PROVE IsListing(l)
    OBVIOUS
  <2>1. CASE l \in {LoadAllProducts, GetAdminProducts, GetAllOrders, GetInventory}
    BY <2>1, Zenon
  <2>2. CASE l \in {GetSeriesWiseProducts, GetSubCategoryWiseProducts, LoadOnSaleProducts}
    BY <2>2, Zenon
  <2>3. CASE l \in {GetGuestOrders, GetWishlist, GetAllBlogs, GetAllBlogsAdmin, ListTickets}
    BY <2>3, Zenon
  <2>4. CASE l \in {ListContactMessages, ListReturnRequests, ListRefunds, GetShipments, GetUsers, GetLogs}
    BY <2>4, Zenon
  <2> QED BY <2>1, <2>2, <2>3, <2>4, Zenon
<1>2. \A h, b, c, d, e : /\ Listing(h, b, c, d, e).tied = h /\ Listing(h, b, c, d, e).all = b
                         /\ Listing(h, b, c, d, e).cached = c /\ Listing(h, b, c, d, e).shelved = d
  BY DEF Listing
<1>3. ASSUME NEW l \in Listings
      PROVE  /\ l.tied \in BOOLEAN /\ l.all \in BOOLEAN /\ l.cached \in BOOLEAN
             /\ l.shelved \in BOOLEAN /\ (l.cached => ~l.shelved)
  <2>1. PICK h, b, c, d \in BOOLEAN, e \in {InTurn, CountFirst, AtOnce} :
          l = Listing(h, b, c, d, e) /\ (c = FALSE \/ d = FALSE)
    BY <1>1, <1>3, Zenon
  <2>2. l.tied = h /\ l.all = b /\ l.cached = c /\ l.shelved = d
    <3> HIDE DEF Listings
    <3> QED BY <1>2, <2>1
  <2> QED BY <2>1, <2>2, Zenon
<1>4. \A l \in Sorted : l \in Listings /\ l.tied = FALSE /\ l.shelved = FALSE
  <2>1. \A l \in Sorted : /\ l = LoadAllProducts \/ l = GetAdminProducts \/ l = GetAllOrders \/ l = GetInventory
                          /\ l \in Listings
    BY Zenon
  <2>2. /\ LoadAllProducts.tied = FALSE /\ GetAdminProducts.tied = FALSE
        /\ GetAllOrders.tied = FALSE /\ GetInventory.tied = FALSE
    BY DEF Listing
  <2>3. /\ LoadAllProducts.shelved = FALSE /\ GetAdminProducts.shelved = FALSE
        /\ GetAllOrders.shelved = FALSE /\ GetInventory.shelved = FALSE
    BY DEF Listing
  <2> QED BY <2>1, <2>2, <2>3, Zenon
<1>5. /\ GetSeriesWiseProducts \in Listings /\ ~GetSeriesWiseProducts.cached
      /\ GetSeriesWiseProducts.shelved /\ GetSeriesWiseProducts.tied = TRUE
  <2>1. GetSeriesWiseProducts \in Listings
    BY Zenon
  <2>2. GetSeriesWiseProducts.cached = FALSE
    BY DEF Listing
  <2>3. GetSeriesWiseProducts.shelved = TRUE
    BY DEF Listing
  <2>4. GetSeriesWiseProducts.tied = TRUE
    BY <1>2, Zenon
  <2> QED BY <2>1, <2>2, <2>3, <2>4, Zenon
<1> HIDE DEF Listings, Sorted, GetSeriesWiseProducts
<1>6. GetSeriesWiseProducts \notin Sorted
  BY <1>4, <1>5, Zenon
<1> QED BY <1>3, <1>4, <1>5, <1>6, Zenon

\* Pages of a sequence of rows are sequences of rows.
LEMMA PageOfRows ==
  ASSUME NEW s \in Seq(Rows), NEW n \in Nat \ {0}
  PROVE  /\ Page(s, n) \in Seq(Rows)
         /\ Upto(s, n) \in Seq(Rows)
<1>1. Len(s) \in Nat /\ \A i \in 1 .. Len(s) : s[i] \in Rows
  BY ElementOfSeq, LenProperties
<1>2. PageSize \in Nat /\ PageSize > 0
  BY BrowseAssumption
<1>3. (n - 1) * PageSize \in Nat /\ n * PageSize \in Nat
  BY <1>2
<1> DEFINE h == (n - 1) * PageSize
           b == n * PageSize
<1>4. h \in Nat /\ b \in Nat
  BY <1>3
<1> HIDE DEF h, b
<1>5. SubSeq(s, h + 1, Lesser(b, Len(s))) \in Seq(Rows)
  BY <1>1, <1>4, SubSeqProperties DEF Lesser
<1>6. SubSeq(s, 1, Lesser(n, Len(s))) \in Seq(Rows)
  BY <1>1, SubSeqProperties DEF Lesser
<1> QED BY <1>5, <1>6 DEF Page, Upto, h, b

\* More pages have more rows.
LEMMA Product ==
  ASSUME NEW c \in Int, NEW n \in Int, NEW size \in Nat
  PROVE  /\ c * size \in Int /\ (c + 1) * size = c * size + size /\ (c - 1) * size = c * size - size
         /\ (c <= n => c * size <= n * size)
  OBVIOUS

\* There is a next page if and only if the pages so far do not have all rows.
LEMMA PagesCount ==
  ASSUME NEW total \in Nat, NEW n \in Nat
  PROVE  TotalPages(total) \in Nat /\ (n < TotalPages(total) <=> n * PageSize < total)
<1> DEFINE size == PageSize
           pages == TotalPages(total)
<1>1. size \in Nat /\ size > 0
  BY BrowseAssumption
<1>2. pages \in Nat /\ pages * size <= total + size - 1 /\ total + size - 1 < (pages + 1) * size
  BY <1>1 DEF TotalPages
<1> HIDE DEF size, pages
<1>3. n < pages => (n + 1) * size <= pages * size
  BY <1>1, <1>2, Product
<1>4. ~(n < pages) => (pages + 1) * size <= (n + 1) * size
  BY <1>1, <1>2, Product
<1>5. /\ (n + 1) * size = n * size + size
      /\ n * size \in Int /\ pages * size \in Int /\ (pages + 1) * size \in Int
  BY <1>1, <1>2, Product
<1>6. n < pages <=> n * size < total
  BY <1>1, <1>2, <1>3, <1>4, <1>5
<1> QED BY <1>2, <1>6 DEF size, pages

-----------------------------------------------------------------------------
(* Every step keeps the types.                                              *)

\* The page after one that is not the last is a page.
LEMMA NextPage ==
  ASSUME NEW total \in 0 .. Cardinality(Rows), NEW n \in Pages, n < TotalPages(total)
  PROVE  n + 1 \in Pages
<1>1. Cardinality(Rows) \in Nat /\ n \in Nat /\ n > 0 /\ PageSize \in Nat
  BY BrowseAssumption, FS_CardinalityType DEF Pages
<1>2. n * PageSize < total
  BY <1>1, PagesCount
<1>3. n * PageSize < Cardinality(Rows)
  BY <1>1, <1>2, Product
<1>4. n < TotalPages(Cardinality(Rows)) /\ TotalPages(Cardinality(Rows)) \in Nat
  BY <1>1, <1>3, PagesCount
<1> QED BY <1>1, <1>4 DEF TotalPages, Pages

\* There is a first page.
LEMMA FirstPage == 1 \in Pages
<1>1. Cardinality(Rows) \in Nat /\ Cardinality(Rows) # 0 /\ 0 * PageSize = 0
  BY BrowseAssumption, FS_CardinalityType, FS_EmptySet
<1>2. 0 < TotalPages(Cardinality(Rows)) /\ TotalPages(Cardinality(Rows)) \in Nat
  BY <1>1, PagesCount
<1> QED BY <1>2 DEF TotalPages, Pages

\* A listing finds rows.
LEMMA MatchingRows ==
  ASSUME NEW list, NEW facet
  PROVE  /\ Matching(list, facet) \in SUBSET Rows
         /\ Cardinality(Matching(list, facet)) \in 0 .. Cardinality(Rows)
<1>1. Matching(list, facet) \in SUBSET Rows
  BY DEF Matching, Existing, Shown
<1> QED BY <1>1, BrowseAssumption, FS_Subset, FS_CardinalityType

\* What is received is put after what there was.
LEMMA ReceiveFields ==
  ASSUME BrowseTyped, NEW r \in Readers, reading[r].at \in {"ask", "load"},
         NEW answer \in Answers, NEW fresh \in BOOLEAN, Receive(r, answer, fresh)
  PROVE  /\ UNCHANGED <<row, rank, shelf, dirty, drift>>
         /\ reading' = [reading EXCEPT ![r] = reading'[r]] /\ reading'[r] \in Walks
         /\ reading'[r].list = reading[r].list /\ reading'[r].facet = reading[r].facet
         /\ reading'[r].quiet = reading[r].quiet
         /\ reading'[r].fresh => reading[r].fresh /\ fresh
         /\ reading'[r].got = reading[r].got \o answer.rows
         /\ reading'[r].rows = None /\ reading'[r].total = None /\ reading'[r].fill = FALSE
         /\ reading[r].n < TotalPages(answer.total) =>
              reading'[r].n = reading[r].n + 1 /\ reading'[r].at = "ask"
         /\ ~(reading[r].n < TotalPages(answer.total)) =>
              reading'[r].n = reading[r].n /\ reading'[r].at = "done"
<1> DEFINE w == reading[r]
           more == w.n < TotalPages(answer.total)
           good == w.fresh /\ fresh
           page == IF more THEN w.n + 1 ELSE w.n
           at == IF more THEN "ask" ELSE "done"
           got == w.got \o answer.rows
           new == [w EXCEPT !.got = got, !.rows = None, !.total = None,
                            !.fill = FALSE, !.fresh = good, !.n = page, !.at = at]
<1>1. w \in Walks
  BY ReadingKinds DEF BrowseTyped
<1>2. UNCHANGED <<row, rank, shelf, dirty, drift>> /\ reading' = [reading EXCEPT ![r] = new]
  BY DEF Receive, Step
<1>3. got \in Seq(Rows)
  BY <1>1, ConcatProperties DEF Walks, Answers
<1>4. page \in Pages
  BY <1>1, NextPage DEF Walks, Answers
<1>7. good \in BOOLEAN /\ at \in {"ask", "done"}
  OBVIOUS
<1>8. /\ more => page = w.n + 1 /\ at = "ask"
      /\ ~more => page = w.n /\ at = "done"
  OBVIOUS
<1> HIDE DEF more, good, page, at, got
<1>5. /\ new \in Walks
      /\ new.list = w.list /\ new.facet = w.facet /\ new.quiet = w.quiet /\ new.fresh = good
      /\ new.got = got /\ new.rows = None /\ new.total = None /\ new.fill = FALSE
      /\ new.n = page /\ new.at = at
  BY <1>1, <1>3, <1>4, <1>7 DEF Walks
<1>6. reading'[r] = new
  BY <1>2 DEF BrowseTyped
<1> HIDE DEF new
<1> QED BY <1>2, <1>5, <1>6, <1>8 DEF more, good, got

\* A write is noticed, and leaves a reading of its kind.
LEMMA NoticedFields ==
  ASSUME NEW w \in Readings, NEW new
  PROVE  /\ Noticed(w, new) \in Readings /\ Noticed(w, new).at = w.at
         /\ w \in Walks \cup Filterings \cup Choosings => Noticed(w, new) = [w EXCEPT !.quiet = FALSE]
         /\ w \in Cursors => Noticed(w, new) =
              [w EXCEPT !.stay = @ \cap Stock(w.list, new),
                        !.lost = @ \/ \E x \in Rows : new[x] = "gone" /\ row[x] # "gone"]
<1>1. CASE w \in Cursors
  <2> DEFINE loses == \E x \in Rows : new[x] = "gone" /\ row[x] # "gone"
  <2>1. w.at # "rest" /\ "stay" \in DOMAIN w
    BY <1>1 DEF Cursors
  <2>2. Noticed(w, new) = [w EXCEPT !.stay = @ \cap Stock(w.list, new), !.lost = @ \/ loses]
    BY <2>1 DEF Noticed
  <2>3. loses \in BOOLEAN
    OBVIOUS
  <2> HIDE DEF loses
  <2>4. Noticed(w, new) \in Cursors /\ Noticed(w, new).at = w.at
    BY <1>1, <2>2, <2>3 DEF Cursors
  <2>5. w \notin Walks \cup Filterings \cup Choosings
    BY <1>1 DEF Cursors, Walks, Filterings, Choosings
  <2> QED BY <2>2, <2>4, <2>5 DEF Readings, loses
<1>2. CASE w \in Walks \cup Filterings \cup Choosings
  <2>1. w.at # "rest" /\ w \notin Cursors /\ "stay" \notin DOMAIN w
    BY <1>2 DEF Cursors, Walks, Filterings, Choosings
  <2>2. Noticed(w, new) = [w EXCEPT !.quiet = FALSE]
    BY <2>1 DEF Noticed
  <2>3. Noticed(w, new) \in Readings /\ Noticed(w, new).at = w.at
    BY <1>2, <2>2 DEF Walks, Filterings, Choosings, Readings
  <2> QED BY <2>1, <2>2, <2>3
<1>3. CASE w = NotReading
  BY <1>3 DEF Noticed, NotReading, Readings, Cursors, Walks, Filterings, Choosings
<1> QED BY <1>1, <1>2, <1>3 DEF Readings

\* Choosings ask nearer tiers first, and stop with as many as fit or fewer.
LEMMA AdviceFields ==
  ASSUME NEW advice \in Advices
  PROVE  /\ advice.tiers \in Seq(1 .. Farthest) /\ Len(advice.tiers) \in Nat /\ Len(advice.tiers) > 0
         /\ \A i, j \in 1 .. Len(advice.tiers) : i < j => advice.tiers[i] <= advice.tiers[j]
         /\ advice.enough \in Nat /\ advice.enough <= Full /\ advice.spare \in Nat
         /\ advice.cached \in BOOLEAN
<1>1. Farthest \in Nat /\ Farthest > 1 /\ {Enough, Full, Spare} \subseteq Nat /\ Enough <= Full
  BY BrowseAssumption, LenProperties DEF Farthest
<1> HIDE DEF Farthest
<1> DEFINE Fine(s) == /\ s \in Seq(1 .. Farthest) /\ Len(s) \in Nat /\ Len(s) > 0
                      /\ \A i, j \in 1 .. Len(s) : i < j => s[i] <= s[j]
<1>3. Fine([k \in 1 .. Farthest |-> k])
  <2> DEFINE s == [k \in 1 .. Farthest |-> k]
  <2>1. s \in [1 .. Farthest -> 1 .. Farthest]
    OBVIOUS
  <2>2. s \in Seq(1 .. Farthest)
    BY <1>1, <2>1, SeqDef
  <2>3. Len(s) = Farthest
    BY <1>1
  <2> QED BY <1>1, <2>2, <2>3
<1>4. Fine(<<1, 2, Farthest>>) /\ Fine(<<Farthest>>) /\ Fine(<<1>>)
  BY <1>1
<1>5. /\ YouMayAlsoLike.tiers = [k \in 1 .. Farthest |-> k] /\ Recommended.tiers = <<1, 2, Farthest>>
      /\ RecommendedToStranger.tiers = <<Farthest>> /\ SubCategoryBased.tiers = <<1>>
  BY DEF YouMayAlsoLike, Recommended, RecommendedToStranger, SubCategoryBased, Advice
<1>6. advice.enough \in {Enough, Full} /\ advice.spare \in {0, Spare} /\ advice.cached \in BOOLEAN
  <2>1. PICK t, n, s, b : /\ advice = Advice(t, n, s, b) /\ n \in {Enough, Full} /\ s \in {0, Spare}
                          /\ b \in {TRUE, FALSE}
    BY Zenon DEF Advices, YouMayAlsoLike, Recommended, RecommendedToStranger, SubCategoryBased
  <2>2. {TRUE, FALSE} = BOOLEAN
    OBVIOUS
  <2>3. advice.enough = n /\ advice.spare = s /\ advice.cached = b
    BY <2>1 DEF Advice
  <2> QED BY <2>1, <2>2, <2>3, Zenon
<1>7. Fine(advice.tiers)
  <2> HIDE DEF Fine
  <2> QED BY <1>3, <1>4, <1>5, Zenon DEF Advices
<1> QED BY <1>1, <1>6, <1>7

\* A window is rows.
LEMMA WindowOfRows ==
  ASSUME NEW list, NEW cursor
  PROVE  Window(list, cursor) \in Seq(Rows)
<1> DEFINE ahead == InOrder({x \in Stock(list, row) : cursor = None \/ x >= cursor})
<1>1. ahead \in Seq(Rows)
  <2>1. {x \in Stock(list, row) : cursor = None \/ x >= cursor} \in SUBSET Rows
    BY DEF Stock
  <2> QED BY <2>1, RowsInOrder, SequenceOfRows, Zenon
<1> HIDE DEF ahead
<1>2. Len(ahead) \in Nat /\ \A i \in 1 .. Len(ahead) : ahead[i] \in Rows
  BY <1>1, LenProperties, ElementOfSeq
<1>3. SubSeq(ahead, 2, Len(ahead)) \in Seq(Rows)
  BY <1>2, SubSeqProperties
<1>4. PageSize + 1 \in Nat \ {0}
  BY BrowseAssumption
<1>5. /\ Upto(ahead, PageSize + 1) \in Seq(Rows)
      /\ Upto(SubSeq(ahead, 2, Len(ahead)), PageSize + 1) \in Seq(Rows)
  BY <1>1, <1>3, <1>4, PageOfRows
<1>6. <<>> \in Seq(Rows)
  BY EmptySeq
<1> QED BY <1>5, <1>6, Zenon DEF Window, ahead

\* One reader does something, and nothing else changes: the types are kept.
LEMMA OneReads ==
  ASSUME BrowseTyped, NEW r \in Readers, NEW w \in Readings, Step(r, w), CacheTyped'
  PROVE  BrowseTyped' /\ reading' = [reading EXCEPT ![r] = w] /\ reading'[r] = w
         /\ UNCHANGED <<row, rank, shelf, dirty, drift>>
  BY DEF BrowseTyped, Step

\* A writer changes the row and tells the readers.
Says == Announced \/ Unannounced
LEMMA WriteTyped ==
  ASSUME BrowseTyped, NEW new \in [Rows -> States], NEW ranks \in [Rows -> Ranks],
         Write(new, ranks), Says, shelf' \in BOOLEAN
  PROVE  /\ BrowseTyped' /\ row' = new /\ UNCHANGED cache /\ ~UpToDate'
         /\ \A v \in Readers : reading'[v] = Noticed(reading[v], new)
<1>1. \A v \in Readers : Noticed(reading[v], new) \in Readings
  BY NoticedFields DEF BrowseTyped
<1>2. reading' = [v \in Readers |-> Noticed(reading[v], new)] /\ row' = new /\ rank' = ranks
      /\ UNCHANGED <<kept, advised>>
  BY DEF Write, cache
<1>3. reading' \in [Readers -> Readings]
  BY <1>1, <1>2, Zenon
<1>4. dirty' \in Nat /\ drift' \in BOOLEAN /\ ~UpToDate'
  <2>1. CASE Announced
    <3>1. dirty' = dirty + 1 /\ drift' = drift
      BY <2>1 DEF Announced
    <3>2. dirty' \in Nat /\ dirty' # 0
      BY <3>1 DEF BrowseTyped
    <3> QED BY <3>1, <3>2, Zenon DEF UpToDate, BrowseTyped
  <2>2. CASE Unannounced
    <3>1. drift' = TRUE /\ dirty' = dirty
      BY <2>2 DEF Unannounced
    <3> QED BY <3>1, Zenon DEF UpToDate, BrowseTyped
  <2> QED BY <2>1, <2>2 DEF Says
<1> QED BY <1>2, <1>3, <1>4 DEF BrowseTyped, CacheTyped, cache

\* The writers, and what they write: no row is forgotten.
RowWrites ==
  \/ \E x \in Rows, state \in States : Insert(x, state) \/ \E n \in Ranks : Switch(x, state, n)
  \/ \E x \in Rows : DeleteRow(x)
LEMMA WrittenRows ==
  ASSUME BrowseTyped, RowWrites \/ SwitchShelf
  PROVE  /\ BrowseTyped' /\ UNCHANGED cache /\ ~UpToDate'
         /\ \A v \in Readers : reading'[v] = Noticed(reading[v], row')
         /\ \A x \in Existing : row'[x] \in {"shown", "hidden", "gone"}
<1>1. CASE SwitchShelf
  <2>1. Write(row, rank) /\ Says /\ shelf' \in BOOLEAN /\ row' = row
    BY <1>1 DEF SwitchShelf, Write, Says, BrowseTyped
  <2>2. \A y \in Existing : row'[y] \in {"shown", "hidden", "gone"}
    BY <2>1 DEF Existing
  <2>3. row \in [Rows -> States] /\ rank \in [Rows -> Ranks]
    BY DEF BrowseTyped
  <2> QED BY <2>1, <2>2, <2>3, WriteTyped
<1>2. CASE RowWrites
  <2>1. PICK x \in Rows, state \in {"shown", "hidden", "gone"}, ranks \in [Rows -> Ranks] :
          Write([row EXCEPT ![x] = state], ranks) /\ Says /\ shelf' = shelf
    <3>1. CASE \E x \in Rows, state \in States : Insert(x, state)
      BY <3>1 DEF Insert, Says, BrowseTyped
    <3>2. ASSUME NEW x \in Rows, NEW state \in States, NEW n \in Ranks, Switch(x, state, n)
          PROVE  \E ranks \in [Rows -> Ranks] :
                   /\ state \in {"shown", "hidden", "gone"}
                   /\ Write([row EXCEPT ![x] = state], ranks) /\ Says /\ shelf' = shelf
      <4>1. [rank EXCEPT ![x] = n] \in [Rows -> Ranks]
        BY DEF BrowseTyped
      <4> QED BY <3>2, <4>1 DEF Switch, Says
    <3>3. CASE \E x \in Rows : DeleteRow(x)
      BY <3>3 DEF DeleteRow, Says, BrowseTyped
    <3> QED BY <1>2, <3>1, <3>2, <3>3 DEF RowWrites
  <2>2. PICK new : new = [row EXCEPT ![x] = state]
    OBVIOUS
  <2>3. new \in [Rows -> States] /\ \A y \in Existing : new[y] \in {"shown", "hidden", "gone"}
    BY <2>2 DEF BrowseTyped, States, Existing
  <2>4. Write(new, ranks) /\ shelf' \in BOOLEAN
    BY <2>1, <2>2 DEF BrowseTyped
  <2>5. /\ BrowseTyped' /\ row' = new /\ UNCHANGED cache /\ ~UpToDate'
        /\ \A v \in Readers : reading'[v] = Noticed(reading[v], new)
    BY <2>1, <2>3, <2>4, WriteTyped
  <2> QED BY <2>3, <2>5
<1> QED BY <1>1, <1>2

\* What is loaded for the cache may be a page or a choice.
LEMMA FillingKinds ==
  ASSUME NEW w \in Readings, Filling(w)
  PROVE  /\ w \in Walks \cup Choosings
         /\ [w EXCEPT !.fill = FALSE] \in Readings
<1>1. CASE w.at = "load"
  <2>1. w \in Walks
    BY <1>1, ReadingKinds
  <2> QED BY <2>1 DEF Walks, Readings
<1>2. CASE w.at \in {"choose", "found", "chosen"}
  <2>1. w \in Choosings
    BY <1>2, ReadingKinds
  <2> QED BY <2>1 DEF Choosings, Readings
<1> QED BY <1>1, <1>2 DEF Filling

\* The cache is cleared.
LEMMA ClearTyped ==
  ASSUME BrowseTyped, Clear
  PROVE  /\ BrowseTyped' /\ UNCHANGED <<row, rank, shelf>>
         /\ advised' = {} /\ \A key \in CachedPages : kept'[key] = None
         /\ \A v \in Readers :
              reading'[v] = IF Filling(reading[v]) THEN [reading[v] EXCEPT !.fill = FALSE]
                            ELSE reading[v]
<1>1. /\ dirty > 0 /\ dirty' = dirty - 1 /\ drift' = FALSE /\ UNCHANGED <<row, rank, shelf>>
      /\ kept' = [key \in DOMAIN kept |-> None] /\ advised' = {}
      /\ reading' = [v \in Readers |-> IF Filling(reading[v]) THEN [reading[v] EXCEPT !.fill = FALSE]
                                       ELSE reading[v]]
  BY DEF Clear
<1>2. ASSUME NEW v \in Readers, Filling(reading[v])
      PROVE  [reading[v] EXCEPT !.fill = FALSE] \in Readings
  BY <1>2, FillingKinds DEF BrowseTyped
<1>3. reading' \in [Readers -> Readings]
  BY <1>1, <1>2 DEF BrowseTyped
<1>4. kept' \in [CachedPages -> Answers \cup {None}] /\ \A key \in CachedPages : kept'[key] = None
  <2>1. DOMAIN kept = CachedPages
    BY DEF BrowseTyped, CacheTyped
  <2> QED BY <1>1, <2>1
<1>5. dirty' \in Nat /\ drift' \in BOOLEAN
  <2>1. dirty' \in Nat
    BY <1>1 DEF BrowseTyped
  <2> QED BY <1>1, <2>1, Zenon
<1> QED BY <1>1, <1>3, <1>4, <1>5 DEF BrowseTyped, CacheTyped

\* An answer that is as the rows are: a page of the rows in an order they may
\* be given in, and how many there are.
IsPage(rows, list, facet, n) == \E s \in AllOrders(Matching(list, facet), list.tied) : rows = Page(s, n)
IsTotal(total, list, facet) == total = Cardinality(Matching(list, facet))

\* They are the same while the rows are.
LEMMA SameAnswers ==
  ASSUME UNCHANGED <<row, rank, shelf>>
  PROVE  /\ Shown' = Shown /\ Existing' = Existing /\ Offered' = Offered
         /\ \A list, facet : Matching(list, facet)' = Matching(list, facet)
         /\ \A list, facet, tied :
              AllOrders(Matching(list, facet), tied)' = AllOrders(Matching(list, facet), tied)
         /\ \A rows, list, facet, n : IsPage(rows, list, facet, n)' = IsPage(rows, list, facet, n)
         /\ \A total, list, facet : IsTotal(total, list, facet)' = IsTotal(total, list, facet)
<1>1. Shown' = Shown /\ Existing' = Existing
  BY DEF Shown, Existing
<1>2. Offered' = Offered
  BY <1>1 DEF Offered
<1>3. \A list, facet : Matching(list, facet)' = Matching(list, facet)
  BY <1>1 DEF Matching
<1>4. \A list, facet, tied :
        AllOrders(Matching(list, facet), tied)' = AllOrders(Matching(list, facet), tied)
  BY <1>3 DEF AllOrders
<1>5. \A rows, list, facet, n : IsPage(rows, list, facet, n)' = IsPage(rows, list, facet, n)
  BY <1>4, Zenon DEF IsPage
<1>6. \A total, list, facet : IsTotal(total, list, facet)' = IsTotal(total, list, facet)
  BY <1>3 DEF IsTotal
<1> QED BY <1>1, <1>2, <1>3, <1>4, <1>5, <1>6

\* Of a choice: how many are chosen, and none that was to be left out.  And what
\* is chosen is all that was found in the tiers up to one, or as much as fits,
\* the nearer ones first.
Found(w, i) == (Tiers[w.advice.tiers[i]] \cap Shown) \ w.without
Reach(w, k) == UNION {Found(w, i) : i \in 1 .. k}
Proper(w) == Cardinality(w.chosen) <= Full /\ w.chosen \cap w.without = {}
Settled(w) ==
  \E k \in 1 .. Len(w.advice.tiers) :
    /\ Reach(w, k - 1) \subseteq w.chosen /\ w.chosen \subseteq Reach(w, k)
    /\ w.chosen = Reach(w, k) \/ Cardinality(w.chosen) = Full
    /\ Cardinality(w.chosen) >= w.advice.enough \/ k = Len(w.advice.tiers)

\* While nothing in the cache is older than a change, it is as the rows are.
CacheTells ==
  /\ \A e \in advised : Proper(e)
  /\ UpToDate =>
       /\ \A key \in CachedPages : kept[key] # None =>
            IsPage(kept[key].rows, key[1], None, key[2]) /\ IsTotal(kept[key].total, key[1], None)
       /\ \A e \in advised : Settled(e)

\* Of the facets offered while nothing was written since.
FiltersTell(w) == w.at = "filters" /\ w.quiet => w.offered = Offered

\* Of a walk: what is loaded for it or for the cache is as the rows are; what
\* it has got while nothing was written are the pages up to where it is; and
\* a facet that was offered finds something.
LoadTells(w) ==
  /\ w.at # "load" => w.rows = None /\ w.total = None
  /\ w.at = "load" /\ (w.quiet \/ (w.fill /\ UpToDate)) =>
       /\ w.rows # None => IsPage(w.rows, w.list, w.facet, w.n)
       /\ w.total # None => IsTotal(w.total, w.list, w.facet)
GotTells(w) ==
  w.quiet /\ w.fresh /\ w.list \in Sorted =>
    IF w.at = "done"
    THEN \E s \in AllOrders(Matching(w.list, w.facet), FALSE) : w.got = s
    ELSE /\ (w.n - 1) * PageSize <= Cardinality(Matching(w.list, w.facet))
         /\ \A s \in AllOrders(Matching(w.list, w.facet), FALSE) :
              w.got = SubSeq(s, 1, (w.n - 1) * PageSize)
FacetTells(w) ==
  /\ w.list.cached => w.facet = None
  /\ w.quiet /\ w.facet # None =>
       /\ w.list = GetSeriesWiseProducts /\ shelf /\ Matching(w.list, w.facet) # {}
       /\ w.n > 1 \/ w.at = "done" => w.got # <<>>
WalkTells(w) ==
  w.at \in {"ask", "load", "done"} => LoadTells(w) /\ GotTells(w) /\ FacetTells(w)

\* Of a partner's reading: the rows so far ascend, up to the cursor, and none
\* that stayed is missing among them.
CursorTells(w) ==
  w.at \in {"cursor", "end"} =>
    /\ Ascends(w.got)
    /\ w.at = "cursor" => IF w.cursor = None THEN w.got = <<>>
                          ELSE w.cursor \in ToSet(w.got) /\ \A x \in ToSet(w.got) : x <= w.cursor
    /\ w.list.all /\ ~w.lost =>
         /\ w.stay \subseteq Existing
         /\ w.at = "cursor" /\ w.cursor # None =>
              w.cursor \in Existing /\ \A x \in w.stay : x <= w.cursor => x \in ToSet(w.got)
         /\ w.at = "end" => w.stay \subseteq ToSet(w.got)

\* Of a choice: the tiers that have been asked, and what was found in them.
TiersAsked(w) == Len(w.advice.tiers) - Len(w.tiers)
ChoosingTells(w) ==
  /\ TiersAsked(w) \in Nat /\ \A i \in 1 .. Len(w.tiers) : w.tiers[i] = w.advice.tiers[TiersAsked(w) + i]
  /\ Len(w.tiers) > 0
  /\ w.quiet => w.chosen = Reach(w, TiersAsked(w))
ChoiceTells(w) ==
  w.at \in {"choose", "found", "chosen"} =>
    /\ Proper(w) /\ w.many = Cardinality(w.chosen)
    /\ w.at # "chosen" => w.fresh /\ (w.fill /\ UpToDate => w.quiet)
    /\ w.at = "choose" => ChoosingTells(w)
    /\ w.at # "choose" /\ w.quiet /\ w.fresh => Settled(w)

Told(w) == FiltersTell(w) /\ WalkTells(w) /\ CursorTells(w) /\ ChoiceTells(w)
BrowseTells ==
  BrowseTyped /\ CacheTells /\ \A v \in Readers, w \in Readings : w = reading[v] => Told(w)

\* What a walk has got depends on the rows and the shelf only.
LEMMA SameWalks ==
  ASSUME UNCHANGED <<row, rank, shelf>>
  PROVE  \A w : (GotTells(w)' <=> GotTells(w)) /\ (FacetTells(w)' <=> FacetTells(w))
<1> SUFFICES ASSUME NEW w PROVE (GotTells(w)' <=> GotTells(w)) /\ (FacetTells(w)' <=> FacetTells(w))
  OBVIOUS
<1>1. /\ Matching(w.list, w.facet)' = Matching(w.list, w.facet) /\ shelf' = shelf
      /\ AllOrders(Matching(w.list, w.facet), FALSE)' = AllOrders(Matching(w.list, w.facet), FALSE)
  BY SameAnswers, Zenon
<1>2. GotTells(w)' <=> GotTells(w)
  BY <1>1, Zenon DEF GotTells
<1>3. FacetTells(w)' <=> FacetTells(w)
  BY <1>1 DEF FacetTells
<1> QED BY <1>2, <1>3

\* What is told depends on the rows, the shelf and the writers only.
LEMMA SameTold ==
  ASSUME UNCHANGED <<row, rank, shelf, dirty, drift>>
  PROVE  /\ \A w : Told(w)' <=> Told(w)
         /\ \A w : Settled(w)' <=> Settled(w)
<1>1. UpToDate' <=> UpToDate
  BY DEF UpToDate
<1>2. \A w, k : Reach(w, k)' = Reach(w, k)
  BY SameAnswers DEF Reach, Found
<1>3. \A w : Settled(w)' <=> Settled(w)
  BY <1>2, Zenon DEF Settled
<1>4. ASSUME NEW w PROVE Told(w)' <=> Told(w)
  <2>1. FiltersTell(w)' <=> FiltersTell(w)
    BY SameAnswers DEF FiltersTell
  <2>2. WalkTells(w)' <=> WalkTells(w)
    <3>1. LoadTells(w)' <=> LoadTells(w)
      BY <1>1, SameAnswers DEF LoadTells
    <3>2. (GotTells(w)' <=> GotTells(w)) /\ (FacetTells(w)' <=> FacetTells(w))
      BY SameWalks, Zenon
    <3> QED BY <3>1, <3>2, Zenon DEF WalkTells
  <2>3. CursorTells(w)' <=> CursorTells(w)
    BY SameAnswers DEF CursorTells
  <2>4. ChoiceTells(w)' <=> ChoiceTells(w)
    BY <1>1, <1>2, <1>3 DEF ChoiceTells, ChoosingTells
  <2> QED BY <2>1, <2>2, <2>3, <2>4 DEF Told
<1> QED BY <1>3, <1>4

\* One reader does something.
LEMMA OneTells ==
  ASSUME BrowseTells, NEW r \in Readers, NEW w \in Readings, Step(r, w), Told(w),
         CacheTyped', CacheTells'
  PROVE  BrowseTells'
<1>1. BrowseTyped' /\ reading' = [reading EXCEPT ![r] = w] /\ reading'[r] = w
      /\ UNCHANGED <<row, rank, shelf, dirty, drift>>
  BY OneReads DEF BrowseTells
<1>2. \A v \in Readers : reading'[v] = w \/ reading'[v] = reading[v]
  BY <1>1 DEF BrowseTells, BrowseTyped
<1>3. \A v : Told(v) => Told(v)'
  BY <1>1, SameTold
<1>4. ASSUME NEW v \in Readers, NEW u \in Readings, u = reading'[v] PROVE Told(u)'
  <2>1. Told(u)
    BY <1>2, <1>4 DEF BrowseTells
  <2> QED BY <1>3, <2>1
<1>5. CacheTells' /\ BrowseTyped'
  BY <1>1
<1> QED BY <1>4, <1>5 DEF BrowseTells

\* What the cache keeps is told as before while neither it nor the rows change.
LEMMA SameCache ==
  ASSUME CacheTyped, CacheTells, UNCHANGED <<row, rank, shelf, dirty, drift>>, UNCHANGED cache
  PROVE  CacheTyped' /\ CacheTells'
<1>1. UNCHANGED <<kept, advised>> /\ (UpToDate' <=> UpToDate)
  BY DEF cache, UpToDate
<1>2. CacheTyped'
  BY <1>1 DEF CacheTyped
<1>3. CacheTells'
  <2>1. \A e : Proper(e)' <=> Proper(e)
    BY DEF Proper
  <2> QED BY <1>1, <2>1, SameTold, SameAnswers DEF CacheTells
<1> QED BY <1>2, <1>3

\* Nothing is kept meanwhile.
LEMMA OnlyTells ==
  ASSUME BrowseTells, NEW r \in Readers, NEW w \in Readings, Step(r, w), Told(w), UNCHANGED cache
  PROVE  BrowseTells'
<1>1. UNCHANGED <<row, rank, shelf, dirty, drift>>
  BY DEF Step
<1>2. CacheTyped' /\ CacheTells'
  BY <1>1, SameCache DEF BrowseTells, BrowseTyped
<1> QED BY <1>2, OneTells

\* A choice is told of by nothing else.
LEMMA ChoiceTold ==
  ASSUME NEW w \in Choosings, ChoiceTells(w)
  PROVE  w \in Readings /\ Told(w)
<1>1. w \in Readings /\ w.at \in {"choose", "found", "chosen"}
  BY DEF Readings, Choosings
<1> QED BY <1>1 DEF Told, FiltersTell, WalkTells, CursorTells

\* What is found depends on the visitor and on the tiers to be asked only, and
\* so does whether a choice is as it should be.
LEMMA ReachSame ==
  ASSUME NEW w, NEW v, w.advice = v.advice, w.without = v.without
  PROVE  /\ \A k : Reach(w, k) = Reach(v, k)
         /\ w.chosen = v.chosen /\ Settled(v) => Settled(w)
<1>1. \A k : Reach(w, k) = Reach(v, k)
  BY Zenon DEF Reach, Found
<1>2. ASSUME w.chosen = v.chosen, Settled(v) PROVE Settled(w)
  <2>1. PICK k \in 1 .. Len(v.advice.tiers) :
          /\ Reach(v, k - 1) \subseteq v.chosen /\ v.chosen \subseteq Reach(v, k)
          /\ v.chosen = Reach(v, k) \/ Cardinality(v.chosen) = Full
          /\ Cardinality(v.chosen) >= v.advice.enough \/ k = Len(v.advice.tiers)
    BY <1>2, Zenon DEF Settled
  <2>2. /\ k \in 1 .. Len(w.advice.tiers)
        /\ Reach(w, k - 1) \subseteq w.chosen /\ w.chosen \subseteq Reach(w, k)
        /\ w.chosen = Reach(w, k) \/ Cardinality(w.chosen) = Full
        /\ Cardinality(w.chosen) >= w.advice.enough \/ k = Len(w.advice.tiers)
    <3>1. Reach(w, k) = Reach(v, k) /\ Reach(w, k - 1) = Reach(v, k - 1)
      BY <1>1
    <3> QED BY <1>2, <2>1, <3>1
  <2> QED BY <2>2, Zenon DEF Settled
<1> QED BY <1>1, <1>2

LEMMA TakeAdviceTells ==
  ASSUME BrowseTells, NEW r \in Readers, NEW advice \in Advices, NEW without \in SUBSET Existing,
         TakeAdvice(r, advice, without)
  PROVE  BrowseTells'
<1> DEFINE found(e) == [at |-> "chosen", advice |-> advice, tiers |-> <<>>, without |-> without,
                       chosen |-> e.chosen, many |-> Cardinality(e.chosen),
                       fill |-> FALSE, quiet |-> TRUE, fresh |-> UpToDate]
<1>1. PICK e \in advised : e.advice = advice /\ e.without = without /\ Step(r, found(e))
  BY DEF TakeAdvice
<1> DEFINE w == found(e)
<1>2. e \in KeptChoices /\ Proper(e) /\ (UpToDate => Settled(e)) /\ UNCHANGED cache
  BY DEF TakeAdvice, BrowseTells, BrowseTyped, CacheTyped, CacheTells
<1>3. e.without \in SUBSET Rows /\ e.chosen \in SUBSET Rows /\ Cardinality(e.chosen) \in Nat
  BY <1>2, BrowseAssumption, FS_Subset, FS_CardinalityType DEF KeptChoices
<1>4. <<>> \in Seq(1 .. Farthest) /\ UpToDate \in BOOLEAN
  BY EmptySeq DEF UpToDate
<1>5. /\ w \in Choosings /\ w.at = "chosen" /\ w.advice = e.advice /\ w.without = e.without
      /\ w.chosen = e.chosen /\ w.many = Cardinality(e.chosen) /\ (w.fresh => UpToDate)
  BY <1>1, <1>3, <1>4 DEF Choosings
<1>9. Step(r, w)
  BY <1>1
<1> HIDE DEF w
<1>6. Proper(w)
  BY <1>2, <1>5 DEF Proper
<1>7. w.fresh => Settled(w)
  <2>1. Settled(e) => Settled(w)
    BY <1>5, ReachSame, Zenon
  <2> QED BY <1>2, <1>5, <2>1
<1>8. ChoiceTells(w)
  BY <1>5, <1>6, <1>7 DEF ChoiceTells
<1> QED BY <1>2, <1>5, <1>8, <1>9, ChoiceTold, OnlyTells

LEMMA OpenAdviceTells ==
  ASSUME BrowseTells, NEW r \in Readers, NEW advice \in Advices, NEW without \in SUBSET Existing,
         OpenAdvice(r, advice, without)
  PROVE  BrowseTells'
<1> DEFINE w == [at |-> "choose", advice |-> advice, tiers |-> advice.tiers, without |-> without,
                 chosen |-> {}, many |-> 0, fill |-> TRUE, quiet |-> TRUE, fresh |-> TRUE]
<1>1. Step(r, w) /\ UNCHANGED cache
  BY DEF OpenAdvice
<1>2. w \in Choosings
  BY AdviceFields DEF Choosings, Existing
<1>3. TiersAsked(w) = 0
  BY AdviceFields DEF TiersAsked
<1>4. Reach(w, 0) = {}
  <2>1. 1 .. 0 = {}
    OBVIOUS
  <2> QED BY <2>1 DEF Reach
<1>5. ChoiceTells(w)
  <2>1. \A i \in 1 .. Len(w.tiers) : w.tiers[i] = w.advice.tiers[0 + i]
    OBVIOUS
  <2>2. w.many = Cardinality(w.chosen) /\ Proper(w)
    BY BrowseAssumption, FS_EmptySet DEF Proper
  <2>3. Len(w.tiers) > 0
    BY AdviceFields
  <2>4. w.at = "choose" /\ w.at # "chosen" /\ w.chosen = {} /\ w.fresh /\ w.quiet
    OBVIOUS
  <2>5. 0 \in Nat
    OBVIOUS
  <2> HIDE DEF w
  <2>6. w.chosen = Reach(w, TiersAsked(w))
    BY <1>3, <1>4, <2>4, Zenon
  <2>7. TiersAsked(w) \in Nat /\ \A i \in 1 .. Len(w.tiers) : w.tiers[i] = w.advice.tiers[TiersAsked(w) + i]
    BY <1>3, <2>1, <2>5, Zenon
  <2> QED BY <2>2, <2>3, <2>4, <2>6, <2>7, Zenon DEF ChoiceTells, ChoosingTells
<1> QED BY <1>1, <1>2, <1>5, ChoiceTold, OnlyTells

\* Reaching one tier farther adds what is found in it.
LEMMA OneFarther ==
  ASSUME NEW w, NEW k \in Nat
  PROVE  Reach(w, k + 1) = Reach(w, k) \cup Found(w, k + 1)
<1>1. 1 .. (k + 1) = (1 .. k) \cup {k + 1}
  OBVIOUS
<1> QED BY <1>1, Zenon DEF Reach

LEMMA AskTierTells ==
  ASSUME BrowseTells, NEW r \in Readers, AskTier(r)
  PROVE  BrowseTells'
<1>1. PICK w \in Readings : w = reading[r] /\ Told(w)
  BY DEF BrowseTells, BrowseTyped
<1>2. w \in Choosings /\ w.at = "choose" /\ ChoiceTells(w)
  BY <1>1, ReadingKinds DEF AskTier, Told
<1> DEFINE spare == IF Len(w.tiers) = 1 THEN w.advice.spare ELSE 0
           C == Candidates(w)
<1>3. PICK S \in Picks(C, Full - w.many, spare) :
        LET many == w.many + Cardinality(S) IN
          Step(r, [w EXCEPT !.chosen = @ \cup S, !.many = many, !.tiers = Tail(@),
                            !.at = IF Len(w.tiers) = 1 \/ many >= w.advice.enough
                                   THEN "found" ELSE "choose"])
  BY <1>1 DEF AskTier
<1> DEFINE many == w.many + Cardinality(S)
           last == Len(w.tiers) = 1 \/ many >= w.advice.enough
           at == IF last THEN "found" ELSE "choose"
           u == [w EXCEPT !.chosen = @ \cup S, !.many = many, !.tiers = Tail(@), !.at = at]
           k == TiersAsked(w)
           K == Len(w.advice.tiers)
<1>4. Step(r, u) /\ UNCHANGED cache
  BY <1>1, <1>3 DEF AskTier
<1>5. /\ w.tiers \in Seq(1 .. Farthest) /\ Len(w.tiers) \in Nat /\ Len(w.tiers) > 0
      /\ k \in Nat /\ K \in Nat /\ k + Len(w.tiers) = K
      /\ \A i \in 1 .. Len(w.tiers) : w.tiers[i] = w.advice.tiers[k + i]
      /\ w.many = Cardinality(w.chosen) /\ w.many <= Full /\ w.many \in Nat
      /\ w.chosen \cap w.without = {} /\ w.chosen \in SUBSET Rows /\ IsFiniteSet(w.chosen)
      /\ w.advice \in Advices /\ w.advice.enough \in Nat /\ w.advice.enough <= Full /\ Full \in Nat
  <2>1. w.tiers \in Seq(1 .. Farthest) /\ w.many \in Nat /\ w.chosen \in SUBSET Rows /\ w.advice \in Advices
    BY <1>2 DEF Choosings
  <2>2. IsFiniteSet(w.chosen) /\ Full \in Nat
    BY <2>1, BrowseAssumption, FS_Subset
  <2>3. K \in Nat /\ w.advice.enough \in Nat /\ w.advice.enough <= Full
    BY <2>1, AdviceFields
  <2>4. Len(w.tiers) \in Nat
    BY <2>1, LenProperties
  <2>5. k = K - Len(w.tiers)
    BY DEF TiersAsked
  <2>6. /\ k \in Nat /\ \A i \in 1 .. Len(w.tiers) : w.tiers[i] = w.advice.tiers[k + i]
        /\ w.many = Cardinality(w.chosen) /\ w.many <= Full /\ w.chosen \cap w.without = {}
        /\ Len(w.tiers) > 0
    BY <1>2, Zenon DEF ChoiceTells, ChoosingTells, Proper
  <2> HIDE DEF k, K
  <2>7. k + Len(w.tiers) = K
    BY <2>3, <2>4, <2>5, <2>6
  <2> QED BY <2>1, <2>2, <2>3, <2>4, <2>6, <2>7, Zenon DEF K
<1> HIDE DEF k, K
<1>20. Len(w.tiers) \in Nat /\ Len(w.tiers) > 0 /\ k \in Nat /\ K \in Nat /\ k + Len(w.tiers) = K
       /\ w.tiers \in Seq(1 .. Farthest)
  BY <1>5, Zenon
<1>6. /\ Head(w.tiers) = w.advice.tiers[k + 1] /\ Tail(w.tiers) \in Seq(1 .. Farthest)
      /\ Len(Tail(w.tiers)) = Len(w.tiers) - 1
      /\ \A i \in 1 .. Len(w.tiers) - 1 : Tail(w.tiers)[i] = w.tiers[i + 1]
  <2>1. w.tiers # <<>> /\ 1 \in 1 .. Len(w.tiers)
    BY <1>5
  <2>2. /\ Head(w.tiers) = w.tiers[1] /\ Tail(w.tiers) \in Seq(1 .. Farthest)
        /\ Len(Tail(w.tiers)) = Len(w.tiers) - 1
        /\ \A i \in 1 .. Len(Tail(w.tiers)) : Tail(w.tiers)[i] = w.tiers[i + 1]
    <3>1. PICK t : t = w.tiers
      OBVIOUS
    <3>2. t \in Seq(1 .. Farthest) /\ t # <<>>
      BY <1>20, <2>1, <3>1, Zenon
    <3>3. /\ Head(t) = t[1] /\ Tail(t) \in Seq(1 .. Farthest) /\ Len(Tail(t)) = Len(t) - 1
          /\ \A i \in 1 .. Len(Tail(t)) : Tail(t)[i] = t[i + 1]
      BY <3>2, HeadTailProperties
    <3> QED BY <3>1, <3>3, Zenon
  <2>3. w.tiers[1] = w.advice.tiers[k + 1]
    BY <1>5, <2>1, Zenon
  <2> QED BY <2>2, <2>3
<1>7. C = Found(w, k + 1) \ w.chosen /\ C \in SUBSET Rows /\ IsFiniteSet(C) /\ Cardinality(C) \in Nat
  <2>1. C = Found(w, k + 1) \ w.chosen
    BY <1>6 DEF Candidates, Found
  <2>2. C \in SUBSET Rows
    BY DEF Candidates, Shown
  <2> QED BY <2>1, <2>2, BrowseAssumption, FS_Subset, FS_CardinalityType
<1>8. S \in SUBSET C /\ Cardinality(S) = Lesser(Full - w.many, Cardinality(C))
  BY DEF Picks
<1> HIDE DEF C
<1>9. /\ IsFiniteSet(S) /\ Cardinality(S) \in Nat /\ S \in SUBSET Rows
      /\ Cardinality(S) <= Full - w.many
      /\ S = C \/ Cardinality(S) = Full - w.many
  <2>1. IsFiniteSet(S) /\ Cardinality(S) \in Nat /\ S \in SUBSET Rows
    BY <1>7, <1>8, FS_Subset, FS_CardinalityType
  <2>2. Cardinality(S) = Cardinality(C) => S = C
    BY <1>7, <1>8, FS_Subset
  <2> QED BY <1>5, <1>7, <1>8, <2>1, <2>2 DEF Lesser
<1>10. Cardinality(w.chosen \cup S) = many /\ many \in Nat /\ many <= Full
  <2>1. w.chosen \cap S = {}
    BY <1>7, <1>8
  <2>2. Cardinality({}) = 0
    BY FS_EmptySet
  <2>3. Cardinality(w.chosen \cup S) = Cardinality(w.chosen) + Cardinality(S) - Cardinality(w.chosen \cap S)
    BY <1>5, <1>9, FS_Union
  <2>4. Cardinality(w.chosen \cup S) = w.many + Cardinality(S) - 0
    BY <1>5, <2>1, <2>2, <2>3, Zenon
  <2> QED BY <1>5, <1>9, <2>4 DEF many
<1> HIDE DEF many
<1>11. /\ u.chosen = w.chosen \cup S /\ u.many = many /\ u.tiers = Tail(w.tiers) /\ u.at = at
       /\ u.advice = w.advice /\ u.without = w.without /\ u.quiet = w.quiet /\ u.fill = w.fill
       /\ u.fresh = w.fresh
       /\ u \in Choosings
  <2> HIDE DEF last
  <2>1. at \in {"choose", "found"}
    OBVIOUS
  <2>2. w.chosen \cup S \in SUBSET Rows
    BY <1>5, <1>9
  <2> QED BY <1>2, <1>6, <1>10, <2>1, <2>2 DEF Choosings
<1> HIDE DEF u
<1>12. TiersAsked(u) = k + 1
  <2>1. TiersAsked(u) = K - (Len(w.tiers) - 1)
    BY <1>6, <1>11 DEF TiersAsked, K
  <2>2. PICK n : n = Len(w.tiers)
    OBVIOUS
  <2>3. n \in Nat /\ k \in Nat /\ K \in Nat /\ k + n = K
    BY <1>20, <2>2, Zenon
  <2>4. K - (n - 1) = k + 1
    BY <2>3
  <2> QED BY <2>1, <2>2, <2>4, Zenon
<1>13. \A i : Reach(u, i) = Reach(w, i)
  BY <1>11, ReachSame
<1>14. ASSUME w.quiet
       PROVE  /\ Reach(w, k) \subseteq u.chosen /\ u.chosen \subseteq Reach(w, k + 1)
              /\ u.chosen = Reach(w, k + 1) \/ (S # C /\ many = Full)
  <2>1. w.chosen = Reach(w, k)
    BY <1>2, <1>14 DEF ChoiceTells, ChoosingTells, k
  <2>2. Reach(w, k + 1) = Reach(w, k) \cup Found(w, k + 1)
    BY <1>5, OneFarther
  <2>3. S # C => many = Full
    BY <1>5, <1>9 DEF many
  <2> QED BY <1>7, <1>8, <1>11, <2>1, <2>2, <2>3, Zenon
<1>15. last => many >= w.advice.enough \/ k + 1 = K
  BY <1>5
<1>16. ~last => S = C
  <2>1. ~last => many < w.advice.enough
    BY <1>5, <1>10
  <2>2. ~last => Cardinality(S) # Full - w.many
    BY <1>5, <1>9, <2>1 DEF many
  <2> QED BY <1>9, <2>2
<1>17. ~last => Len(w.tiers) - 1 > 0
  <2>1. ~last => Len(w.tiers) # 1
    OBVIOUS
  <2>2. PICK n : n = Len(w.tiers)
    OBVIOUS
  <2>3. n \in Nat /\ n > 0
    BY <1>20, <2>2
  <2>4. n # 1 => n - 1 > 0
    BY <2>3
  <2> QED BY <2>1, <2>2, <2>4, Zenon
<1>18. \A i \in 1 .. Len(u.tiers) : u.tiers[i] = u.advice.tiers[TiersAsked(u) + i]
  <2> SUFFICES ASSUME NEW i \in 1 .. Len(u.tiers) PROVE u.tiers[i] = u.advice.tiers[TiersAsked(u) + i]
    OBVIOUS
  <2>1. i \in 1 .. Len(w.tiers) - 1 /\ i + 1 \in 1 .. Len(w.tiers) /\ k + (i + 1) = (k + 1) + i
    BY <1>5, <1>6, <1>11
  <2> QED BY <1>5, <1>6, <1>11, <1>12, <2>1
<1>19. ChoiceTells(u)
  <2>1. TiersAsked(u) \in Nat /\ k + 1 - 1 = k /\ k + 1 \in 1 .. K
    BY <1>12, <1>20
  <2>2. Proper(u) /\ u.many = Cardinality(u.chosen)
    BY <1>5, <1>7, <1>8, <1>10, <1>11 DEF Found, Proper
  <2>3. u.at = IF last THEN "found" ELSE "choose"
    BY <1>11
  <2>4. u.fresh /\ (u.fill /\ UpToDate => u.quiet)
    BY <1>2, <1>11 DEF ChoiceTells
  <2>5. ~last => Len(u.tiers) > 0
    BY <1>6, <1>11, <1>17
  <2>6. u.quiet /\ ~last => u.chosen = Reach(u, TiersAsked(u))
    BY <1>11, <1>12, <1>13, <1>14, <1>16
  <2>7. u.quiet /\ last => Settled(u)
    <3> SUFFICES ASSUME u.quiet, last PROVE Settled(u)
      OBVIOUS
    <3>1. K = Len(u.advice.tiers)
      BY <1>11 DEF K
    <3>2. Cardinality(u.chosen) = u.many /\ u.many = many /\ u.advice.enough = w.advice.enough
      BY <1>10, <1>11
    <3>3. /\ Reach(u, k + 1 - 1) \subseteq u.chosen /\ u.chosen \subseteq Reach(u, k + 1)
          /\ u.chosen = Reach(u, k + 1) \/ Cardinality(u.chosen) = Full
      BY <1>11, <1>13, <1>14, <2>1, <3>2
    <3>4. Cardinality(u.chosen) >= u.advice.enough \/ k + 1 = Len(u.advice.tiers)
      BY <1>15, <3>1, <3>2
    <3> HIDE DEF last, at
    <3>5. PICK h : h = k + 1
      OBVIOUS
    <3>6. /\ h \in 1 .. Len(u.advice.tiers)
          /\ Reach(u, h - 1) \subseteq u.chosen /\ u.chosen \subseteq Reach(u, h)
          /\ u.chosen = Reach(u, h) \/ Cardinality(u.chosen) = Full
          /\ Cardinality(u.chosen) >= u.advice.enough \/ h = Len(u.advice.tiers)
      <4>1. h \in 1 .. Len(u.advice.tiers) /\ Reach(u, h) = Reach(u, k + 1)
        BY <2>1, <3>1, <3>5, Zenon
      <4>2. h - 1 = k /\ k + 1 - 1 = k
        BY <1>20, <3>5
      <4>3. Reach(u, h - 1) \subseteq u.chosen
        BY <3>3, <4>2, Zenon
      <4> QED BY <3>3, <3>4, <3>5, <4>1, <4>3, Zenon
    <3> QED BY <3>6, Zenon DEF Settled
  <2> HIDE DEF last, at
  <2>8. u.at = "choose" => ChoosingTells(u)
    BY <1>18, <2>1, <2>3, <2>5, <2>6, Zenon DEF ChoosingTells
  <2>9. u.at # "choose" /\ u.quiet => Settled(u)
    BY <2>3, <2>7
  <2> QED BY <2>2, <2>4, <2>8, <2>9, Zenon DEF ChoiceTells
<1> QED BY <1>4, <1>11, <1>19, ChoiceTold, OnlyTells

\* The choice is kept if nothing was cleared, and so nothing has changed.
LEMMA AdviseTells ==
  ASSUME BrowseTells, NEW r \in Readers, Advise(r)
  PROVE  BrowseTells'
<1>1. PICK w \in Readings : w = reading[r] /\ Told(w)
  BY DEF BrowseTells, BrowseTyped
<1>2. w \in Choosings /\ w.at = "found" /\ ChoiceTells(w)
  BY <1>1, ReadingKinds DEF Advise, Told
<1> DEFINE u == [w EXCEPT !.at = "chosen", !.tiers = <<>>, !.fill = FALSE]
           e == [advice |-> w.advice, without |-> w.without, chosen |-> w.chosen]
<1>3. /\ Step(r, u) /\ UNCHANGED kept
      /\ advised' = IF w.advice.cached /\ w.fill
                    THEN {k \in advised : k.advice # w.advice \/ k.without # w.without} \cup {e}
                    ELSE advised
  BY <1>1 DEF Advise
<1>4. /\ u \in Choosings /\ u.at = "chosen" /\ u.advice = w.advice /\ u.without = w.without
      /\ u.chosen = w.chosen /\ u.many = w.many /\ u.quiet = w.quiet /\ u.fresh = w.fresh
  <2>1. <<>> \in Seq(1 .. Farthest)
    BY EmptySeq
  <2> QED BY <1>2, <2>1 DEF Choosings
<1>5. /\ e \in KeptChoices /\ e.advice = w.advice /\ e.without = w.without /\ e.chosen = w.chosen
  BY <1>2 DEF Choosings, KeptChoices
<1> HIDE DEF u, e
<1>6. Proper(w) /\ w.many = Cardinality(w.chosen) /\ w.fresh /\ (w.fill /\ UpToDate => w.quiet)
      /\ (w.quiet => Settled(w))
  BY <1>2 DEF ChoiceTells
<1>7. Proper(u) /\ (w.quiet => Settled(u)) /\ Proper(e) /\ (w.quiet => Settled(e))
  <2>2. Settled(w) => Settled(u) /\ Settled(e)
    BY <1>4, <1>5, ReachSame, Zenon
  <2> QED BY <1>4, <1>5, <1>6, <2>2 DEF Proper
<1>8. ChoiceTells(u)
  BY <1>4, <1>6, <1>7 DEF ChoiceTells
<1>9. UNCHANGED <<row, rank, shelf, dirty, drift>>
  BY <1>3 DEF Step
<1>10. CacheTyped' /\ \A k \in advised' : k \in advised \/ (k = e /\ w.fill)
  BY <1>3, <1>5 DEF BrowseTells, BrowseTyped, CacheTyped
<1>11. CacheTells'
  <2>1. \A k : Proper(k)' <=> Proper(k)
    BY DEF Proper
  <2>2. UpToDate' <=> UpToDate
    BY <1>9 DEF UpToDate
  <2>3. \A k \in advised' : Proper(k) /\ (UpToDate => Settled(k))
    BY <1>6, <1>7, <1>10 DEF BrowseTells, CacheTells
  <2> QED BY <1>3, <1>9, <2>1, <2>2, <2>3, SameTold, SameAnswers DEF BrowseTells, CacheTells
<1> QED BY <1>3, <1>4, <1>8, <1>10, <1>11, ChoiceTold, OneTells

\* What is told of a choice says that it is sound.
LEMMA ChoicesEnd == BrowseTells => ChosenAreSound
<1> SUFFICES ASSUME BrowseTells PROVE ChosenAreSound
  OBVIOUS
<1> SUFFICES ASSUME NEW r \in Readers, NEW w \in Readings, w = reading[r], w.at = "chosen"
    PROVE  LET turns == ToSet(w.advice.tiers)
               within(k) == UNION {(Tiers[j] \cap Shown) \ w.without : j \in {i \in turns : i <= k}}
           IN /\ w.many <= Full /\ w.many = Cardinality(w.chosen)
              /\ w.chosen \cap w.without = {}
              /\ w.quiet /\ w.fresh =>
                   /\ w.chosen \subseteq Shown
                   /\ w.many >= Lesser(w.advice.enough, Cardinality(within(Farthest)))
                   /\ \A k \in turns : w.chosen \subseteq within(k) \/ within(k) \subseteq w.chosen
  <2>1. \A r \in Readers : reading[r] \in Readings
    BY DEF BrowseTells, BrowseTyped
  <2> QED BY <2>1, Zenon DEF ChosenAreSound
<1> DEFINE tiers == w.advice.tiers
           K == Len(tiers)
           within(k) == UNION {(Tiers[j] \cap Shown) \ w.without : j \in {i \in ToSet(tiers) : i <= k}}
<1>1. w \in Choosings /\ ChoiceTells(w)
  BY ReadingKinds DEF BrowseTells, Told
<1>2. /\ tiers \in Seq(1 .. Farthest) /\ K \in Nat /\ K > 0 /\ DOMAIN tiers = 1 .. K
      /\ \A i, j \in 1 .. K : i < j => tiers[i] <= tiers[j]
      /\ w.advice.enough \in Nat /\ w.advice.enough <= Full /\ Full \in Nat
  <2>1. w.advice \in Advices
    BY <1>1 DEF Choosings
  <2> QED BY <2>1, AdviceFields, LenProperties, BrowseAssumption
<1>3. \A i \in 1 .. K : tiers[i] \in 1 .. Farthest
  BY <1>2, ElementOfSeq
<1>4. Farthest \in Nat
  BY BrowseAssumption, LenProperties DEF Farthest
<1>5. w.many <= Full /\ w.many = Cardinality(w.chosen) /\ w.chosen \cap w.without = {} /\ w.many \in Nat
  BY <1>1 DEF ChoiceTells, Choosings, Proper
<1> HIDE DEF tiers
<1>6. ASSUME NEW v \in Nat, NEW i \in 1 .. K, tiers[i] <= v PROVE Reach(w, i) \subseteq within(v)
  <2>1. ASSUME NEW j \in 1 .. i PROVE Found(w, j) \subseteq within(v)
    <3>3. j \in 1 .. K /\ (j < i \/ j = i)
      BY <1>2, <1>6
    <3>4. tiers[j] \in Nat /\ tiers[i] \in Nat
      BY <1>3, <1>4, <1>6, <3>3
    <3>5. tiers[j] <= tiers[i]
      BY <1>2, <1>6, <3>3, <3>4
    <3>1. j \in 1 .. K /\ tiers[j] \in ToSet(tiers)
      BY <1>2, <3>3, Zenon DEF ToSet
    <3>2. tiers[j] <= v
      BY <1>6, <3>4, <3>5
    <3> QED BY <3>1, <3>2 DEF Found, tiers
  <2> QED BY <2>1, Zenon DEF Reach
<1>7. ASSUME NEW v \in Nat, NEW i \in 0 .. K, \A j \in 1 .. K : tiers[j] <= v => j <= i
      PROVE  within(v) \subseteq Reach(w, i)
  <2>1. ASSUME NEW x \in within(v) PROVE x \in Reach(w, i)
    <3>1. PICK t \in ToSet(tiers) : t <= v /\ x \in (Tiers[t] \cap Shown) \ w.without
      BY <2>1
    <3>2. PICK j \in 1 .. K : t = tiers[j]
      BY <1>2, <3>1 DEF ToSet
    <3>3. j \in 1 .. i
      BY <1>7, <3>1, <3>2
    <3> QED BY <3>1, <3>2, <3>3 DEF Reach, Found, tiers
  <2> QED BY <2>1
<1>8. SUFFICES ASSUME w.quiet, w.fresh
      PROVE  /\ w.chosen \subseteq Shown
             /\ w.many >= Lesser(w.advice.enough, Cardinality(within(Farthest)))
             /\ \A k \in ToSet(tiers) : w.chosen \subseteq within(k) \/ within(k) \subseteq w.chosen
  BY <1>5 DEF tiers
<1>9. PICK h \in 1 .. K :
        /\ Reach(w, h - 1) \subseteq w.chosen /\ w.chosen \subseteq Reach(w, h)
        /\ w.chosen = Reach(w, h) \/ w.many = Full
        /\ w.many >= w.advice.enough \/ h = K
  BY <1>1, <1>5, <1>8 DEF ChoiceTells, Settled, tiers
<1>12. w.chosen \subseteq Shown
  BY <1>9 DEF Reach, Found
<1>10. w.many >= Lesser(w.advice.enough, Cardinality(within(Farthest)))
  <2>1. CASE w.many >= w.advice.enough
    <3>1. IsFiniteSet(within(Farthest)) /\ Cardinality(within(Farthest)) \in Nat
      <4>1. within(Farthest) \in SUBSET Rows
        BY DEF Shown
      <4> QED BY <4>1, BrowseAssumption, FS_Subset, FS_CardinalityType
    <3> QED BY <1>2, <1>5, <2>1, <3>1 DEF Lesser
  <2>2. CASE w.chosen = Reach(w, K) /\ ~(w.many >= w.advice.enough)
    <3>1. within(Farthest) = Reach(w, K)
      <4>1. within(Farthest) \subseteq Reach(w, K)
        <5>1. Farthest \in Nat /\ K \in 0 .. K /\ \A j \in 1 .. K : j <= K
          BY <1>2, <1>4
        <5> HIDE DEF within
        <5> QED BY <1>7, <5>1
      <4>2. tiers[K] <= Farthest
        BY <1>2, <1>3
      <4>3. Reach(w, K) \subseteq within(Farthest)
        BY <1>2, <1>4, <1>6, <4>2
      <4> QED BY <4>1, <4>3
    <3> HIDE DEF within
    <3>2. w.many = Cardinality(within(Farthest))
      BY <1>5, <2>2, <3>1
    <3> QED BY <1>2, <1>5, <3>2 DEF Lesser
  <2> QED BY <1>2, <1>5, <1>9, <2>1, <2>2
<1>13. \A n : n \in 1 .. Farthest => n \in Nat
  BY <1>4
<1>11. ASSUME NEW v \in ToSet(tiers) PROVE w.chosen \subseteq within(v) \/ within(v) \subseteq w.chosen
  <2>1. PICK i \in 1 .. K : v = tiers[i]
    BY <1>2, <1>11 DEF ToSet
  <2>2. Reach(w, h - 1) \subseteq w.chosen /\ w.chosen \subseteq Reach(w, h)
    BY <1>9
  <2>3. v \in Nat /\ h \in 1 .. K
    BY <1>3, <1>13, <2>1, Zenon
  <2>4. CASE tiers[h] <= v
    BY <1>6, <2>2, <2>3, <2>4
  <2>5. CASE ~(tiers[h] <= v)
    <3>1. \A j \in 1 .. K : tiers[j] <= v => j <= h - 1
      <4> SUFFICES ASSUME NEW j \in 1 .. K, tiers[j] <= v, ~(j <= h - 1) PROVE FALSE
        OBVIOUS
      <4>1. h < j \/ h = j
        BY <1>2, <2>3
      <4>2. tiers[h] <= tiers[j] /\ tiers[h] \in Nat /\ tiers[j] \in Nat
        BY <1>2, <1>3, <2>3, <4>1
      <4> QED BY <2>3, <2>5, <4>2
    <3>2. h - 1 \in 0 .. K
      BY <1>2, <2>3
    <3> QED BY <1>7, <2>2, <2>3, <3>1, <3>2
  <2> QED BY <2>4, <2>5
<1> QED BY <1>10, <1>11, <1>12

\* A partner's reading is told of by nothing else.
LEMMA CursorTold ==
  ASSUME NEW w \in Cursors, CursorTells(w)
  PROVE  w \in Readings /\ Told(w)
<1>1. w \in Readings /\ w.at \in {"cursor", "end"}
  BY DEF Readings, Cursors
<1> QED BY <1>1 DEF Told, FiltersTell, WalkTells, ChoiceTells

LEMMA OpenStockTells ==
  ASSUME BrowseTells, NEW r \in Readers, NEW list \in {PartnerList, PartnerLowStock}, OpenStock(r, list)
  PROVE  BrowseTells'
<1> DEFINE w == [at |-> "cursor", list |-> list, cursor |-> None, got |-> <<>>,
                 stay |-> Stock(list, row), lost |-> FALSE]
<1>1. Step(r, w) /\ UNCHANGED cache
  BY DEF OpenStock
<1>2. w \in Cursors
  <2>1. <<>> \in Seq(Rows)
    BY EmptySeq
  <2>2. Stock(list, row) \in SUBSET Rows
    BY DEF Stock
  <2> QED BY <2>1, <2>2 DEF Cursors
<1>3. CursorTells(w)
  <2>1. Ascends(<<>>)
    BY DEF Ascends
  <2>2. Stock(list, row) \subseteq Existing
    BY DEF Stock, Existing
  <2> QED BY <2>1, <2>2 DEF CursorTells
<1> QED BY <1>1, <1>2, <1>3, CursorTold, OnlyTells

\* The rows of an ascending sequence are read a page at a time: those of the
\* page are the ones up to the next cursor, or all of them if there is none.
LEMMA WindowSplit ==
  ASSUME NEW s \in Seq(Rows), Ascends(s), NEW window, window = Upto(s, PageSize + 1),
         NEW page, page = Upto(window, PageSize), NEW next, next = NextCursor(window)
  PROVE  /\ page \in Seq(Rows) /\ Ascends(page) /\ ToSet(page) \subseteq ToSet(s)
         /\ next = None => ToSet(page) = ToSet(s)
         /\ next # None =>
              /\ next \in ToSet(page) /\ next \in Rows
              /\ \A x \in ToSet(page) : x <= next
              /\ \A x \in ToSet(s) : x <= next => x \in ToSet(page)
<1>1. PICK n \in Nat : n = Len(s)
  BY LenProperties
<1>2. PICK size \in Nat : size = PageSize /\ size > 0
  BY BrowseAssumption
<1>3. DOMAIN s = 1 .. n /\ \A i \in 1 .. n : s[i] \in Rows /\ s[i] \in Nat
  BY <1>1, LenProperties, ElementOfSeq, BrowseAssumption
<1>4. /\ window \in Seq(Rows) /\ Len(window) = Lesser(size + 1, n) /\ DOMAIN window = 1 .. Lesser(size + 1, n)
      /\ \A i \in 1 .. Lesser(size + 1, n) : window[i] = s[i]
  <2>1. \A i \in 1 .. Lesser(size + 1, n) : s[i] \in Rows
    BY <1>2, <1>3 DEF Lesser
  <2>2. window = SubSeq(s, 1, Lesser(size + 1, n)) /\ Lesser(size + 1, n) \in Nat
    BY <1>1, <1>2 DEF Upto, Lesser
  <2>3. window = [i \in 1 .. Lesser(size + 1, n) |-> s[i]]
    BY <2>2
  <2>4. window \in Seq(Rows)
    BY <1>2, PageOfRows
  <2> QED BY <2>2, <2>3, <2>4
<1>5. /\ page \in Seq(Rows) /\ Len(page) = Lesser(size, n) /\ DOMAIN page = 1 .. Lesser(size, n)
      /\ \A i \in 1 .. Lesser(size, n) : page[i] = s[i]
  <2>1. page = SubSeq(window, 1, Lesser(size, n)) /\ Lesser(size, n) \in Nat
    BY <1>1, <1>2, <1>4 DEF Upto, Lesser
  <2>2. page = [i \in 1 .. Lesser(size, n) |-> window[i]]
    <3>1. PICK c \in Nat : c = Lesser(size, n)
      BY <2>1
    <3>2. SubSeq(window, 1, c) = [i \in 1 .. c |-> window[i]]
      OBVIOUS
    <3> QED BY <2>1, <3>1, <3>2
  <2>3. \A i \in 1 .. Lesser(size, n) : i \in 1 .. Lesser(size + 1, n)
    BY <1>1, <1>2 DEF Lesser
  <2>4. page \in Seq(Rows)
    BY <1>2, <1>4, PageOfRows
  <2>5. PICK c \in Nat : c = Lesser(size, n)
    BY <2>1
  <2>6. page = [i \in 1 .. c |-> window[i]]
    BY <2>2, <2>5
  <2>7. DOMAIN page = 1 .. c /\ \A i \in 1 .. c : page[i] = window[i]
    BY <2>6
  <2>8. Len(page) = c
    BY <2>4, <2>5, <2>7, LenProperties
  <2>9. \A i \in 1 .. c : page[i] = s[i]
    BY <1>4, <2>3, <2>5, <2>7, Zenon
  <2> QED BY <2>4, <2>5, <2>7, <2>8, <2>9, Zenon
<1>6. \A i \in 1 .. Lesser(size, n) : i \in 1 .. n
  BY <1>1, <1>2 DEF Lesser
<1>7. Ascends(page)
  <2>1. PICK c : c = Lesser(size, n)
    OBVIOUS
  <2>2. /\ DOMAIN page = 1 .. c
        /\ \A i \in 1 .. c : i \in DOMAIN s /\ page[i] = s[i]
    <3>1. DOMAIN page = 1 .. c
      BY <1>5, <2>1
    <3>2. \A i \in 1 .. c : page[i] = s[i]
      BY <1>5, <2>1
    <3>3. \A i \in 1 .. c : i \in DOMAIN s
      BY <1>3, <1>6, <2>1, Zenon
    <3> QED BY <3>1, <3>2, <3>3, Zenon
  <2>3. \A i, j \in DOMAIN s : i < j => s[i] < s[j]
    BY DEF Ascends
  <2>4. ASSUME NEW i \in 1 .. c, NEW j \in 1 .. c, i < j PROVE page[i] < page[j]
    <3>1. i \in DOMAIN s /\ j \in DOMAIN s /\ page[i] = s[i] /\ page[j] = s[j]
      BY <2>2, Zenon
    <3> QED BY <2>3, <2>4, <3>1, Zenon
  <2> QED BY <2>2, <2>4, Zenon DEF Ascends
<1>8. ToSet(page) \subseteq ToSet(s)
  BY <1>3, <1>5, <1>6, Zenon DEF ToSet
<1>9. CASE n <= size
  <2>1. Lesser(size, n) = n /\ Lesser(size + 1, n) = n
    BY <1>1, <1>2, <1>9 DEF Lesser
  <2>2. next = None
    BY <1>1, <1>2, <1>4, <1>9, <2>1 DEF NextCursor
  <2>3. ToSet(page) = ToSet(s)
    BY <1>3, <1>5, <2>1, Zenon DEF ToSet
  <2> QED BY <1>5, <1>7, <2>2, <2>3
<1>10. CASE ~(n <= size)
  <2>1. /\ Lesser(size, n) = size /\ Lesser(size + 1, n) = size + 1
        /\ size \in 1 .. size /\ size \in 1 .. n /\ size \in 1 .. (size + 1)
    BY <1>1, <1>2, <1>10 DEF Lesser
  <2>2. next = s[size] /\ next \in Rows /\ next \in Nat
    <3>1. Len(window) > PageSize
      BY <1>2, <1>4, <2>1
    <3>2. next = window[size]
      BY <1>2, <3>1 DEF NextCursor
    <3> QED BY <1>3, <1>4, <2>1, <3>2
  <2>3. next # None
    BY <2>2, BrowseAssumption
  <2>4. next \in ToSet(page)
    BY <1>5, <2>1, <2>2, Zenon DEF ToSet
  <2>5. \A i \in 1 .. n : (i <= size => s[i] <= next) /\ (s[i] <= next => i <= size)
    <3> SUFFICES ASSUME NEW i \in 1 .. n PROVE (i <= size => s[i] <= next) /\ (s[i] <= next => i <= size)
      OBVIOUS
    <3>1. i < size => s[i] < s[size]
      BY <1>3, <2>1 DEF Ascends
    <3>2. size < i => s[size] < s[i]
      BY <1>3, <2>1 DEF Ascends
    <3>3. i = size => s[i] = s[size]
      OBVIOUS
    <3>4. PICK h \in Nat, b \in Nat : h = s[i] /\ b = s[size]
      BY <1>3, <2>1
    <3>5. (i < size => h < b) /\ (size < i => b < h) /\ (i = size => h = b)
      BY <3>1, <3>2, <3>3, <3>4
    <3>6. (i <= size => h <= b) /\ (h <= b => i <= size)
      BY <1>2, <3>4, <3>5
    <3> QED BY <2>2, <3>4, <3>6
  <2>6. \A x \in ToSet(page) : x <= next
    BY <1>5, <1>6, <2>1, <2>5 DEF ToSet
  <2>7. \A x \in ToSet(s) : x <= next => x \in ToSet(page)
    <3> SUFFICES ASSUME NEW i \in 1 .. n, s[i] <= next PROVE s[i] \in ToSet(page)
      BY <1>3 DEF ToSet
    <3>1. i \in 1 .. size
      BY <2>5
    <3> QED BY <1>5, <2>1, <3>1, Zenon DEF ToSet
  <2> QED BY <1>5, <1>7, <1>8, <2>2, <2>3, <2>4, <2>6, <2>7
<1> QED BY <1>1, <1>2, <1>9, <1>10

\* What ascends and then goes on behind its end ascends.
LEMMA AscendsOn ==
  ASSUME NEW s \in Seq(Rows), NEW t \in Seq(Rows), Ascends(s), Ascends(t),
         \A x \in ToSet(s), y \in ToSet(t) : x < y
  PROVE  s \o t \in Seq(Rows) /\ Ascends(s \o t) /\ ToSet(s \o t) = ToSet(s) \cup ToSet(t)
<1>1. PICK c \in Nat, n \in Nat : c = Len(s) /\ n = Len(t)
  BY LenProperties
<1>2. DOMAIN s = 1 .. c /\ DOMAIN t = 1 .. n
  BY <1>1, LenProperties
<1>3. /\ s \o t \in Seq(Rows) /\ Len(s \o t) = c + n
      /\ \A i \in 1 .. c + n : (s \o t)[i] = IF i <= c THEN s[i] ELSE t[i - c]
  BY <1>1, ConcatProperties
<1>4. DOMAIN (s \o t) = 1 .. c + n
  BY <1>3, LenProperties
<1>5. \A i \in 1 .. c : i \in 1 .. c + n /\ (s \o t)[i] = s[i] /\ s[i] \in ToSet(s)
  BY <1>2, <1>3 DEF ToSet
<1>6. \A i \in 1 .. n : c + i \in 1 .. c + n /\ (s \o t)[c + i] = t[i] /\ t[i] \in ToSet(t)
  <2> SUFFICES ASSUME NEW i \in 1 .. n
      PROVE c + i \in 1 .. c + n /\ (s \o t)[c + i] = t[i] /\ t[i] \in ToSet(t)
    OBVIOUS
  <2>1. c + i \in 1 .. c + n /\ ~(c + i <= c) /\ (c + i) - c = i
    BY <1>1
  <2>2. t[i] \in ToSet(t)
    BY <1>2, Zenon DEF ToSet
  <2> QED BY <1>3, <2>1, <2>2
<1>7. \A i \in 1 .. c + n : i \in 1 .. c \/ \E j \in 1 .. n : i = c + j
  <2> SUFFICES ASSUME NEW i \in 1 .. c + n, i \notin 1 .. c PROVE i - c \in 1 .. n /\ i = c + (i - c)
    OBVIOUS
  <2> QED BY <1>1
<1>8. ToSet(s \o t) = ToSet(s) \cup ToSet(t)
  <2>1. \A i \in 1 .. c + n : (s \o t)[i] \in ToSet(s) \cup ToSet(t)
    BY <1>5, <1>6, <1>7
  <2>3. \A x \in ToSet(s \o t) : x \in ToSet(s) \cup ToSet(t)
    BY <1>4, <2>1, Zenon DEF ToSet
  <2>2. \A x \in ToSet(s) \cup ToSet(t) : x \in ToSet(s \o t)
    BY <1>2, <1>4, <1>5, <1>6, Zenon DEF ToSet
  <2> QED BY <2>2, <2>3
<1>9. Ascends(s \o t)
  <2> SUFFICES ASSUME NEW i \in 1 .. c + n, NEW j \in 1 .. c + n, i < j PROVE (s \o t)[i] < (s \o t)[j]
    BY <1>4 DEF Ascends
  <2>1. CASE j \in 1 .. c
    <3>1. i \in 1 .. c
      BY <1>1, <2>1
    <3> QED BY <1>2, <1>5, <2>1, <3>1 DEF Ascends
  <2>2. CASE i \in 1 .. c /\ j \notin 1 .. c
    BY <1>5, <1>6, <1>7, <2>2, Zenon
  <2>3. CASE i \notin 1 .. c /\ j \notin 1 .. c
    <3>1. PICK h \in 1 .. n, b \in 1 .. n : i = c + h /\ j = c + b
      BY <1>7, <2>3
    <3>2. h < b
      BY <1>1, <3>1
    <3> QED BY <1>2, <1>6, <3>1, <3>2 DEF Ascends
  <2> QED BY <2>1, <2>2, <2>3
<1> QED BY <1>3, <1>8, <1>9

\* A window is of rows behind the cursor in ascending order, and of the list of
\* all sizes it is of all of them while the row of the cursor exists.
LEMMA WindowAhead ==
  ASSUME NEW list \in {PartnerList, PartnerLowStock}, NEW cursor \in Rows \cup {None}
  PROVE  \E s \in Seq(Rows) :
           /\ Ascends(s) /\ Window(list, cursor) = Upto(s, PageSize + 1) /\ ToSet(s) \subseteq Existing
           /\ cursor # None => \A x \in ToSet(s) : cursor < x
           /\ list.all /\ (cursor = None \/ cursor \in Existing) =>
                \A x \in Existing : cursor = None \/ cursor < x => x \in ToSet(s)
<1> DEFINE M == {x \in Stock(list, row) : cursor = None \/ x >= cursor}
<1>1. PICK h : h = InOrder(M)
  OBVIOUS
<1>2. /\ h \in Seq(Rows) /\ Ascends(h) /\ ToSet(h) = M /\ DOMAIN h = 1 .. Len(h) /\ Len(h) \in Nat
      /\ \A i \in 1 .. Len(h) : h[i] \in M
  <2>1. M \in SUBSET Rows
    BY DEF Stock
  <2>2. h \in SetToSeqs(M) /\ Ascends(h)
    BY <1>1, <2>1, RowsInOrder
  <2>3. h \in Seq(Rows) /\ ToSet(h) = M /\ DOMAIN h = 1 .. Len(h)
    BY <2>1, <2>2, SequenceOfRows
  <2>4. \A i \in 1 .. Len(h) : h[i] \in M
    BY <2>3, Zenon DEF ToSet
  <2> QED BY <2>2, <2>3, <2>4, LenProperties
<1>3. M \subseteq Rows /\ Rows \subseteq Nat /\ None \notin Rows
      /\ M \subseteq Existing /\ \A x \in M : cursor = None \/ x >= cursor
  BY BrowseAssumption DEF Stock, Existing
<1>4. list.all => \A x \in Existing : x \in Stock(list, row)
  BY DEF Existing, Stock
<1>5. CASE cursor = None
  <2>1. Window(list, cursor) = Upto(h, PageSize + 1)
    <3>1. cursor \notin Existing
      BY <1>3, <1>5 DEF Existing
    <3> QED BY <1>1, <1>5, <3>1 DEF Window
  <2>2. list.all => \A x \in Existing : x \in ToSet(h)
    BY <1>2, <1>4, <1>5
  <2> QED BY <1>2, <1>3, <1>5, <2>1, <2>2
<1>6. CASE cursor # None /\ cursor \in Existing
  <2>1. PICK b : b = SubSeq(h, 2, Len(h))
    OBVIOUS
  <2>2. Window(list, cursor) = Upto(b, PageSize + 1)
    BY <1>1, <1>6, <2>1 DEF Window
  <2>3. PICK n \in Nat : n = Len(h)
    BY <1>2
  <2>4. /\ b \in Seq(Rows) /\ Len(b) = IF 2 <= n THEN n - 1 ELSE 0
        /\ \A i \in 1 .. n - 1 : b[i] = h[i + 1]
    <3>1. \A i \in 2 .. n : h[i] \in Rows
      BY <1>2, <1>3, <2>3
    <3> QED BY <2>1, <2>3, <3>1, SubSeqProperties
  <2>5. Len(b) \in Nat /\ DOMAIN b = 1 .. Len(b)
    BY <2>4, LenProperties
  <2>6. \A i \in 1 .. Len(b) : b[i] = h[i + 1] /\ i + 1 \in 1 .. n /\ 1 \in 1 .. n
    BY <2>3, <2>4
  <2>7. Ascends(b)
    <3> SUFFICES ASSUME NEW i \in 1 .. Len(b), NEW j \in 1 .. Len(b), i < j PROVE b[i] < b[j]
      BY <2>5 DEF Ascends
    <3>1. i + 1 < j + 1
      BY <2>5
    <3> QED BY <1>2, <2>3, <2>6, <3>1 DEF Ascends
  <2>8. cursor \in Nat /\ \A i \in 1 .. n : h[i] >= cursor /\ h[i] \in Nat /\ h[i] \in Rows
    <3>1. cursor \in Nat
      BY <1>3, <1>6
    <3> QED BY <1>2, <1>3, <1>6, <2>3, <3>1
  <2>9. \A x \in ToSet(b) : cursor < x
    <3> SUFFICES ASSUME NEW i \in 1 .. Len(b) PROVE cursor < b[i]
      BY <2>5, Zenon DEF ToSet
    <3>1. h[1] < h[i + 1] /\ b[i] = h[i + 1]
      BY <1>2, <2>3, <2>6 DEF Ascends
    <3>2. h[1] >= cursor /\ h[1] \in Nat /\ h[i + 1] \in Nat
      BY <2>6, <2>8
    <3> QED BY <2>8, <3>1, <3>2
  <2>10. ASSUME list.all, NEW x \in Existing, cursor < x PROVE x \in ToSet(b)
    <3>1. x \in Nat /\ cursor \in Stock(list, row) /\ x \in Stock(list, row)
      BY <1>3, <1>4, <1>6, <2>10 DEF Existing
    <3>2. x \in M /\ cursor \in M
      BY <2>8, <2>10, <3>1
    <3>3. PICK i \in 1 .. n, j \in 1 .. n : h[i] = cursor /\ h[j] = x
      BY <1>2, <2>3, <3>2, Zenon DEF ToSet
    <3>4. i < j
      <4>1. j < i => h[j] < h[i]
        BY <1>2, <2>3 DEF Ascends
      <4> QED BY <2>3, <2>8, <2>10, <3>1, <3>3, <4>1
    <3>5. PICK l : l = j - 1
      OBVIOUS
    <3>6. l \in 1 .. Len(b) /\ l + 1 = j
      BY <2>3, <2>4, <3>4, <3>5
    <3>7. b[l] = x
      BY <2>6, <3>3, <3>6
    <3> QED BY <2>5, <3>6, <3>7, Zenon DEF ToSet
  <2>11. ToSet(b) \subseteq Existing
    <3>1. \A i \in 1 .. Len(b) : b[i] \in M
      BY <1>2, <2>3, <2>6
    <3> QED BY <1>3, <2>5, <3>1 DEF ToSet
  <2> QED BY <1>6, <2>2, <2>4, <2>7, <2>9, <2>10, <2>11
<1>7. CASE cursor # None /\ cursor \notin Existing
  <2>1. Window(list, cursor) = <<>>
    BY <1>7 DEF Window
  <2>2. <<>> \in Seq(Rows) /\ Ascends(<<>>) /\ ToSet(<<>>) = {}
    <3>1. DOMAIN <<>> = {}
      OBVIOUS
    <3> QED BY <3>1, EmptySeq DEF Ascends, ToSet
  <2>3. Upto(<<>>, PageSize + 1) = <<>>
    <3>1. Len(<<>>) = 0 /\ Lesser(PageSize + 1, 0) = 0
      BY BrowseAssumption DEF Lesser
    <3> QED BY <3>1, SubSeqEmpty DEF Upto
  <2> QED BY <1>7, <2>1, <2>2, <2>3
<1> QED BY <1>5, <1>6, <1>7

LEMMA ReadStockTells ==
  ASSUME BrowseTells, NEW r \in Readers, ReadStock(r)
  PROVE  BrowseTells'
<1>1. PICK w \in Readings : w = reading[r] /\ Told(w)
  BY DEF BrowseTells, BrowseTyped
<1>2. w \in Cursors /\ w.at = "cursor" /\ CursorTells(w)
  BY <1>1, ReadingKinds DEF ReadStock, Told
<1>3. PICK window, next, page : window = Window(w.list, w.cursor) /\ next = NextCursor(window)
                                /\ page = Upto(window, PageSize)
  OBVIOUS
<1> DEFINE u == [w EXCEPT !.got = @ \o page, !.cursor = next, !.at = IF next = None THEN "end" ELSE "cursor"]
<1>4. Step(r, u) /\ UNCHANGED cache
  BY <1>1, <1>3 DEF ReadStock
<1>5. PICK s \in Seq(Rows) :
        /\ Ascends(s) /\ window = Upto(s, PageSize + 1) /\ ToSet(s) \subseteq Existing
        /\ w.cursor # None => \A x \in ToSet(s) : w.cursor < x
        /\ w.list.all /\ (w.cursor = None \/ w.cursor \in Existing) =>
             \A x \in Existing : w.cursor = None \/ w.cursor < x => x \in ToSet(s)
  BY <1>2, <1>3, WindowAhead DEF Cursors
<1>6. /\ page \in Seq(Rows) /\ Ascends(page) /\ ToSet(page) \subseteq ToSet(s)
      /\ next = None => ToSet(page) = ToSet(s)
      /\ next # None => /\ next \in ToSet(page) /\ next \in Rows
                        /\ \A x \in ToSet(page) : x <= next
                        /\ \A x \in ToSet(s) : x <= next => x \in ToSet(page)
  BY <1>3, <1>5, WindowSplit
<1>7. /\ w.got \in Seq(Rows) /\ Ascends(w.got) /\ ToSet(w.got) \subseteq Rows /\ ToSet(page) \subseteq Rows
      /\ w.cursor = None => w.got = <<>>
      /\ w.cursor # None => w.cursor \in Nat /\ \A x \in ToSet(w.got) : x <= w.cursor
      /\ Rows \subseteq Nat
  <2>1. w.got \in Seq(Rows) /\ w.cursor \in Rows \cup {None} /\ Rows \subseteq Nat
    BY <1>2, BrowseAssumption DEF Cursors
  <2>2. \A t \in Seq(Rows) : ToSet(t) \subseteq Rows
    BY ElementOfSeq, LenProperties DEF ToSet
  <2>3. /\ Ascends(w.got) /\ w.cursor = None => w.got = <<>>
        /\ w.cursor # None => \A x \in ToSet(w.got) : x <= w.cursor
    BY <1>2 DEF CursorTells
  <2> QED BY <1>2, <1>6, <2>1, <2>2, <2>3 DEF CursorTells
<1>8. \A x \in ToSet(w.got), y \in ToSet(page) : x < y
  <2>1. ToSet(<<>>) = {}
    <3>1. DOMAIN <<>> = {}
      OBVIOUS
    <3> QED BY <3>1 DEF ToSet
  <2>2. ASSUME w.cursor # None, NEW x \in ToSet(w.got), NEW y \in ToSet(page) PROVE x < y
    <3>1. x \in Nat /\ y \in Nat /\ w.cursor \in Nat /\ x <= w.cursor /\ w.cursor < y
      BY <1>5, <1>6, <1>7, <2>2
    <3> QED BY <3>1
  <2> QED BY <1>7, <2>1, <2>2
<1>9. /\ w.got \o page \in Seq(Rows) /\ Ascends(w.got \o page)
      /\ ToSet(w.got \o page) = ToSet(w.got) \cup ToSet(page)
  BY <1>6, <1>7, <1>8, AscendsOn
<1>10. /\ u \in Cursors /\ u.got = w.got \o page /\ u.cursor = next /\ u.list = w.list
       /\ u.stay = w.stay /\ u.lost = w.lost
       /\ next = None => u.at = "end"
       /\ next # None => u.at = "cursor"
  BY <1>2, <1>6, <1>9 DEF Cursors
<1> HIDE DEF u
<1>11. ASSUME next # None
       PROVE  next \in ToSet(u.got) /\ \A x \in ToSet(u.got) : x <= next
  <2>1. ASSUME NEW x \in ToSet(w.got) PROVE x <= next
    <3>1. x < next /\ x \in Nat /\ next \in Nat
      BY <1>6, <1>7, <1>8, <1>11, <2>1
    <3> QED BY <3>1
  <2> QED BY <1>6, <1>9, <1>10, <1>11, <2>1
<1>12. ASSUME w.list.all, ~w.lost
       PROVE  /\ w.stay \subseteq Existing
              /\ next = None => w.stay \subseteq ToSet(u.got)
              /\ next # None => next \in Existing /\ \A x \in w.stay : x <= next => x \in ToSet(u.got)
  <2>1. w.stay \subseteq Existing /\ (w.cursor # None =>
          w.cursor \in Existing /\ \A x \in w.stay : x <= w.cursor => x \in ToSet(w.got))
    BY <1>2, <1>12 DEF CursorTells
  <2>2. \A x \in w.stay : x \in ToSet(w.got) \/ x \in ToSet(s)
    <3> SUFFICES ASSUME NEW x \in w.stay PROVE x \in ToSet(w.got) \/ x \in ToSet(s)
      OBVIOUS
    <3>1. x \in Existing /\ x \in Nat
      BY <1>7, <2>1 DEF Existing
    <3>2. CASE w.cursor = None
      BY <1>5, <1>12, <3>1, <3>2
    <3>3. CASE w.cursor # None
      <4>1. x <= w.cursor \/ w.cursor < x
        BY <1>7, <3>1, <3>3
      <4> QED BY <1>5, <1>12, <2>1, <3>1, <3>3, <4>1
    <3> QED BY <3>2, <3>3
  <2>3. next = None => w.stay \subseteq ToSet(u.got)
    BY <1>6, <1>9, <1>10, <2>2
  <2>4. next # None => \A x \in w.stay : x <= next => x \in ToSet(u.got)
    BY <1>6, <1>9, <1>10, <2>2
  <2>5. next # None => next \in Existing
    BY <1>5, <1>6
  <2> QED BY <2>1, <2>3, <2>4, <2>5
<1>13. CursorTells(u)
  BY <1>9, <1>10, <1>11, <1>12 DEF CursorTells
<1> QED BY <1>4, <1>10, <1>13, CursorTold, OnlyTells

\* What is told of a partner's reading says that it misses nothing.
LEMMA CursorsEnd == BrowseTells => CursorMissesNothing
<1> SUFFICES ASSUME BrowseTells PROVE CursorMissesNothing
  OBVIOUS
<1> SUFFICES ASSUME NEW r \in Readers, NEW w \in Readings, w = reading[r], w.at \in {"cursor", "end"}
    PROVE  /\ \A x \in Rows : Occurs(w.got, x) <= 1
           /\ w.list.all => MissesNothing(w)
  <2>1. \A r \in Readers : reading[r] \in Readings
    BY DEF BrowseTells, BrowseTyped
  <2> QED BY <2>1, Zenon DEF CursorMissesNothing
<1>1. w \in Cursors /\ CursorTells(w)
  BY ReadingKinds DEF BrowseTells, Told
<1>2. w.got \in Seq(Rows) /\ Ascends(w.got) /\ w.lost \in BOOLEAN
  BY <1>1 DEF CursorTells, Cursors
<1>3. ASSUME NEW x \in Rows PROVE Occurs(w.got, x) <= 1
  <2> DEFINE at == {i \in DOMAIN w.got : w.got[i] = x}
  <2>1. DOMAIN w.got = 1 .. Len(w.got) /\ Len(w.got) \in Nat /\ x \in Nat
    BY <1>2, LenProperties, BrowseAssumption
  <2>2. \A i, j \in at : i = j
    <3> SUFFICES ASSUME NEW i \in at, NEW j \in at, i < j PROVE FALSE
      BY <2>1
    <3> QED BY <1>2, <2>1 DEF Ascends
  <2>3. CASE at = {}
    BY <2>3, FS_EmptySet DEF Occurs
  <2>4. CASE at # {}
    <3>1. PICK i \in at : TRUE
      BY <2>4
    <3>3. at = {i}
      BY <2>2, <3>1
    <3>2. Cardinality(at) = 1
      BY <3>3, FS_Singleton
    <3> QED BY <3>2 DEF Occurs
  <2> QED BY <2>3, <2>4
<1>4. w.list.all => MissesNothing(w)
  BY <1>1 DEF CursorTells, MissesNothing
<1> QED BY <1>3, <1>4

\* A walk is told of by nothing else, nor are the facets.
LEMMA WalkTold ==
  ASSUME NEW w \in Walks, WalkTells(w)
  PROVE  w \in Readings /\ Told(w)
<1>1. w \in Readings /\ w.at \in {"ask", "load", "done"}
  BY DEF Readings, Walks
<1> QED BY <1>1 DEF Told, FiltersTell, CursorTells, ChoiceTells

LEMMA FiltersTold ==
  ASSUME NEW w \in Filterings, FiltersTell(w)
  PROVE  w \in Readings /\ Told(w)
<1>1. w \in Readings /\ w.at = "filters"
  BY DEF Readings, Filterings
<1> QED BY <1>1 DEF Told, WalkTells, CursorTells, ChoiceTells

LEMMA OpenFiltersTells ==
  ASSUME BrowseTells, NEW r \in Readers, OpenFilters(r)
  PROVE  BrowseTells'
<1> DEFINE w == [at |-> "filters", offered |-> Offered, quiet |-> TRUE]
<1>1. Step(r, w) /\ UNCHANGED cache
  BY DEF OpenFilters
<1>2. Offered \in SUBSET Facets
  BY DEF Offered, Facets, Shown
<1>4. w \in Filterings /\ FiltersTell(w)
  BY <1>2 DEF Filterings, FiltersTell
<1> QED BY <1>1, <1>4, FiltersTold, OnlyTells

\* An order of a listing's rows is a sequence of them.
LEMMA OrderOfRows ==
  ASSUME NEW list, NEW facet, NEW tied, NEW s \in AllOrders(Matching(list, facet), tied)
  PROVE  /\ s \in SetToSeqs(Matching(list, facet)) /\ s \in Seq(Rows) /\ Len(s) \in Nat
         /\ Len(s) = Cardinality(Matching(list, facet)) /\ ToSet(s) = Matching(list, facet)
<1>1. s \in SetToSeqs(Matching(list, facet)) /\ Matching(list, facet) \in SUBSET Rows
  BY MatchingRows DEF AllOrders
<1> QED BY <1>1, SequenceOfRows

LEMMA WalkBegins ==
  ASSUME NEW list \in Listings, NEW facet \in Facets \cup {None}, NEW quiet \in BOOLEAN,
         facet # None => list = GetSeriesWiseProducts /\ (quiet => facet \in Offered)
  PROVE  Walk(list, facet, quiet) \in Readings /\ Told(Walk(list, facet, quiet))
<1> DEFINE w == Walk(list, facet, quiet)
<1>1. <<>> \in Seq(Rows) /\ 1 \in Pages
  BY EmptySeq, FirstPage
<1>2. /\ w.at = "ask" /\ w.list = list /\ w.facet = facet /\ w.n = 1 /\ w.got = <<>>
      /\ w.rows = None /\ w.total = None /\ w.quiet = quiet /\ w \in Walks
  BY <1>1 DEF Walk, Walks
<1> HIDE DEF w
<1>3. LoadTells(w)
  BY <1>2 DEF LoadTells
<1>4. GotTells(w)
  <2>1. (1 - 1) * PageSize = 0
    BY BrowseAssumption
  <2>2. 0 <= Cardinality(Matching(w.list, w.facet))
    BY MatchingRows, FS_CardinalityType, BrowseAssumption
  <2>3. \A s : SubSeq(s, 1, 0) = <<>>
    BY SubSeqEmpty
  <2>4. (w.n - 1) * PageSize <= Cardinality(Matching(w.list, w.facet))
    BY <1>2, <2>1, <2>2
  <2>5. \A s : w.got = SubSeq(s, 1, (w.n - 1) * PageSize)
    BY <1>2, <2>1, <2>3
  <2>6. w.at # "done"
    BY <1>2
  <2> QED BY <2>4, <2>5, <2>6, Zenon DEF GotTells
<1>5. FacetTells(w)
  <2>1. list.cached => facet = None
    BY ListingFields
  <2>2. ASSUME quiet, facet # None
        PROVE  /\ list = GetSeriesWiseProducts /\ shelf /\ Matching(list, facet) # {}
    <3>1. PICK y \in Shown : shelf /\ Facet[y] = facet
      BY <2>2 DEF Offered
    <3>2. y \in Matching(list, facet)
      BY <3>1 DEF Matching, Existing, Shown
    <3> QED BY <2>2, <3>1, <3>2
  <2>3. ~(w.n > 1 \/ w.at = "done")
    BY <1>2
  <2> QED BY <1>2, <2>1, <2>2, <2>3 DEF FacetTells
<1>6. WalkTells(w)
  BY <1>2, <1>3, <1>4, <1>5 DEF WalkTells
<1> QED BY <1>2, <1>6, WalkTold DEF w

LEMMA OpenListingTells ==
  ASSUME BrowseTells, NEW r \in Readers, NEW list \in Listings, OpenListing(r, list)
  PROVE  BrowseTells'
<1>2. Walk(list, None, TRUE) \in Readings /\ Told(Walk(list, None, TRUE))
  BY WalkBegins
<1>3. Step(r, Walk(list, None, TRUE)) /\ UNCHANGED cache
  BY DEF OpenListing
<1> QED BY <1>2, <1>3, OnlyTells

LEMMA PickFacetTells ==
  ASSUME BrowseTells, NEW r \in Readers, NEW facet \in Facets, PickFacet(r, facet)
  PROVE  BrowseTells'
<1>1. PICK w \in Readings : w = reading[r] /\ Told(w)
  BY DEF BrowseTells, BrowseTyped
<1>2. w \in Filterings /\ w.at = "filters" /\ FiltersTell(w) /\ w.quiet \in BOOLEAN
  BY <1>1, ReadingKinds DEF PickFacet, Told, Filterings
<1>3. facet \in w.offered /\ Step(r, Walk(GetSeriesWiseProducts, facet, w.quiet)) /\ UNCHANGED cache
  BY <1>1 DEF PickFacet
<1>4. GetSeriesWiseProducts \in Listings
  BY ListingFields
<1>5. w.quiet => facet \in Offered
  BY <1>2, <1>3 DEF FiltersTell
<1>6. /\ Walk(GetSeriesWiseProducts, facet, w.quiet) \in Readings
      /\ Told(Walk(GetSeriesWiseProducts, facet, w.quiet))
  BY <1>2, <1>4, <1>5, WalkBegins
<1> QED BY <1>3, <1>6, OnlyTells

\* The pages so far and the next one are the pages up to it.
LEMMA PagesGlued ==
  ASSUME NEW s \in Seq(Rows), NEW n \in Nat \ {0}, (n - 1) * PageSize <= Len(s)
  PROVE  SubSeq(s, 1, (n - 1) * PageSize) \o Page(s, n)
           = IF n * PageSize < Len(s) THEN SubSeq(s, 1, n * PageSize) ELSE s
<1>1. PICK size \in Nat : size = PageSize /\ size > 0
  BY BrowseAssumption
<1>2. PICK h \in Nat, b \in Nat, l \in Nat : h = (n - 1) * size /\ b = n * size /\ l = Len(s)
  <2>1. (n - 1) * size \in Nat /\ n * size \in Nat
    BY <1>1
  <2> QED BY <2>1, LenProperties
<1>3. b = h + size /\ h <= l
  <2>1. (n - 1) * size = n * size - size
    BY <1>1, Product
  <2> QED BY <1>1, <1>2, <2>1
<1>4. PICK c \in Nat : c = Lesser(b, l) /\ h <= c /\ c <= l
  BY <1>1, <1>2, <1>3 DEF Lesser
<1>5. \A i \in 1 .. l : s[i] \in Rows
  BY <1>2, ElementOfSeq
<1> DEFINE x == SubSeq(s, 1, h)
           y == SubSeq(s, h + 1, c)
           z == SubSeq(s, 1, c)
<1>6. x \in Seq(Rows) /\ Len(x) = h /\ \A i \in 1 .. h : x[i] = s[i]
  <2>1. \A i \in 1 .. h : s[i] \in Rows
    BY <1>2, <1>3, <1>5
  <2> QED BY <1>2, <2>1, SubSeqProperties
<1>7. y \in Seq(Rows) /\ Len(y) = c - h /\ \A i \in 1 .. c - h : y[i] = s[h + i]
  <2>1. \A i \in h + 1 .. c : s[i] \in Rows
    BY <1>2, <1>4, <1>5
  <2>2. /\ y \in Seq(Rows) /\ Len(y) = (IF h + 1 <= c THEN c - (h + 1) + 1 ELSE 0)
        /\ \A i \in 1 .. c - (h + 1) + 1 : y[i] = s[(h + 1) + i - 1]
    <3>1. h + 1 \in Int /\ c \in Int
      BY <1>2, <1>4
    <3> HIDE DEF y
    <3>2. y = SubSeq(s, h + 1, c)
      BY DEF y
    <3> QED BY <2>1, <3>1, <3>2, SubSeqProperties
  <2>3. c - (h + 1) + 1 = c - h /\ (~(h + 1 <= c) => c - h = 0)
    BY <1>2, <1>4
  <2>4. \A i \in 1 .. c - h : (h + 1) + i - 1 = h + i
    BY <1>2, <1>4
  <2> QED BY <2>2, <2>3, <2>4
<1>8. z \in Seq(Rows) /\ Len(z) = c /\ \A i \in 1 .. c : z[i] = s[i]
  <2>1. \A i \in 1 .. c : s[i] \in Rows
    BY <1>2, <1>4, <1>5
  <2> QED BY <1>4, <2>1, SubSeqProperties
<1> HIDE DEF x, y, z
<1>9. /\ x \o y \in Seq(Rows) /\ Len(x \o y) = c
      /\ \A i \in 1 .. c : (x \o y)[i] = IF i <= h THEN x[i] ELSE y[i - h]
  <2>1. /\ x \o y \in Seq(Rows) /\ Len(x \o y) = Len(x) + Len(y)
        /\ \A i \in 1 .. Len(x) + Len(y) : (x \o y)[i] = IF i <= Len(x) THEN x[i] ELSE y[i - Len(x)]
    BY <1>6, <1>7, ConcatProperties
  <2>2. Len(x) + Len(y) = c
    BY <1>2, <1>4, <1>6, <1>7
  <2> QED BY <1>6, <2>1, <2>2
<1>10. \A i \in 1 .. c : (x \o y)[i] = z[i]
  <2> SUFFICES ASSUME NEW i \in 1 .. c PROVE (x \o y)[i] = z[i]
    OBVIOUS
  <2>1. CASE i <= h
    BY <1>6, <1>8, <1>9, <2>1
  <2>2. CASE ~(i <= h)
    <3>1. i - h \in 1 .. c - h /\ h + (i - h) = i
      BY <1>2, <1>4, <2>2
    <3> QED BY <1>7, <1>8, <1>9, <2>2, <3>1
  <2> QED BY <2>1, <2>2
<1>11. x \o y = z
  BY <1>8, <1>9, <1>10, SeqEqual
<1>12. b < l => c = b
  BY <1>2, <1>4 DEF Lesser
<1>13. ~(b < l) => z = s
  <2>1. ~(b < l) => c = l
    BY <1>2, <1>4 DEF Lesser
  <2> QED BY <1>2, <1>8, <2>1, SeqEqual
<1>14. x = SubSeq(s, 1, (n - 1) * PageSize) /\ y = Page(s, n)
  BY <1>1, <1>2, <1>4 DEF x, y, Page
<1>15. b < l => z = SubSeq(s, 1, n * PageSize)
  BY <1>1, <1>2, <1>12 DEF z
<1> QED BY <1>1, <1>2, <1>11, <1>13, <1>14, <1>15

\* An answer that is as the rows are keeps what is told of the walk.
LEMMA ReceiveTells ==
  ASSUME BrowseTells, NEW r \in Readers, NEW w \in Walks, w = reading[r], WalkTells(w),
         w.at \in {"ask", "load"}, NEW answer \in Answers, NEW fresh \in BOOLEAN,
         Receive(r, answer, fresh), w.list.cached \/ fresh,
         w.quiet /\ fresh => /\ IsPage(answer.rows, w.list, w.facet, w.n)
                             /\ IsTotal(answer.total, w.list, w.facet),
         CacheTyped', CacheTells'
  PROVE  BrowseTells'
<1>1. PICK u : u = reading'[r]
  OBVIOUS
<1> DEFINE more == w.n < TotalPages(answer.total)
           M == Matching(w.list, w.facet)
<1>2. /\ UNCHANGED <<row, rank, shelf, dirty, drift>> /\ reading' = [reading EXCEPT ![r] = u] /\ u \in Walks
      /\ u.list = w.list /\ u.facet = w.facet /\ u.quiet = w.quiet /\ (u.fresh => w.fresh /\ fresh)
      /\ u.got = w.got \o answer.rows /\ u.rows = None /\ u.total = None /\ u.fill = FALSE
      /\ more => u.n = w.n + 1 /\ u.at = "ask"
      /\ ~more => u.n = w.n /\ u.at = "done"
  <2>1. BrowseTyped /\ reading[r].at \in {"ask", "load"}
    BY DEF BrowseTells
  <2>2. /\ UNCHANGED <<row, rank, shelf, dirty, drift>>
        /\ reading' = [reading EXCEPT ![r] = reading'[r]] /\ reading'[r] \in Walks
        /\ reading'[r].list = reading[r].list /\ reading'[r].facet = reading[r].facet
        /\ reading'[r].quiet = reading[r].quiet
        /\ reading'[r].fresh => reading[r].fresh /\ fresh
        /\ reading'[r].got = reading[r].got \o answer.rows
        /\ reading'[r].rows = None /\ reading'[r].total = None /\ reading'[r].fill = FALSE
        /\ reading[r].n < TotalPages(answer.total) =>
             reading'[r].n = reading[r].n + 1 /\ reading'[r].at = "ask"
        /\ ~(reading[r].n < TotalPages(answer.total)) =>
             reading'[r].n = reading[r].n /\ reading'[r].at = "done"
    BY <2>1, ReceiveFields, Zenon
  <2> QED BY <1>1, <2>2, Zenon
<1>3. Step(r, u)
  BY <1>2 DEF Step
<1>4. w.n \in Nat /\ w.n > 0 /\ answer.total \in Nat /\ w.list \in Listings /\ w.got \in Seq(Rows)
      /\ answer.rows \in Seq(Rows)
  <2>1. w.n \in Pages /\ answer.total \in 0 .. Cardinality(Rows) /\ Cardinality(Rows) \in Nat
    BY BrowseAssumption, FS_CardinalityType DEF Walks, Answers
  <2> QED BY <2>1 DEF Pages, Walks, Answers
<1>5. u.at # "load" /\ LoadTells(u)
  BY <1>2 DEF LoadTells
<1>6. ASSUME w.quiet, fresh
      PROVE  \E s \in AllOrders(M, w.list.tied) :
               answer.rows = Page(s, w.n) /\ Len(s) \in Nat /\ Len(s) = Cardinality(M) /\ s \in Seq(Rows)
               /\ (more <=> w.n * PageSize < Len(s))
  <2>1. PICK s \in AllOrders(M, w.list.tied) : answer.rows = Page(s, w.n)
    BY <1>6 DEF IsPage
  <2>2. Len(s) = Cardinality(M) /\ Len(s) \in Nat /\ s \in Seq(Rows)
    BY OrderOfRows
  <2>3. answer.total = Len(s)
    BY <1>6, <2>2 DEF IsTotal
  <2> QED BY <1>4, <2>1, <2>2, <2>3, PagesCount
<1> HIDE DEF more
<1>7. GotTells(u)
  <2> SUFFICES ASSUME w.quiet, w.fresh, fresh, w.list \in Sorted
      PROVE  IF u.at = "done" THEN \E s \in AllOrders(M, FALSE) : u.got = s
             ELSE /\ (u.n - 1) * PageSize <= Cardinality(M)
                  /\ \A s \in AllOrders(M, FALSE) : u.got = SubSeq(s, 1, (u.n - 1) * PageSize)
    BY <1>2 DEF GotTells
  <2>1. w.list.tied = FALSE
    BY ListingFields
  <2>2. PICK s \in AllOrders(M, FALSE) :
          answer.rows = Page(s, w.n) /\ Len(s) \in Nat /\ Len(s) = Cardinality(M) /\ s \in Seq(Rows)
          /\ (more <=> w.n * PageSize < Len(s))
    BY <1>6, <2>1
  <2>3. (w.n - 1) * PageSize <= Len(s) /\ w.got = SubSeq(s, 1, (w.n - 1) * PageSize)
    BY <2>2 DEF WalkTells, GotTells
  <2>4. u.got = IF more THEN SubSeq(s, 1, w.n * PageSize) ELSE s
    <3>1. w.n \in Nat \ {0}
      BY <1>4
    <3>2. SubSeq(s, 1, (w.n - 1) * PageSize) \o Page(s, w.n)
            = IF w.n * PageSize < Len(s) THEN SubSeq(s, 1, w.n * PageSize) ELSE s
      BY <2>2, <2>3, <3>1, PagesGlued, Zenon
    <3>3. u.got = SubSeq(s, 1, (w.n - 1) * PageSize) \o Page(s, w.n)
      BY <1>2, <2>2, <2>3, Zenon
    <3> QED BY <2>2, <3>2, <3>3, Zenon
  <2>5. CASE more
    <3>1. u.at # "done" /\ u.n - 1 = w.n
      BY <1>2, <1>4, <2>5
    <3>2. (u.n - 1) * PageSize <= Cardinality(M)
      <4>1. w.n * PageSize \in Nat
        BY <1>4, BrowseAssumption
      <4> QED BY <2>2, <2>5, <3>1, <4>1
    <3>3. \A t \in AllOrders(M, FALSE) : t = s
      BY MatchingRows, OneOrder DEF BrowseTells, BrowseTyped
    <3> QED BY <2>4, <2>5, <3>1, <3>2, <3>3
  <2>6. CASE ~more
    BY <1>2, <2>4, <2>6
  <2> QED BY <2>5, <2>6
<1>8. FacetTells(u)
  <2>1. w.list.cached => w.facet = None
    BY DEF WalkTells, FacetTells
  <2>2. ASSUME w.quiet, w.facet # None
        PROVE  /\ w.list = GetSeriesWiseProducts /\ shelf /\ M # {} /\ u.got # <<>>
    <3>5. fresh
      BY <2>1, <2>2
    <3>1. /\ w.list = GetSeriesWiseProducts /\ shelf /\ M # {}
          /\ w.n > 1 => w.got # <<>>
      BY <2>2 DEF WalkTells, FacetTells
    <3>2. Len(w.got) \in Nat /\ Len(answer.rows) \in Nat /\ Len(u.got) = Len(w.got) + Len(answer.rows)
      BY <1>2, <1>4, LenProperties, ConcatProperties
    <3>3. CASE w.n > 1
      <4>1. Len(w.got) # 0
        BY <1>4, <3>1, <3>3, EmptySeq
      <4>3. PICK h \in Nat, b \in Nat : h = Len(w.got) /\ b = Len(answer.rows)
        BY <3>2
      <4>4. \A x, y \in Nat : x # 0 => x + y # 0
        OBVIOUS
      <4>2. Len(u.got) # 0
        BY <3>2, <4>1, <4>3, <4>4, Zenon
      <4> QED BY <3>1, <4>2, EmptySeq
    <3>4. CASE w.n = 1
      <4>1. PICK s \in AllOrders(M, w.list.tied) :
              answer.rows = Page(s, 1) /\ Len(s) \in Nat /\ Len(s) = Cardinality(M) /\ s \in Seq(Rows)
        BY <1>6, <2>2, <3>4, <3>5
      <4>2. Len(s) > 0
        <5>1. IsFiniteSet(M)
          BY MatchingRows, BrowseAssumption, FS_Subset
        <5> QED BY <3>1, <4>1, <5>1, FS_EmptySet
      <4>3. (1 - 1) * PageSize + 1 = 1 /\ 1 * PageSize = PageSize /\ PageSize \in Nat /\ PageSize > 0
        BY BrowseAssumption
      <4>4. Page(s, 1) = SubSeq(s, 1, Lesser(PageSize, Len(s)))
        BY <4>3 DEF Page
      <4>5. Lesser(PageSize, Len(s)) \in 1 .. Len(s)
        BY <4>1, <4>2, <4>3 DEF Lesser
      <4>6. PICK c \in 1 .. Len(s) : c = Lesser(PageSize, Len(s))
        BY <4>5
      <4>7. Len(SubSeq(s, 1, c)) = c
        <5>1. \A i \in 1 .. c : s[i] \in Rows
          BY <4>1, <4>6, ElementOfSeq
        <5>2. c \in Int /\ 1 <= c
          BY <4>1, <4>6
        <5> QED BY <5>1, <5>2, SubSeqProperties
      <4>8. Len(u.got) # 0
        BY <3>2, <4>1, <4>4, <4>6, <4>7
      <4> QED BY <3>1, <4>8, EmptySeq
    <3> QED BY <1>4, <3>1, <3>3, <3>4
  <2> QED BY <1>2, <2>1, <2>2 DEF FacetTells
<1>9. WalkTells(u)
  BY <1>2, <1>5, <1>7, <1>8 DEF WalkTells
<1>10. u \in Readings /\ Told(u)
  BY <1>2, <1>9, WalkTold
<1> QED BY <1>3, <1>10, OneTells

LEMMA AskKeptTells ==
  ASSUME BrowseTells, NEW r \in Readers, AskKept(r)
  PROVE  BrowseTells'
<1>1. PICK w \in Readings : w = reading[r] /\ Told(w)
  BY DEF BrowseTells, BrowseTyped
<1>2. w \in Walks /\ w.at = "ask" /\ WalkTells(w) /\ w.list.cached /\ w.list \in Listings /\ w.n \in Pages
  BY <1>1, ReadingKinds DEF AskKept, Told, Walks
<1>3. PICK answer : /\ answer = kept[w.list, w.n] /\ answer # None
                    /\ Receive(r, answer, UpToDate) /\ UNCHANGED cache
  BY <1>1, Zenon DEF AskKept
<1>4. <<w.list, w.n>> \in CachedPages /\ UpToDate \in BOOLEAN
  <2>1. UpToDate \in BOOLEAN
    BY Zenon DEF UpToDate
  <2> QED BY <1>2, <2>1 DEF CachedPages
<1>5. answer \in Answers
  BY <1>3, <1>4 DEF BrowseTells, BrowseTyped, CacheTyped
<1>6. UpToDate => IsPage(answer.rows, w.list, w.facet, w.n) /\ IsTotal(answer.total, w.list, w.facet)
  <2>1. w.facet = None
    BY <1>2 DEF WalkTells, FacetTells
  <2>2. <<w.list, w.n>>[1] = w.list /\ <<w.list, w.n>>[2] = w.n
    OBVIOUS
  <2> QED BY <1>3, <1>4, <2>1, <2>2, Zenon DEF BrowseTells, CacheTells
<1>7. UNCHANGED <<row, rank, shelf, dirty, drift>>
  BY <1>3, Zenon DEF Receive, Step
<1>8. CacheTells' /\ CacheTyped'
  BY <1>3, <1>7, SameCache DEF BrowseTells, BrowseTyped
<1> QED BY <1>1, <1>2, <1>3, <1>4, <1>5, <1>6, <1>8, ReceiveTells

\* A shelf that is not active has nothing on it.
LEMMA NothingShelved ==
  ASSUME NEW list \in Listings, list.shelved, ~shelf, NEW facet, NEW n \in Nat \ {0}
  PROVE  IsPage(<<>>, list, facet, n) /\ IsTotal(0, list, facet)
<1>1. Matching(list, facet) = {} /\ Cardinality({}) = 0
  BY FS_EmptySet DEF Matching
<1>2. <<>> \in AllOrders({}, list.tied)
  <2>1. 1 .. 0 = {} /\ DOMAIN <<>> = {} /\ <<>> = [i \in 1 .. 0 |-> {}]
    OBVIOUS
  <2>2. <<>> \in [1 .. 0 -> {}]
    BY <2>1
  <2>3. <<>> \in SetToSeqs({})
    BY <1>1, <2>1, <2>2 DEF SetToSeqs
  <2> QED BY <2>1, <2>3 DEF AllOrders
<1>3. Page(<<>>, n) = <<>>
  <2>1. (n - 1) * PageSize \in Nat /\ n * PageSize \in Nat
    BY BrowseAssumption
  <2>2. Lesser(n * PageSize, 0) = 0 /\ 0 < (n - 1) * PageSize + 1 /\ (n - 1) * PageSize + 1 \in Int
    BY <2>1 DEF Lesser
  <2>3. Len(<<>>) = 0
    OBVIOUS
  <2> QED BY <2>2, <2>3, SubSeqEmpty DEF Page
<1> QED BY <1>1, <1>2, <1>3 DEF IsPage, IsTotal

LEMMA AskLoadTells ==
  ASSUME BrowseTells, NEW r \in Readers, AskLoad(r)
  PROVE  BrowseTells'
<1>1. PICK w \in Readings : w = reading[r] /\ Told(w)
  BY DEF BrowseTells, BrowseTyped
<1>2. w \in Walks /\ w.at = "ask" /\ WalkTells(w) /\ w.list \in Listings /\ w.n \in Nat \ {0}
  <2>1. w.at = "ask"
    BY <1>1, Zenon DEF AskLoad
  <2> QED BY <1>1, <2>1, ReadingKinds DEF Told, Walks, Pages
<1>3. UNCHANGED <<row, rank, shelf, dirty, drift>> /\ UNCHANGED cache
  BY DEF AskLoad, Receive, Step
<1>4. CASE w.list.shelved /\ ~shelf
  <2>1. PICK answer : answer = [rows |-> <<>>, total |-> 0] /\ Receive(r, answer, TRUE)
    BY <1>1, <1>4 DEF AskLoad
  <2>2. answer \in Answers /\ answer.rows = <<>> /\ answer.total = 0
    BY <2>1, EmptySeq, BrowseAssumption, FS_CardinalityType DEF Answers
  <2>3. IsPage(answer.rows, w.list, w.facet, w.n) /\ IsTotal(answer.total, w.list, w.facet)
    BY <1>2, <1>4, <2>2, NothingShelved
  <2>4. CacheTells' /\ CacheTyped'
    BY <1>3, SameCache DEF BrowseTells, BrowseTyped
  <2> QED BY <1>1, <1>2, <2>1, <2>2, <2>3, <2>4, ReceiveTells
<1>5. CASE ~(w.list.shelved /\ ~shelf)
  <2> DEFINE u == [w EXCEPT !.at = "load", !.fill = TRUE]
  <2>1. Step(r, u)
    BY <1>1, <1>5 DEF AskLoad
  <2>2. /\ u \in Walks /\ u.at = "load" /\ u.rows = w.rows /\ u.total = w.total /\ u.list = w.list
        /\ u.facet = w.facet /\ u.n = w.n /\ u.got = w.got /\ u.quiet = w.quiet /\ u.fresh = w.fresh
    BY <1>2 DEF Walks
  <2> HIDE DEF u
  <2>3. LoadTells(u)
    BY <1>2, <2>2 DEF WalkTells, LoadTells
  <2>4. GotTells(u) /\ FacetTells(u)
    BY <1>2, <2>2 DEF WalkTells, GotTells, FacetTells
  <2>5. WalkTells(u)
    BY <1>2, <2>2, <2>3, <2>4 DEF WalkTells
  <2> QED BY <1>3, <2>1, <2>2, <2>5, WalkTold, OnlyTells
<1> QED BY <1>4, <1>5

\* What is read while a page is loaded.
LEMMA LoadedTells ==
  ASSUME BrowseTells, NEW r \in Readers, NEW w \in Walks, WalkTells(w), w.at = "load",
         NEW rows \in Seq(Rows) \cup {None}, NEW total \in (0 .. Cardinality(Rows)) \cup {None},
         rows = w.rows \/ IsPage(rows, w.list, w.facet, w.n),
         total = w.total \/ IsTotal(total, w.list, w.facet),
         Step(r, [w EXCEPT !.rows = rows, !.total = total]), UNCHANGED cache
  PROVE  BrowseTells'
<1> DEFINE u == [w EXCEPT !.rows = rows, !.total = total]
<1>1. /\ u \in Walks /\ u.at = "load" /\ u.rows = rows /\ u.total = total /\ u.list = w.list
      /\ u.facet = w.facet /\ u.n = w.n /\ u.got = w.got /\ u.quiet = w.quiet /\ u.fill = w.fill
      /\ u.fresh = w.fresh
  BY DEF Walks
<1>2. Step(r, u)
  OBVIOUS
<1> HIDE DEF u
<1>3. LoadTells(u)
  BY <1>1 DEF WalkTells, LoadTells
<1>4. GotTells(u) /\ FacetTells(u)
  BY <1>1 DEF WalkTells, GotTells, FacetTells
<1>5. WalkTells(u)
  BY <1>1, <1>3, <1>4 DEF WalkTells
<1> QED BY <1>1, <1>2, <1>5, WalkTold, OnlyTells

LEMMA ReadRowsTells ==
  ASSUME BrowseTells, NEW r \in Readers, ReadRows(r)
  PROVE  BrowseTells'
<1>1. PICK w \in Readings : w = reading[r] /\ Told(w)
  BY DEF BrowseTells, BrowseTyped
<1>2. w \in Walks /\ w.at = "load" /\ WalkTells(w) /\ w.n \in Nat \ {0}
  <2>1. w.at = "load"
    BY <1>1, Zenon DEF ReadRows
  <2> QED BY <1>1, <2>1, ReadingKinds DEF Told, Walks, Pages
<1>3. PICK s \in AllOrders(Matching(w.list, w.facet), w.list.tied) :
        Step(r, [w EXCEPT !.rows = Page(s, w.n)]) /\ UNCHANGED cache
  BY <1>1 DEF ReadRows
<1>4. PICK rows, total : rows = Page(s, w.n) /\ total = w.total
  OBVIOUS
<1>5. rows \in Seq(Rows) /\ total \in (0 .. Cardinality(Rows)) \cup {None}
  BY <1>2, <1>4, OrderOfRows, PageOfRows DEF Walks
<1>6. [w EXCEPT !.rows = Page(s, w.n)] = [w EXCEPT !.rows = rows, !.total = total]
  BY <1>2, <1>4 DEF Walks
<1>7. IsPage(rows, w.list, w.facet, w.n)
  BY <1>4 DEF IsPage
<1>8. Step(r, [w EXCEPT !.rows = rows, !.total = total]) /\ UNCHANGED cache
  BY <1>3, <1>6
<1> QED BY <1>2, <1>4, <1>5, <1>7, <1>8, LoadedTells

LEMMA ReadCountTells ==
  ASSUME BrowseTells, NEW r \in Readers, ReadCount(r)
  PROVE  BrowseTells'
<1>1. PICK w \in Readings : w = reading[r] /\ Told(w)
  BY DEF BrowseTells, BrowseTyped
<1>2. w \in Walks /\ w.at = "load" /\ WalkTells(w)
  <2>1. w.at = "load"
    BY <1>1, Zenon DEF ReadCount
  <2> QED BY <1>1, <2>1, ReadingKinds DEF Told
<1>3. PICK rows, total : rows = w.rows /\ total = Cardinality(Matching(w.list, w.facet))
  OBVIOUS
<1>4. rows \in Seq(Rows) \cup {None} /\ total \in (0 .. Cardinality(Rows)) \cup {None}
  BY <1>2, <1>3, MatchingRows DEF Walks
<1>5. Step(r, [w EXCEPT !.total = total]) /\ UNCHANGED cache
  BY <1>1, <1>3 DEF ReadCount
<1>6. [w EXCEPT !.total = total] = [w EXCEPT !.rows = rows, !.total = total]
  BY <1>2, <1>3 DEF Walks
<1>7. IsTotal(total, w.list, w.facet)
  BY <1>3 DEF IsTotal
<1> QED BY <1>2, <1>3, <1>4, <1>5, <1>6, <1>7, LoadedTells

LEMMA AnswerTells ==
  ASSUME BrowseTells, NEW r \in Readers, Answer(r)
  PROVE  BrowseTells'
<1>1. PICK w \in Readings : w = reading[r] /\ Told(w)
  BY DEF BrowseTells, BrowseTyped
<1>2. w \in Walks /\ w.at = "load" /\ WalkTells(w) /\ w.list \in Listings /\ w.n \in Pages
  BY <1>1, ReadingKinds DEF Answer, Told, Walks
<1>3. PICK answer : answer = [rows |-> w.rows, total |-> w.total]
  OBVIOUS
<1>4. /\ w.rows # None /\ w.total # None /\ Receive(r, answer, TRUE) /\ UNCHANGED advised
      /\ kept' = IF w.list.cached /\ w.fill THEN [kept EXCEPT ![<<w.list, w.n>>] = answer] ELSE kept
  BY <1>1, <1>3 DEF Answer
<1>5. answer \in Answers /\ answer.rows = w.rows /\ answer.total = w.total
  BY <1>2, <1>3, <1>4 DEF Answers, Walks
<1>6. UNCHANGED <<row, rank, shelf, dirty, drift>>
  BY <1>4 DEF Receive, Step
<1>7. w.quiet \/ (w.fill /\ UpToDate) =>
        IsPage(answer.rows, w.list, w.facet, w.n) /\ IsTotal(answer.total, w.list, w.facet)
  BY <1>2, <1>4, <1>5 DEF WalkTells, LoadTells
<1>9. kept \in [CachedPages -> Answers \cup {None}] /\ CacheTyped /\ CacheTells
  BY DEF BrowseTells, BrowseTyped, CacheTyped
<1>10. CacheTyped'
  BY <1>4, <1>5, <1>9 DEF CacheTyped
<1>11. CacheTells'
  <2>1. (\A e : Proper(e)' <=> Proper(e)) /\ (UpToDate' <=> UpToDate)
    BY <1>6 DEF Proper, UpToDate
  <2>2. ASSUME UpToDate, NEW key \in CachedPages, NEW k, k = kept'[key], k # None
        PROVE  IsPage(k.rows, key[1], None, key[2]) /\ IsTotal(k.total, key[1], None)
    <3>1. CASE k = kept[key]
      BY <1>9, <2>2, <3>1 DEF CacheTells
    <3>2. CASE k # kept[key]
      <4>1. w.list.cached /\ w.fill /\ key = <<w.list, w.n>> /\ k = answer
        BY <1>4, <1>9, <2>2, <3>2
      <4>2. w.facet = None /\ key[1] = w.list /\ key[2] = w.n
        BY <1>2, <4>1 DEF WalkTells, FacetTells
      <4> QED BY <1>7, <2>2, <4>1, <4>2
    <3> QED BY <3>1, <3>2
  <2> QED BY <1>4, <1>6, <1>9, <2>1, <2>2, SameTold, SameAnswers DEF CacheTells
<1> QED BY <1>1, <1>2, <1>4, <1>5, <1>7, <1>10, <1>11, ReceiveTells

\* A reader who rests is told nothing of.
LEMMA RestTold == NotReading \in Readings /\ Told(NotReading)
  BY DEF NotReading, Readings, Told, FiltersTell, WalkTells, CursorTells, ChoiceTells

\* After a write nothing is quiet, and a partner's list has lost a row or what
\* stayed in it still exists.
LEMMA WritesTell ==
  ASSUME BrowseTells, RowWrites \/ SwitchShelf
  PROVE  BrowseTells'
<1>1. /\ BrowseTyped' /\ ~UpToDate' /\ UNCHANGED cache
      /\ \A v \in Readers : reading'[v] = Noticed(reading[v], row')
      /\ \A x \in Existing : row'[x] \in {"shown", "hidden", "gone"}
  BY WrittenRows DEF BrowseTells
<1>2. CacheTells'
  <2>1. advised' = advised /\ \A e : Proper(e)' <=> Proper(e)
    BY <1>1 DEF cache, Proper
  <2> QED BY <1>1, <2>1 DEF BrowseTells, CacheTells
<1>3. ASSUME NEW v \in Readers, NEW u \in Readings, u = reading'[v] PROVE Told(u)'
  <2>1. PICK w \in Readings : w = reading[v] /\ Told(w)
    BY DEF BrowseTells, BrowseTyped
  <2>2. PICK new : new = row'
    OBVIOUS
  <2>3. u = Noticed(w, new)
    BY <1>1, <1>3, <2>1, <2>2
  <2>4. CASE w = NotReading
    <3>1. u = NotReading
      BY <2>3, <2>4 DEF Noticed, NotReading
    <3> QED BY <3>1 DEF NotReading, Told, FiltersTell, WalkTells, CursorTells, ChoiceTells
  <2>5. CASE w \in Filterings
    <3>1. u = [w EXCEPT !.quiet = FALSE]
      BY <2>3, <2>5, NoticedFields
    <3>2. u.at = "filters" /\ u.quiet = FALSE
      BY <2>5, <3>1 DEF Filterings
    <3> QED BY <3>2 DEF Told, FiltersTell, WalkTells, CursorTells, ChoiceTells
  <2>6. CASE w \in Walks
    <3>1. u = [w EXCEPT !.quiet = FALSE]
      BY <2>3, <2>6, NoticedFields
    <3>2. /\ u.at = w.at /\ u.at \in {"ask", "load", "done"} /\ u.quiet = FALSE /\ u.rows = w.rows
          /\ u.total = w.total /\ u.list = w.list /\ u.facet = w.facet
      BY <2>6, <3>1 DEF Walks
    <3>3. LoadTells(w) /\ FacetTells(w)
      BY <2>1, <3>2 DEF Told, WalkTells
    <3>4. LoadTells(u)'
      BY <1>1, <3>2, <3>3 DEF LoadTells
    <3>5. GotTells(u)' /\ FacetTells(u)'
      BY <3>2, <3>3 DEF GotTells, FacetTells
    <3>6. WalkTells(u)'
      BY <3>2, <3>4, <3>5 DEF WalkTells
    <3> QED BY <3>2, <3>6 DEF Told, FiltersTell, CursorTells, ChoiceTells
  <2>7. CASE w \in Choosings
    <3>1. u = [w EXCEPT !.quiet = FALSE]
      BY <2>3, <2>7, NoticedFields
    <3>2. /\ u.at = w.at /\ u.at \in {"choose", "found", "chosen"} /\ u.quiet = FALSE
          /\ u.advice = w.advice /\ u.tiers = w.tiers /\ u.many = w.many /\ u.chosen = w.chosen
          /\ u.without = w.without /\ u.fresh = w.fresh
      BY <2>7, <3>1 DEF Choosings
    <3>3. ChoiceTells(w)
      BY <2>1 DEF Told
    <3>4. Proper(u)' /\ u.many = Cardinality(u.chosen) /\ (u.at # "chosen" => u.fresh)
      BY <3>2, <3>3 DEF ChoiceTells, Proper
    <3>6. (u.at = "choose" => ChoosingTells(u))'
      BY <3>2, <3>3 DEF ChoiceTells, ChoosingTells, TiersAsked
    <3>5. ChoiceTells(u)'
      BY <1>1, <3>2, <3>4, <3>6 DEF ChoiceTells
    <3> QED BY <3>2, <3>5 DEF Told, FiltersTell, WalkTells, CursorTells
  <2>8. CASE w \in Cursors
    <3> DEFINE loses == \E x \in Rows : new[x] = "gone" /\ row[x] # "gone"
    <3>1. u = [w EXCEPT !.stay = @ \cap Stock(w.list, new), !.lost = @ \/ loses]
      BY <2>3, <2>8, NoticedFields
    <3> HIDE DEF loses
    <3>2. /\ u.at = w.at /\ u.at \in {"cursor", "end"} /\ u.list = w.list /\ u.got = w.got
          /\ u.cursor = w.cursor /\ u.stay = w.stay \cap Stock(w.list, new)
          /\ (u.lost <=> w.lost \/ loses)
      BY <2>8, <3>1 DEF Cursors
    <3>3. CursorTells(w)
      BY <2>1 DEF Told
    <3>4. ASSUME w.list.all PROVE Stock(w.list, new) \subseteq Existing'
      BY <2>2 DEF Stock, Existing
    <3>5. ASSUME ~loses, NEW x \in Existing PROVE x \in Existing'
      BY <1>1, <2>2, <3>5 DEF Existing, loses
    <3>6. CursorTells(u)'
      <4>1. /\ Ascends(u.got)
            /\ u.at = "cursor" => IF u.cursor = None THEN u.got = <<>>
                 ELSE u.cursor \in ToSet(u.got) /\ \A x \in ToSet(u.got) : x <= u.cursor
        BY <3>2, <3>3 DEF CursorTells
      <4>2. ASSUME u.list.all, ~u.lost
            PROVE  /\ u.stay \subseteq Existing'
                   /\ u.at = "cursor" /\ u.cursor # None =>
                        u.cursor \in Existing' /\ \A x \in u.stay : x <= u.cursor => x \in ToSet(u.got)
                   /\ u.at = "end" => u.stay \subseteq ToSet(u.got)
        <5>1. ~w.lost /\ ~loses /\ u.stay \subseteq w.stay /\ u.stay \subseteq Existing'
          BY <3>2, <3>4, <4>2
        <5>2. /\ w.at = "cursor" /\ w.cursor # None =>
                   w.cursor \in Existing /\ \A x \in w.stay : x <= w.cursor => x \in ToSet(w.got)
              /\ w.at = "end" => w.stay \subseteq ToSet(w.got)
          BY <3>2, <3>3, <4>2, <5>1 DEF CursorTells
        <5> QED BY <3>2, <3>5, <5>1, <5>2
      <4> QED BY <3>2, <4>1, <4>2 DEF CursorTells
    <3> QED BY <3>2, <3>6 DEF Told, FiltersTell, WalkTells, ChoiceTells
  <2> QED BY <2>4, <2>5, <2>6, <2>7, <2>8 DEF Readings
<1> QED BY <1>1, <1>2, <1>3 DEF BrowseTells

\* After a clear there is nothing in the cache, and nothing is loaded for it.
LEMMA ClearTells ==
  ASSUME BrowseTells, Clear
  PROVE  BrowseTells'
<1>1. /\ BrowseTyped' /\ UNCHANGED <<row, rank, shelf>>
      /\ advised' = {} /\ \A key \in CachedPages : kept'[key] = None
      /\ \A v \in Readers : reading'[v] = IF Filling(reading[v])
                                          THEN [reading[v] EXCEPT !.fill = FALSE] ELSE reading[v]
  BY ClearTyped DEF BrowseTells
<1>2. CacheTells'
  BY <1>1 DEF CacheTells
<1>3. \A w, k : Reach(w, k)' = Reach(w, k)
  BY <1>1, SameAnswers DEF Reach, Found
<1>4. \A w : Settled(w)' <=> Settled(w)
  BY <1>3, Zenon DEF Settled
<1>5. \A w : (GotTells(w)' <=> GotTells(w)) /\ (FacetTells(w)' <=> FacetTells(w))
  BY <1>1, SameWalks
<1>6. ASSUME NEW v \in Readers, NEW u \in Readings, u = reading'[v] PROVE Told(u)'
  <2>1. PICK w \in Readings : w = reading[v] /\ Told(w)
    BY DEF BrowseTells, BrowseTyped
  <2>2. u = IF Filling(w) THEN [w EXCEPT !.fill = FALSE] ELSE w
    BY <1>1, <1>6, <2>1
  <2>3. CASE w \in Walks
    <3>1. /\ u \in Walks /\ u.at = w.at /\ u.quiet = w.quiet /\ u.fresh = w.fresh /\ u.list = w.list
          /\ u.facet = w.facet /\ u.n = w.n /\ u.got = w.got /\ u.rows = w.rows /\ u.total = w.total
          /\ u.at = "load" => ~u.fill
      BY <2>2, <2>3 DEF Filling, Walks
    <3>2. LoadTells(w) /\ GotTells(w) /\ FacetTells(w)
      BY <2>1, <2>3 DEF Told, WalkTells, Walks
    <3>3. LoadTells(u)'
      BY <1>1, <3>1, <3>2, SameAnswers DEF LoadTells
    <3>4. GotTells(u) /\ FacetTells(u)
      BY <3>1, <3>2 DEF GotTells, FacetTells
    <3>5. WalkTells(u)'
      BY <1>5, <3>3, <3>4 DEF WalkTells
    <3> QED BY <3>1, <3>5 DEF Walks, Told, FiltersTell, CursorTells, ChoiceTells
  <2>4. CASE w \in Choosings
    <3>1. /\ u \in Choosings /\ u.at = w.at /\ u.quiet = w.quiet /\ u.fresh = w.fresh /\ u.many = w.many
          /\ u.advice = w.advice /\ u.without = w.without /\ u.tiers = w.tiers /\ u.chosen = w.chosen
          /\ u.fill => w.at = "chosen"
      BY <2>2, <2>4 DEF Filling, Choosings
    <3>2. ChoiceTells(w) /\ w.at \in {"choose", "found", "chosen"}
      BY <2>1, <2>4 DEF Told, Choosings
    <3>3. \A k : Reach(u, k) = Reach(w, k)
      BY <3>1, ReachSame
    <3>4. Proper(u)' /\ u.many = Cardinality(u.chosen) /\ (u.at # "chosen" => u.fresh /\ ~u.fill)
      BY <3>1, <3>2 DEF ChoiceTells, Proper
    <3>5. TiersAsked(u) = TiersAsked(w)
      BY <3>1 DEF TiersAsked
    <3>6. (u.at = "choose" => ChoosingTells(u))'
      BY <1>3, <3>1, <3>2, <3>3, <3>5 DEF ChoiceTells, ChoosingTells, TiersAsked
    <3>7. u.at # "choose" /\ u.quiet /\ u.fresh => Settled(u)
      <4>1. Settled(w) => Settled(u)
        BY <3>1, ReachSame, Zenon
      <4> QED BY <3>1, <3>2, <4>1 DEF ChoiceTells
    <3>8. ChoiceTells(u)'
      BY <1>4, <3>4, <3>6, <3>7 DEF ChoiceTells
    <3> QED BY <3>1, <3>8 DEF Choosings, Told, FiltersTell, WalkTells, CursorTells
  <2>5. CASE w \notin Walks \cup Choosings
    <3>1. u = w
      BY <2>2, <2>5, FillingKinds
    <3>2. FiltersTell(w)' /\ CursorTells(w)'
      BY <1>1, <2>1, SameAnswers DEF Told, FiltersTell, CursorTells
    <3>3. WalkTells(w)' /\ ChoiceTells(w)'
      BY <2>5, ReadingKinds DEF WalkTells, ChoiceTells
    <3> QED BY <3>1, <3>2, <3>3 DEF Told
  <2> QED BY <2>3, <2>4, <2>5
<1> QED BY <1>1, <1>2, <1>6 DEF BrowseTells

\* What is older than a change is forgotten when nothing else is left that may
\* be; then nothing is kept, and nothing loaded that will be.
LEMMA ExpireTells ==
  ASSUME BrowseTells, Expire
  PROVE  BrowseTells'
<1>1. /\ UNCHANGED <<row, rank, shelf, dirty, reading>>
      /\ advised' \in SUBSET advised /\ drift' \in BOOLEAN
      /\ kept' \in [CachedPages -> Answers \cup {None}]
      /\ \A key \in CachedPages : kept'[key] # None => kept'[key] = kept[key]
  <2>1. kept \in [CachedPages -> Answers \cup {None}]
    BY DEF BrowseTells, BrowseTyped, CacheTyped
  <2>2. CASE UNCHANGED kept /\ \E e \in advised : advised' = advised \ {e}
    BY <2>1, <2>2 DEF Expire, BrowseTells, BrowseTyped
  <2>3. CASE UNCHANGED advised /\ \E key \in DOMAIN kept : kept' = [kept EXCEPT ![key] = None]
    BY <2>1, <2>3 DEF Expire, BrowseTells, BrowseTyped
  <2> QED BY <2>2, <2>3 DEF Expire
<1>2. BrowseTyped'
  BY <1>1 DEF BrowseTells, BrowseTyped, CacheTyped
<1>3. ASSUME UpToDate', ~UpToDate
      PROVE  /\ advised' = {} /\ \A key \in CachedPages : kept'[key] = None
             /\ \A v \in Readers : ~Filling(reading[v])
  <2>1. drift /\ ~drift'
    BY <1>1, <1>3 DEF UpToDate, BrowseTells, BrowseTyped
  <2>2. DOMAIN kept = CachedPages
    BY DEF BrowseTells, BrowseTyped, CacheTyped
  <2> QED BY <2>1, <2>2, Zenon DEF Expire
<1>4. \A w, k : Reach(w, k)' = Reach(w, k)
  BY <1>1, SameAnswers DEF Reach, Found
<1>5. \A w : (Settled(w)' <=> Settled(w)) /\ (Proper(w)' <=> Proper(w))
  BY <1>4, Zenon DEF Settled, Proper
<1>6. CacheTells'
  <2>1. \A e \in advised' : Proper(e)
    BY <1>1 DEF BrowseTells, CacheTells
  <2>2. ASSUME UpToDate', NEW key \in CachedPages, kept'[key] # None
        PROVE  /\ IsPage(kept'[key].rows, key[1], None, key[2])
               /\ IsTotal(kept'[key].total, key[1], None)
    BY <1>1, <1>3, <2>2 DEF BrowseTells, CacheTells
  <2>3. ASSUME UpToDate', NEW e \in advised' PROVE Settled(e)
    BY <1>1, <1>3, <2>3 DEF BrowseTells, CacheTells
  <2> QED BY <1>1, <1>5, <2>1, <2>2, <2>3, SameAnswers DEF CacheTells
<1>7. ASSUME NEW w \in Readings, Told(w), UpToDate' => UpToDate \/ ~Filling(w) PROVE Told(w)'
  <2>1. FiltersTell(w)' /\ CursorTells(w)'
    BY <1>1, <1>7, SameAnswers DEF Told, FiltersTell, CursorTells
  <2>2. WalkTells(w)'
    <3> SUFFICES ASSUME w.at \in {"ask", "load", "done"} PROVE (LoadTells(w) /\ GotTells(w) /\ FacetTells(w))'
      BY DEF WalkTells
    <3>1. LoadTells(w) /\ GotTells(w) /\ FacetTells(w)
      BY <1>7 DEF Told, WalkTells
    <3>2. LoadTells(w)'
      BY <1>1, <1>7, <3>1, SameAnswers DEF LoadTells, Filling
    <3>3. GotTells(w)' /\ FacetTells(w)'
      BY <1>1, <3>1, SameWalks, Zenon
    <3> QED BY <3>2, <3>3
  <2>3. ChoiceTells(w)'
    <3> SUFFICES ASSUME w.at \in {"choose", "found", "chosen"} PROVE ChoiceTells(w)'
      BY DEF ChoiceTells
    <3>1. ChoiceTells(w)
      BY <1>7 DEF Told
    <3>2. ChoosingTells(w)' <=> ChoosingTells(w)
      BY <1>4 DEF ChoosingTells
    <3>3. w.at # "chosen" => w.fresh /\ (w.fill /\ UpToDate' => w.quiet)
      BY <1>7, <3>1 DEF ChoiceTells, Filling
    <3> QED BY <1>5, <3>1, <3>2, <3>3 DEF ChoiceTells
  <2> QED BY <2>1, <2>2, <2>3 DEF Told
<1>8. ASSUME NEW v \in Readers, NEW u \in Readings, u = reading'[v] PROVE Told(u)'
  <2>1. u = reading[v] /\ Told(u)
    BY <1>1, <1>8 DEF BrowseTells
  <2> QED BY <1>3, <1>7, <2>1
<1> QED BY <1>2, <1>6, <1>8 DEF BrowseTells

LEMMA BrowseStep ==
  ASSUME BrowseTells, BrowseNext
  PROVE  BrowseTells'
<1>1. CASE RowWrites \/ SwitchShelf
  BY <1>1, WritesTell
<1>2. CASE Clear
  BY <1>2, ClearTells
<1>6. CASE Expire
  BY <1>6, ExpireTells
<1>3. ASSUME NEW r \in Readers,
             \/ OpenFilters(r) \/ \E list \in Listings : OpenListing(r, list)
             \/ \E list \in {PartnerList, PartnerLowStock} : OpenStock(r, list)
             \/ \E advice \in Advices, without \in SUBSET Existing :
                  TakeAdvice(r, advice, without) \/ OpenAdvice(r, advice, without)
      PROVE  BrowseTells'
  BY <1>3, OpenFiltersTells, OpenListingTells, OpenStockTells, TakeAdviceTells, OpenAdviceTells
<1>4. ASSUME NEW r \in Readers,
             \/ \E facet \in Facets : PickFacet(r, facet)
             \/ AskKept(r) \/ AskLoad(r) \/ ReadRows(r) \/ ReadCount(r) \/ Answer(r)
             \/ ReadStock(r) \/ AskTier(r) \/ Advise(r)
      PROVE  BrowseTells'
  BY <1>4, PickFacetTells, AskKeptTells, AskLoadTells, ReadRowsTells, ReadCountTells, AnswerTells,
     ReadStockTells, AskTierTells, AdviseTells
<1>5. ASSUME NEW r \in Readers, Leave(r) PROVE BrowseTells'
  BY <1>5, RestTold, OnlyTells DEF Leave
<1> QED BY <1>1, <1>2, <1>3, <1>4, <1>5, <1>6, Zenon DEF BrowseNext, RowWrites, Facets

LEMMA BrowseBegins == BrowseInit => BrowseTells
<1> SUFFICES ASSUME BrowseInit PROVE BrowseTells
  OBVIOUS
<1>1. /\ row \in [Rows -> States] /\ rank \in [Rows -> Ranks] /\ shelf \in BOOLEAN
      /\ dirty = 0 /\ drift = FALSE
      /\ kept = [key \in CachedPages |-> None] /\ advised = {} /\ reading = [r \in Readers |-> NotReading]
  BY DEF BrowseInit, States, CachedPages
<1>2. BrowseTyped
  BY <1>1, RestTold DEF BrowseTyped, CacheTyped
<1>3. CacheTells
  BY <1>1 DEF CacheTells
<1>4. \A v \in Readers, w \in Readings : w = reading[v] => Told(w)
  BY <1>1, RestTold
<1> QED BY <1>2, <1>3, <1>4 DEF BrowseTells

\* What is told of a walk says that it is exact.
LEMMA WalksEnd == BrowseTells => QuietWalkIsExact
<1> SUFFICES ASSUME BrowseTells PROVE QuietWalkIsExact
  OBVIOUS
<1> SUFFICES ASSUME NEW r \in Readers, NEW w \in Readings, w = reading[r], w.at = "done"
    PROVE  /\ w.list \in Sorted => WalkIsExact(w)
           /\ w.facet # None /\ w.quiet => w.got # <<>>
  <2>1. \A r \in Readers : reading[r] \in Readings
    BY DEF BrowseTells, BrowseTyped
  <2> QED BY <2>1, Zenon DEF QuietWalkIsExact
<1>1. WalkTells(w)
  BY DEF BrowseTells, Told
<1>2. ASSUME w.list \in Sorted, w.quiet, w.fresh PROVE Exactly(w.got, Matching(w.list, w.facet))
  <2>1. PICK s \in AllOrders(Matching(w.list, w.facet), FALSE) : w.got = s
    BY <1>1, <1>2 DEF WalkTells, GotTells
  <2> QED BY <2>1, OrderOfRows DEF Exactly
<1>3. w.facet # None /\ w.quiet => w.got # <<>>
  BY <1>1 DEF WalkTells, FacetTells
<1> QED BY <1>2, <1>3 DEF WalkIsExact

LEMMA BrowseGoesOn == BrowseTells /\ [BrowseNext]_browseVars => BrowseTells'
<1>1. ASSUME BrowseTells, UNCHANGED browseVars PROVE BrowseTells'
  <2>1. UNCHANGED <<row, rank, shelf, dirty, drift>> /\ UNCHANGED cache /\ reading' = reading
    BY <1>1 DEF browseVars, cache
  <2>2. CacheTyped' /\ CacheTells'
    BY <1>1, <2>1, SameCache DEF BrowseTells, BrowseTyped
  <2>3. BrowseTyped'
    BY <1>1, <2>1, <2>2 DEF BrowseTells, BrowseTyped
  <2> QED BY <1>1, <2>1, <2>2, <2>3, SameTold DEF BrowseTells
<1> QED BY <1>1, BrowseStep

LEMMA BrowseMovesOn == [MCNext]_<<browseVars, signInVars, visitorsVars, ticketsVars, contentVars, setting>>
                         => [BrowseNext]_browseVars
  BY Zenon DEF MCNext, BrowseMoves

\* Reading a listing that is sorted for it page by page gives every row once
\* while nothing changes, pages from the cache included unless they were taken
\* while the cache was behind: between a write and its clear, or since a change
\* that is not announced until what was read before it has gone.  And reading the
\* stock by cursor gives no row twice and leaves out none that stayed
\* (product-sort.ts, stock-events.gateway.ts, list-partner-inventory-query.dto.ts).
THEOREM QuietWalksAreExact == BrowseSpec => [](QuietWalkIsExact /\ CursorMissesNothing)
  BY BrowseBegins, BrowseGoesOn, WalksEnd, CursorsEnd, PTL DEF BrowseSpec

\* So it is in the run, in which every reader reads one listing.
THEOREM WalksExact == MCSpec => []WalksAreExact
<1>1. MCInit => BrowseTells
  BY BrowseBegins DEF MCInit
<1>2. BrowseTells => WalksAreExact
  BY WalksEnd, CursorsEnd DEF WalksAreExact
<1> QED BY <1>1, <1>2, BrowseMovesOn, BrowseGoesOn, PTL DEF MCSpec

\* What is chosen for a visitor fits, is new and can be bought, is enough or
\* all there is, and nothing farther is in it while something nearer is not, if
\* nothing changes meanwhile; so it is when it comes from a cache that is not
\* behind (youMayAlsoLike, recommendedProducts, subCategoryBasedProducts).
THEOREM ChoicesAreSound == BrowseSpec => []ChosenAreSound
  BY BrowseBegins, BrowseGoesOn, ChoicesEnd, PTL DEF BrowseSpec

\* So it is in the run.
THEOREM ChosenSound == MCSpec => []ChosenAreSound
<1>1. MCInit => BrowseTells
  BY BrowseBegins DEF MCInit
<1> QED BY <1>1, BrowseMovesOn, BrowseGoesOn, ChoicesEnd, PTL DEF MCSpec
=============================================================================
