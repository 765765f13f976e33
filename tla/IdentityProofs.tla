--------------------------- MODULE IdentityProofs ---------------------------
(***************************************************************************)
(* Proofs about Identity, for any number of people, links, sessions and    *)
(* calls, with and without failing mail: a link opens one session, an      *)
(* address is verified by its own link only, a disabled account has no     *)
(* session, and only updates that overlap can lose the last owner.         *)
(***************************************************************************)
EXTENDS Identity, FiniteSetTheorems, TLAPS

(***************************************************************************)
(* The requests in flight                                                  *)
(***************************************************************************)

\* A call knows the account it is about; one that read an account, or is
\* about to write it, holds a status; one that sends a link holds the link.
GoodCall ==
    {x \in Call :
        /\ x.pc # "idle" => x.user \in People
        /\ x.pc = "roles" => x.was \in {"active", "disabled"}
        /\ x.pc \in {"count", "write"} => x.status \in {"active", "disabled"}
        /\ x.pc \in {"send", "withdraw"} => x.token \in Tokens}

CallInv ==
    /\ status \in [People -> {"none", "active", "disabled"}]
    /\ roles \in [People -> SUBSET InternalRole]
    /\ session \in [SessionIds -> Session]
    /\ call \in [Calls -> GoodCall]

LEMMA IdleIsGood == Idle \in GoodCall /\ Idle.pc = "idle"
  BY DEF Idle, About, GoodCall, Call

LEMMA CallsStart == Init => CallInv
<1> SUFFICES ASSUME Init PROVE CallInv
  OBVIOUS
<1>1. status \in [People -> {"none", "active", "disabled"}]
  BY DEF Init
<1>2. roles \in [People -> SUBSET InternalRole]
  <2>1. \A u \in People :
           (IF u \in Established THEN {"owner"} ELSE {}) \subseteq InternalRole
    BY DEF InternalRole
  <2> QED
    BY <2>1 DEF Init
<1>3. session \in [SessionIds -> Session]
  BY IdentityAssumption DEF Init, Session, SessionIds
<1>4. call \in [Calls -> GoodCall]
  BY IdleIsGood DEF Init
<1> QED
  BY <1>1, <1>2, <1>3, <1>4 DEF CallInv

\* Steps of a call that leave accounts and sessions alone.
LEMMA CallMoves ==
    ASSUME CallInv, UNCHANGED <<status, roles, session>>,
           NEW c \in Calls, NEW x \in GoodCall, call' = [call EXCEPT ![c] = x]
    PROVE  CallInv'
  BY DEF CallInv

LEMMA ReturnMoves ==
    ASSUME CallInv, UNCHANGED <<status, roles, session>>, NEW c \in Calls, Return(c)
    PROVE  CallInv'
  BY IdleIsGood, CallMoves DEF Return

\* A call that goes on keeps what it holds.
LEMMA GotoMoves ==
    ASSUME CallInv, UNCHANGED <<status, roles, session>>, NEW c \in Calls,
           NEW pc \in {"insert", "challenge", "withdraw", "write"}, Goto(c, pc),
           call[c].pc # "idle",
           pc = "withdraw" => call[c].pc = "send",
           pc = "write" => call[c].pc = "count"
    PROVE  CallInv'
<1> DEFINE x == [call[c] EXCEPT !.pc = pc]
<1>1. x \in GoodCall
  <2>1. call[c] \in GoodCall
    BY DEF CallInv
  <2>2. x \in Call /\ x.pc = pc /\ x.user = call[c].user
        /\ x.status = call[c].status /\ x.token = call[c].token
    BY <2>1 DEF GoodCall, Call
  <2> QED
    BY <2>1, <2>2 DEF GoodCall
<1>2. call' = [call EXCEPT ![c] = x]
  BY DEF Goto
<1> HIDE DEF x
<1> QED
  BY <1>1, <1>2, CallMoves

LEMMA LinkingKeepsCalls ==
    ASSUME CallInv, NEW c \in Calls, Linking(c)
    PROVE  CallInv'
<1>1. ASSUME NEW t \in Tokens, CreateChallenge(c, t) PROVE CallInv'
  <2> DEFINE x == [call[c] EXCEPT !.pc = "send", !.token = t]
  <2>1. call[c] \in GoodCall /\ call[c].pc = "challenge"
    BY <1>1 DEF CallInv, CreateChallenge, At
  <2>2. x \in Call /\ x.pc = "send" /\ x.user = call[c].user /\ x.token = t
    BY <2>1 DEF GoodCall, Call
  <2>3. x \in GoodCall
    BY <2>1, <2>2 DEF GoodCall
  <2>4. /\ call' = [call EXCEPT ![c] = x]
        /\ UNCHANGED <<status, roles, session>>
    BY <1>1 DEF CreateChallenge, accounts
  <2> HIDE DEF x
  <2> QED
    BY <2>3, <2>4, CallMoves
<1>2. CASE SendLink(c)
  <2>1. UNCHANGED <<status, roles, session>> /\ call[c].pc = "send"
    BY <1>2 DEF SendLink, accounts, At
  <2>2. Return(c) \/ Goto(c, "withdraw")
    BY <1>2 DEF SendLink
  <2> QED
    BY <2>1, <2>2, ReturnMoves, GotoMoves
<1>3. CASE Withdraw(c)
  <2>1. UNCHANGED <<status, roles, session>> /\ Return(c)
    BY <1>3 DEF Withdraw, accounts
  <2> QED
    BY <2>1, ReturnMoves
<1> QED
  BY <1>1, <1>2, <1>3 DEF Linking

LEMMA FreshCall ==
    ASSUME NEW u \in People, NEW rs \in SUBSET InternalRole,
           NEW pc \in {"exists", "challenge", "invitee", "recent"},
           NEW purpose \in {"verify_email", "sign_in"}
    PROVE  About(u, pc, rs, purpose) \in GoodCall
  BY DEF About, GoodCall, Call

LEMMA JoiningKeepsCalls ==
    ASSUME CallInv, NEW c \in Calls, Joining(c)
    PROVE  CallInv'
<1>1. ASSUME NEW u \in People, Bootstrap(c, u) PROVE CallInv'
  <2>1. UNCHANGED <<status, roles, session>>
    BY <1>1 DEF Bootstrap, accounts
  <2>2. {"owner"} \in SUBSET InternalRole
    BY DEF InternalRole
  <2>3. \E x \in GoodCall : call' = [call EXCEPT ![c] = x]
    BY <1>1, <2>2, FreshCall DEF Bootstrap
  <2> QED
    BY <2>1, <2>3, CallMoves
<1>2. ASSUME NEW u \in People, NEW rs \in RoleSets, CreateUser(c, u, rs)
      PROVE  CallInv'
  <2>1. UNCHANGED <<status, roles, session>>
    BY <1>2 DEF CreateUser, accounts
  <2>2. rs \in SUBSET InternalRole
    BY IdentityAssumption
  <2>3. \E x \in GoodCall : call' = [call EXCEPT ![c] = x]
    BY <1>2, <2>2, FreshCall DEF CreateUser
  <2> QED
    BY <2>1, <2>3, CallMoves
<1>3. CASE CheckEmail(c)
  <2>1. UNCHANGED <<status, roles, session>> /\ call[c].pc # "idle"
    BY <1>3 DEF CheckEmail, accounts, At
  <2>2. Return(c) \/ Goto(c, "insert")
    BY <1>3 DEF CheckEmail
  <2> QED
    BY <2>1, <2>2, ReturnMoves, GotoMoves
<1>4. CASE InsertUser(c)
  <2> DEFINE u == call[c].user
  <2>1. call[c] \in GoodCall /\ u \in People /\ call[c].roles \in SUBSET InternalRole
    BY <1>4 DEF InsertUser, At, CallInv, GoodCall, Call
  <2>2. CASE status[u] = "none"
    <3>1. /\ status' = [status EXCEPT ![u] = "active"]
          /\ roles' = [roles EXCEPT ![u] = call[c].roles]
          /\ call' = [call EXCEPT ![c] = About(u, "challenge", {}, "verify_email")]
          /\ session' = session
      BY <1>4, <2>2 DEF InsertUser
    <3>2. About(u, "challenge", {}, "verify_email") \in GoodCall
      BY <2>1, FreshCall
    <3> HIDE DEF u
    <3> QED
      BY <2>1, <3>1, <3>2 DEF CallInv
  <2>3. CASE status[u] # "none"
    <3>1. UNCHANGED <<status, roles, session>> /\ Return(c)
      BY <1>4, <2>3 DEF InsertUser
    <3> QED
      BY <3>1, ReturnMoves
  <2> QED
    BY <2>2, <2>3
<1> QED
  BY <1>1, <1>2, <1>3, <1>4 DEF Joining

LEMMA InvitingKeepsCalls ==
    ASSUME CallInv, NEW c \in Calls, Inviting(c)
    PROVE  CallInv'
<1>1. ASSUME NEW u \in People, ResendInvitation(c, u) \/ RequestSignIn(c, u)
      PROVE  CallInv'
  <2>1. UNCHANGED <<status, roles, session>>
    BY <1>1 DEF ResendInvitation, RequestSignIn, accounts
  <2>2. {} \in SUBSET InternalRole
    OBVIOUS
  <2>3. \E x \in GoodCall : call' = [call EXCEPT ![c] = x]
    BY <1>1, <2>2, FreshCall DEF ResendInvitation, RequestSignIn
  <2> QED
    BY <2>1, <2>3, CallMoves
<1>2. CASE FindInvitee(c)
  <2>1. UNCHANGED <<status, roles, session>> /\ call[c].pc # "idle"
    BY <1>2 DEF FindInvitee, accounts, At
  <2>2. Return(c) \/ Goto(c, "challenge")
    BY <1>2 DEF FindInvitee
  <2> QED
    BY <2>1, <2>2, ReturnMoves, GotoMoves
<1>3. CASE FindRecent(c)
  <2>1. UNCHANGED <<status, roles, session>> /\ call[c].pc # "idle"
    BY <1>3 DEF FindRecent, accounts, At
  <2>2. Return(c) \/ Goto(c, "challenge")
    BY <1>3 DEF FindRecent
  <2> QED
    BY <2>1, <2>2, ReturnMoves, GotoMoves
<1> QED
  BY <1>1, <1>2, <1>3 DEF Inviting

\* A write of an account only ever revokes sessions.
LEMMA SessionsStay ==
    ASSUME session \in [SessionIds -> Session], NEW c,
           session' = [s \in SessionIds |->
              [session[s] EXCEPT !.revoked = @ \/ Revokes(s, c)]]
    PROVE  /\ session' \in [SessionIds -> Session]
           /\ \A s \in SessionIds :
                 /\ session'[s].user = session[s].user
                 /\ session'[s].link = session[s].link
                 /\ ~session'[s].revoked => ~session[s].revoked /\ ~Revokes(s, c)
<1>1. ASSUME NEW s \in SessionIds
      PROVE  /\ session'[s] \in Session
             /\ session'[s].user = session[s].user
             /\ session'[s].link = session[s].link
             /\ ~session'[s].revoked => ~session[s].revoked /\ ~Revokes(s, c)
  <2> DEFINE b == session[s].revoked \/ Revokes(s, c)
             x == [session[s] EXCEPT !.revoked = b]
  <2>1. b \in BOOLEAN
    OBVIOUS
  <2>2. session'[s] = x
    OBVIOUS
  <2>3. b = FALSE => ~session[s].revoked /\ ~Revokes(s, c)
    OBVIOUS
  <2> HIDE DEF b
  <2>4. /\ x \in Session /\ x.user = session[s].user
        /\ x.link = session[s].link /\ x.revoked = b
    BY <2>1 DEF Session
  <2> HIDE DEF x
  <2> QED
    BY <2>1, <2>2, <2>3, <2>4
<1> QED
  BY <1>1

\* A write ends its call and overtakes the updates that have read already.
LEMMA WriteOvertakes ==
    ASSUME CallInv, NEW c \in Calls, WriteUser(c)
    PROVE  /\ call' \in [Calls -> GoodCall] /\ call'[c].pc = "idle"
           /\ \A d \in Calls \ {c} :
                 /\ call'[d].pc = call[d].pc /\ call'[d].token = call[d].token
                 /\ call'[d].pc \in {"roles", "count", "write"} => call'[d].overtaken
<1>1. /\ call'[c] = Idle
      /\ DOMAIN call' = Calls /\ call' = [d \in Calls |-> call'[d]]
  BY DEF WriteUser
<1>2. ASSUME NEW d \in Calls \ {c}
      PROVE  /\ call'[d] \in GoodCall
             /\ call'[d].pc = call[d].pc /\ call'[d].token = call[d].token
             /\ call'[d].pc \in {"roles", "count", "write"} => call'[d].overtaken
  <2> DEFINE b == call[d].overtaken \/ call[d].pc \in {"roles", "count", "write"}
             x == [call[d] EXCEPT !.overtaken = b]
  <2>1. call[d] \in GoodCall /\ b \in BOOLEAN
    BY DEF CallInv
  <2>2. call'[d] = x
    BY <1>2 DEF WriteUser
  <2>3. call[d].pc \in {"roles", "count", "write"} => b
    OBVIOUS
  <2> HIDE DEF b
  <2>4. /\ x \in GoodCall /\ x.pc = call[d].pc /\ x.token = call[d].token
        /\ x.overtaken = b
    BY <2>1 DEF GoodCall, Call
  <2> HIDE DEF x
  <2> QED
    BY <2>2, <2>3, <2>4
<1> QED
  BY <1>1, <1>2, IdleIsGood

LEMMA UpdatingKeepsCalls ==
    ASSUME CallInv, NEW c \in Calls, Updating(c)
    PROVE  CallInv'
<1>1. ASSUME NEW a \in OwnerActors, NEW u \in People, NEW rs \in RoleSets \cup {{}},
             NEW st \in {"active", "disabled", None}, UpdateUser(c, a, u, rs, st)
      PROVE  CallInv'
  <2> DEFINE x == [About(u, "target", rs, "verify_email")
                      EXCEPT !.self = (a = u), !.status = st]
  <2>1. a \in People \cup {Admin}
    BY DEF OwnerActors, Actors, Resolves, CallInv, Session
  <2>2. rs \in SUBSET InternalRole
    BY IdentityAssumption
  <2>3. x \in GoodCall
    BY <2>1, <2>2 DEF About, GoodCall, Call
  <2>4. call' = [call EXCEPT ![c] = x] /\ UNCHANGED <<status, roles, session>>
    BY <1>1 DEF UpdateUser, accounts
  <2> HIDE DEF x
  <2> QED
    BY <2>3, <2>4, CallMoves
<1>2. CASE ReadTarget(c)
  <2> DEFINE u == call[c].user
             x == [call[c] EXCEPT !.pc = "roles", !.was = status[u]]
  <2>1. call[c] \in GoodCall /\ u \in People
    BY <1>2 DEF CallInv, ReadTarget, At, GoodCall
  <2>2. UNCHANGED <<status, roles, session>>
    BY <1>2 DEF ReadTarget, accounts
  <2>3. CASE status[u] = "none"
    BY <1>2, <2>2, <2>3, ReturnMoves DEF ReadTarget
  <2>4. CASE status[u] # "none"
    <3>1. status[u] \in {"active", "disabled"}
      BY <2>1, <2>4 DEF CallInv
    <3>2. x \in Call /\ x.pc = "roles" /\ x.user = u /\ x.was = status[u]
      BY <2>1, <3>1 DEF GoodCall, Call
    <3>3. x \in GoodCall
      BY <2>1, <3>1, <3>2 DEF GoodCall
    <3>4. call' = [call EXCEPT ![c] = x]
      BY <1>2, <2>4 DEF ReadTarget
    <3> HIDE DEF x
    <3> QED
      BY <2>2, <3>3, <3>4, CallMoves
  <2> QED
    BY <2>3, <2>4
<1>3. CASE ReadRoles(c)
  <2> DEFINE u == call[c].user
             x == [pc |-> IF call[c].was = "active" /\ Owner(u) /\ Unseats(c)
                          THEN "count" ELSE "write",
                   user |-> u, self |-> FALSE, status |-> NextStatus(c),
                   roles |-> NextRoles(c), was |-> None,
                   purpose |-> "verify_email", token |-> None,
                   overtaken |-> call[c].overtaken]
  <2>1. /\ call[c] \in GoodCall /\ u \in People
        /\ call[c].was \in {"active", "disabled"}
        /\ call[c].status \in {"active", "disabled", None}
        /\ call[c].roles \in SUBSET InternalRole
        /\ call[c].overtaken \in BOOLEAN
    BY <1>3 DEF CallInv, ReadRoles, At, GoodCall, Call
  <2>2. UNCHANGED <<status, roles, session>>
    BY <1>3 DEF ReadRoles, accounts
  <2>3. NextStatus(c) \in {"active", "disabled"}
    BY <2>1 DEF NextStatus
  <2>4. NextRoles(c) \in SUBSET InternalRole
    BY <2>1 DEF NextRoles, CallInv
  <2>5. x \in GoodCall
    BY <2>1, <2>3, <2>4 DEF GoodCall, Call
  <2>6. Return(c) \/ call' = [call EXCEPT ![c] = x]
    BY <1>3 DEF ReadRoles
  <2> HIDE DEF x
  <2> QED
    BY <2>2, <2>5, <2>6, CallMoves, ReturnMoves
<1>4. CASE CountOwners(c)
  <2>1. UNCHANGED <<status, roles, session>> /\ call[c].pc = "count"
    BY <1>4 DEF CountOwners, accounts, At
  <2>2. Return(c) \/ Goto(c, "write")
    BY <1>4 DEF CountOwners
  <2> QED
    BY <2>1, <2>2, ReturnMoves, GotoMoves
<1>5. CASE WriteUser(c)
  <2> DEFINE u == call[c].user
  <2>1. /\ u \in People /\ call[c].status \in {"active", "disabled"}
        /\ call[c].roles \in SUBSET InternalRole
    BY <1>5 DEF CallInv, WriteUser, At, GoodCall, Call
  <2>2. /\ status' = [status EXCEPT ![u] = call[c].status]
        /\ roles' = [roles EXCEPT ![u] = call[c].roles]
        /\ call' \in [Calls -> GoodCall]
    BY <1>5, WriteOvertakes DEF WriteUser
  <2>3. session' \in [SessionIds -> Session]
    BY <1>5, SessionsStay DEF WriteUser, CallInv
  <2> HIDE DEF u
  <2> QED
    BY <2>1, <2>2, <2>3 DEF CallInv
<1> QED
  BY <1>1, <1>2, <1>3, <1>4, <1>5 DEF Updating

-----------------------------------------------------------------------------
(***************************************************************************)
(* Links, sessions and verified addresses                                  *)
(***************************************************************************)

\* A session was opened by the link that names it.
Linked(s) ==
    session[s].user # None =>
        /\ session[s].link \in Tokens
        /\ challenge[session[s].link].user = session[s].user
        /\ challenge[session[s].link].consumed = TRUE
        /\ challenge[session[s].link].by = s

\* A session that may still be presented belongs to an active account.
Living(s) ==
    (session[s].user # None /\ ~session[s].revoked /\ s \notin gone) =>
        Active(session[s].user)

Proven(u) ==
    \E t \in mailed : /\ challenge[t].user = u /\ challenge[t].by # None
                      /\ challenge[t].purpose = "verify_email"

LinkInv ==
    /\ challenge \in [Tokens -> Challenge]
    /\ mailed \subseteq {t \in Tokens : challenge[t].user # None}
    /\ \A c \in Calls : call[c].pc \in {"send", "withdraw"} =>
          challenge[call[c].token].user # None
    /\ \A s \in Sessions : Linked(s)
    /\ \A u \in verified \ Established : Proven(u)

LivingInv == \A s \in SessionIds : Living(s)

LEMMA LinksStart == Init => LinkInv /\ LivingInv
<1> SUFFICES ASSUME Init PROVE LinkInv /\ LivingInv
  OBVIOUS
<1>1. challenge \in [Tokens -> Challenge] /\ mailed = {} /\ verified = Established
  BY DEF Init, Challenge
<1>2. \A c \in Calls : call[c].pc = "idle"
  BY DEF Init, Idle, About
<1>3. \A s \in Sessions : s \in SessionIds /\ s \notin Established
  BY IdentityAssumption DEF SessionIds
<1>4. \A s \in Sessions : session[s].user = None
  BY <1>3 DEF Init
<1>5. LinkInv
  BY <1>1, <1>2, <1>4 DEF LinkInv, Linked
<1>6. ASSUME NEW s \in SessionIds PROVE Living(s)
  <2>1. CASE s \in Established
    BY <2>1, IdentityAssumption DEF Init, Living, Active
  <2>2. CASE s \notin Established
    BY <2>2 DEF Init, Living
  <2> QED
    BY <2>1, <2>2
<1> QED
  BY <1>5, <1>6 DEF LivingInv

\* Steps that write neither links nor sessions nor addresses.
LEMMA LinksRest ==
    ASSUME LinkInv, UNCHANGED <<challenge, mailed, session, verified>>,
           \A c \in Calls : call'[c].pc \in {"send", "withdraw"} =>
               /\ call[c].pc \in {"send", "withdraw"}
               /\ call'[c].token = call[c].token
    PROVE  LinkInv'
<1>1. \A s \in Sessions : Linked(s)'
  BY DEF LinkInv, Linked
<1>2. \A u \in verified \ Established : Proven(u)'
  BY DEF LinkInv, Proven
<1> QED
  BY <1>1, <1>2 DEF LinkInv

\* Rows of links that nobody used, or that only get consumed, harm nothing.
LEMMA LinksChange ==
    ASSUME LinkInv, NEW t \in Tokens, NEW x \in Challenge,
           challenge' = [challenge EXCEPT ![t] = x],
           UNCHANGED <<session, verified>>,
           mailed' = mailed, x.user # None,
           \/ challenge[t].user = None
           \/ /\ x.user = challenge[t].user /\ x.purpose = challenge[t].purpose
              /\ x.by = challenge[t].by
              /\ challenge[t].consumed = TRUE => x.consumed = TRUE,
           \A c \in Calls : call'[c].pc \in {"send", "withdraw"} =>
               \/ call'[c].token = t
               \/ /\ call[c].pc \in {"send", "withdraw"}
                  /\ call'[c].token = call[c].token /\ call[c].token \in Tokens
    PROVE  LinkInv'
<1>1. /\ challenge' \in [Tokens -> Challenge] /\ challenge'[t] = x
      /\ \A y \in Tokens : y # t => challenge'[y] = challenge[y]
  BY DEF LinkInv
<1>2. ASSUME NEW s \in Sessions PROVE Linked(s)'
  <2>1. Linked(s) /\ session'[s] = session[s]
    BY DEF LinkInv
  <2> QED
    BY <1>1, <2>1 DEF Linked
<1>3. ASSUME NEW u \in verified \ Established, u # None PROVE Proven(u)'
  <2>1. PICK y \in mailed : /\ challenge[y].user = u /\ challenge[y].by # None
                            /\ challenge[y].purpose = "verify_email"
    BY DEF LinkInv, Proven
  <2>2. y \in Tokens
    BY <2>1 DEF LinkInv
  <2>3. /\ challenge'[y].user = u /\ challenge'[y].by # None
        /\ challenge'[y].purpose = "verify_email"
    BY <1>1, <1>3, <2>1, <2>2
  <2> QED
    BY <2>1, <2>3 DEF Proven
<1>4. \A u \in verified \ Established : u # None
  BY DEF LinkInv, Proven
<1>5. mailed' \subseteq {y \in Tokens : challenge'[y].user # None}
  BY <1>1 DEF LinkInv
<1>6. \A c \in Calls : call'[c].pc \in {"send", "withdraw"} =>
          challenge'[call'[c].token].user # None
  BY <1>1 DEF LinkInv
<1> QED
  BY <1>1, <1>2, <1>3, <1>4, <1>5, <1>6 DEF LinkInv

\* Steps that only revoke sessions.
LEMMA LinksRevoke ==
    ASSUME LinkInv, UNCHANGED <<challenge, mailed, verified>>,
           \A c \in Calls : call'[c].pc \in {"send", "withdraw"} =>
               /\ call[c].pc \in {"send", "withdraw"}
               /\ call'[c].token = call[c].token,
           \A s \in SessionIds : /\ session'[s].user = session[s].user
                                 /\ session'[s].link = session[s].link
    PROVE  LinkInv'
<1>1. \A s \in Sessions : Linked(s)'
  BY DEF LinkInv, Linked, SessionIds
<1>2. \A u \in verified \ Established : Proven(u)'
  BY DEF LinkInv, Proven
<1> QED
  BY <1>1, <1>2 DEF LinkInv

\* A call that does not hold a link afterwards does not disturb the others.
LEMMA OthersHold ==
    ASSUME CallInv, NEW c \in Calls, NEW x \in GoodCall,
           call' = [call EXCEPT ![c] = x], x.pc \notin {"send", "withdraw"}
    PROVE  \A d \in Calls : call'[d].pc \in {"send", "withdraw"} =>
               /\ call[d].pc \in {"send", "withdraw"}
               /\ call'[d].token = call[d].token
  BY DEF CallInv

LEMMA LinksReturn ==
    ASSUME CallInv, LinkInv, UNCHANGED <<challenge, mailed, session, verified>>,
           NEW c \in Calls, Return(c)
    PROVE  LinkInv'
  BY IdleIsGood, OthersHold, LinksRest DEF Return

LEMMA LinksMove ==
    ASSUME CallInv, LinkInv, UNCHANGED <<challenge, mailed, session, verified>>,
           NEW c \in Calls, NEW x \in GoodCall, call' = [call EXCEPT ![c] = x],
           x.pc \notin {"send", "withdraw"}
    PROVE  LinkInv'
  BY OthersHold, LinksRest

LEMMA LinksGoto ==
    ASSUME CallInv, LinkInv, UNCHANGED <<challenge, mailed, session, verified>>,
           NEW c \in Calls, NEW pc, pc \notin {"send", "withdraw"}, Goto(c, pc)
    PROVE  LinkInv'
<1>1. \A d \in Calls : call'[d].pc \in {"send", "withdraw"} =>
          /\ call[d].pc \in {"send", "withdraw"}
          /\ call'[d].token = call[d].token
  BY DEF Goto, CallInv, GoodCall, Call
<1> QED
  BY <1>1, LinksRest

LEMMA LinkingKeepsLinks ==
    ASSUME CallInv, LinkInv, NEW c \in Calls, Linking(c)
    PROVE  LinkInv'
<1>0. call[c] \in GoodCall
  BY DEF CallInv
<1>1. ASSUME NEW t \in Tokens, CreateChallenge(c, t) PROVE LinkInv'
  <2> DEFINE x == [user |-> call[c].user, purpose |-> call[c].purpose,
                   consumed |-> FALSE, by |-> None]
             y == [call[c] EXCEPT !.pc = "send", !.token = t]
  <2>1. call[c].pc = "challenge" /\ call[c].user \in People
    BY <1>0, <1>1 DEF CreateChallenge, At, GoodCall
  <2>2. x \in Challenge /\ x.user # None
    BY <1>0, <2>1, IdentityAssumption DEF GoodCall, Call, Challenge
  <2>3. y.token = t
    BY <1>0 DEF GoodCall, Call
  <2>4. /\ challenge' = [challenge EXCEPT ![t] = x] /\ challenge[t].user = None
        /\ UNCHANGED <<session, verified>> /\ mailed' = mailed
        /\ call' = [call EXCEPT ![c] = y]
    BY <1>1 DEF CreateChallenge, accounts
  <2> HIDE DEF x, y
  <2>5. \A d \in Calls : call'[d].pc \in {"send", "withdraw"} =>
            \/ call'[d].token = t
            \/ /\ call[d].pc \in {"send", "withdraw"}
               /\ call'[d].token = call[d].token /\ call[d].token \in Tokens
    BY <2>3, <2>4 DEF CallInv, GoodCall
  <2> QED
    BY <2>2, <2>4, <2>5, LinksChange
<1>2. CASE SendLink(c)
  <2>1. /\ call[c].pc = "send" /\ call[c].token \in Tokens
        /\ challenge[call[c].token].user # None
    BY <1>0, <1>2 DEF SendLink, At, GoodCall, LinkInv
  <2>2. /\ UNCHANGED <<challenge, session, verified>>
        /\ mailed \subseteq mailed'
        /\ mailed' \subseteq mailed \cup {call[c].token}
        /\ Return(c) \/ Goto(c, "withdraw")
    BY <1>2 DEF SendLink, accounts
  <2>3. \A d \in Calls : call'[d].pc \in {"send", "withdraw"} =>
            /\ call[d].pc \in {"send", "withdraw"}
            /\ call'[d].token = call[d].token
    <3>1. CASE Return(c)
      BY <3>1, IdleIsGood, OthersHold DEF Return
    <3>2. CASE Goto(c, "withdraw")
      BY <3>2, <2>1 DEF Goto, CallInv, GoodCall, Call
    <3> QED
      BY <2>2, <3>1, <3>2
  <2>4. \A s \in Sessions : Linked(s)'
    BY <2>2 DEF LinkInv, Linked
  <2>5. \A u \in verified \ Established : Proven(u)'
    BY <2>2 DEF LinkInv, Proven
  <2>6. mailed' \subseteq {t \in Tokens : challenge'[t].user # None}
    BY <2>1, <2>2 DEF LinkInv
  <2> QED
    BY <2>2, <2>3, <2>4, <2>5, <2>6 DEF LinkInv
<1>3. CASE Withdraw(c)
  <2> DEFINE t == call[c].token
             x == [challenge[t] EXCEPT !.consumed = TRUE]
  <2>1. t \in Tokens /\ challenge[t].user # None /\ challenge[t] \in Challenge
    BY <1>0, <1>3 DEF Withdraw, At, GoodCall, LinkInv
  <2>2. UNCHANGED <<session, verified>> /\ mailed' = mailed /\ Return(c)
    BY <1>3 DEF Withdraw, accounts
  <2>3. CASE t \in gone
    <3>1. challenge' = challenge
      BY <1>3, <2>3 DEF Withdraw
    <3> QED
      BY <2>2, <3>1, LinksReturn
  <2>4. CASE t \notin gone
    <3>1. challenge' = [challenge EXCEPT ![t] = x]
      BY <1>3, <2>4 DEF Withdraw
    <3>2. /\ x \in Challenge /\ x.user = challenge[t].user
          /\ x.purpose = challenge[t].purpose /\ x.by = challenge[t].by
          /\ x.consumed = TRUE
      BY <2>1 DEF Challenge
    <3>3. \A d \in Calls : call'[d].pc \in {"send", "withdraw"} =>
              /\ call[d].pc \in {"send", "withdraw"}
              /\ call'[d].token = call[d].token /\ call[d].token \in Tokens
      BY <2>2, IdleIsGood, OthersHold DEF Return, CallInv, GoodCall
    <3> HIDE DEF x, t
    <3> QED
      BY <2>1, <2>2, <3>1, <3>2, <3>3, LinksChange
  <2> QED
    BY <2>3, <2>4
<1> QED
  BY <1>1, <1>2, <1>3 DEF Linking

\* Joining, inviting and updating neither mail links nor touch their rows.
LEMMA OtherCallsHold ==
    ASSUME CallInv, NEW c \in Calls, Joining(c) \/ Inviting(c) \/ Updating(c)
    PROVE  /\ UNCHANGED <<challenge, mailed, verified, gone>>
           /\ \A d \in Calls : call'[d].pc \in {"send", "withdraw"} =>
                 /\ call[d].pc \in {"send", "withdraw"}
                 /\ call'[d].token = call[d].token
<1>0. call[c] \in Call /\ call \in [Calls -> Call]
  BY DEF CallInv, GoodCall
<1> DEFINE Left == /\ call'[c].pc \notin {"send", "withdraw"}
                   /\ \A d \in Calls : d # c => /\ call'[d].pc = call[d].pc
                                                /\ call'[d].token = call[d].token
                   /\ UNCHANGED <<challenge, mailed, verified, gone>>
<1>1. ASSUME Return(c) PROVE /\ call'[c].pc \notin {"send", "withdraw"}
                             /\ \A d \in Calls : d # c => call'[d] = call[d]
  BY <1>0, <1>1, IdleIsGood DEF Return
<1>2. ASSUME NEW pc, pc \notin {"send", "withdraw"}, Goto(c, pc)
      PROVE  /\ call'[c].pc \notin {"send", "withdraw"}
             /\ \A d \in Calls : d # c => call'[d] = call[d]
  BY <1>0, <1>2 DEF Goto, Call
<1>3. CASE Joining(c)
  <2>1. ASSUME NEW u \in People, Bootstrap(c, u) PROVE Left
    BY <1>0, <2>1 DEF Bootstrap, About, accounts, links, clocks
  <2>2. ASSUME NEW u \in People, NEW rs \in RoleSets, CreateUser(c, u, rs) PROVE Left
    BY <1>0, <2>2 DEF CreateUser, About, accounts, links, clocks
  <2>3. ASSUME CheckEmail(c) PROVE Left
    <3>1. Return(c) \/ Goto(c, "insert")
      BY <2>3 DEF CheckEmail
    <3> QED
      BY <1>1, <1>2, <2>3, <3>1 DEF CheckEmail, accounts, links, clocks
  <2>4. ASSUME InsertUser(c) PROVE Left
    <3>1. UNCHANGED <<challenge, mailed, verified, gone>>
      BY <2>4 DEF InsertUser, links, clocks
    <3>2. Return(c) \/ \E u : call' =
              [call EXCEPT ![c] = About(u, "challenge", {}, "verify_email")]
      BY <2>4 DEF InsertUser
    <3> QED
      BY <1>0, <1>1, <3>1, <3>2 DEF About
  <2> HIDE DEF Left
  <2>5. Left
    BY <1>3, <2>1, <2>2, <2>3, <2>4 DEF Joining
  <2> QED
    BY <2>5 DEF Left
<1>4. CASE Inviting(c)
  <2>1. ASSUME NEW u \in People, ResendInvitation(c, u) \/ RequestSignIn(c, u)
        PROVE  Left
    BY <1>0, <2>1 DEF ResendInvitation, RequestSignIn, About, accounts, links, clocks
  <2>2. ASSUME FindInvitee(c) \/ FindRecent(c) PROVE Left
    <3>1. Return(c) \/ Goto(c, "challenge")
      BY <2>2 DEF FindInvitee, FindRecent
    <3> QED
      BY <1>1, <1>2, <2>2, <3>1 DEF FindInvitee, FindRecent, accounts, links, clocks
  <2> HIDE DEF Left
  <2>3. Left
    BY <1>4, <2>1, <2>2 DEF Inviting
  <2> QED
    BY <2>3 DEF Left
<1>5. CASE Updating(c)
  <2>1. ASSUME NEW a \in OwnerActors, NEW u \in People, NEW rs \in RoleSets \cup {{}},
               NEW st \in {"active", "disabled", None}, UpdateUser(c, a, u, rs, st)
        PROVE  Left
    BY <1>0, <2>1 DEF UpdateUser, About, accounts, links, clocks
  <2>2. ASSUME ReadTarget(c) PROVE Left
    <3>1. UNCHANGED <<challenge, mailed, verified, gone>>
      BY <2>2 DEF ReadTarget, accounts, links, clocks
    <3>2. Return(c) \/ call' = [call EXCEPT ![c] =
              [@ EXCEPT !.pc = "roles", !.was = status[call[c].user]]]
      BY <2>2 DEF ReadTarget
    <3>3. ASSUME NEW w, call' = [call EXCEPT ![c] = [@ EXCEPT !.pc = "roles", !.was = w]]
          PROVE  call'[c].pc = "roles" /\ \A d \in Calls : d # c => call'[d] = call[d]
      BY <1>0, <3>3 DEF Call
    <3> QED
      BY <1>1, <3>1, <3>2, <3>3
  <2>3. ASSUME ReadRoles(c) PROVE Left
    <3>1. UNCHANGED <<challenge, mailed, verified, gone>>
      BY <2>3 DEF ReadRoles, accounts, links, clocks
    <3>2. \/ Return(c)
          \/ \E w \in {"count", "write"} : \E st, rs :
                call' = [call EXCEPT ![c] =
                   [pc |-> w, user |-> call[c].user, self |-> FALSE, status |-> st,
                    roles |-> rs, was |-> None, purpose |-> "verify_email",
                    token |-> None, overtaken |-> call[c].overtaken]]
      BY <2>3 DEF ReadRoles
    <3> QED
      BY <1>0, <1>1, <3>1, <3>2
  <2>4. ASSUME CountOwners(c) PROVE Left
    <3>1. Return(c) \/ Goto(c, "write")
      BY <2>4 DEF CountOwners
    <3> QED
      BY <1>1, <1>2, <2>4, <3>1 DEF CountOwners, accounts, links, clocks
  <2>5. ASSUME WriteUser(c) PROVE Left
    BY <2>5, WriteOvertakes DEF WriteUser, links, clocks
  <2> HIDE DEF Left
  <2>6. Left
    BY <1>5, <2>1, <2>2, <2>3, <2>4, <2>5 DEF Updating
  <2> QED
    BY <2>6 DEF Left
<1> QED
  BY <1>3, <1>4, <1>5

\* The batch of verifyChallenge, by what it finds.
LEMMA VerifyCases ==
    ASSUME NEW t \in Tokens, NEW s \in Sessions, Verify(t, s),
           CallInv, LinkInv
    PROVE  /\ t \in mailed /\ session[s].user = None
           /\ UNCHANGED <<status, roles, mailed, gone, call>>
           /\ \/ ~Consumable(t) /\ UNCHANGED <<challenge, verified, session>>
              \/ /\ Consumable(t)
                 /\ challenge' = [challenge EXCEPT ![t] =
                       [@ EXCEPT !.consumed = TRUE, !.by = s]]
                 /\ \A u \in verified' :
                       \/ u \in verified
                       \/ u = challenge[t].user /\ challenge[t].purpose = "verify_email"
                 /\ verified \subseteq verified'
                 /\ \/ session' = session
                    \/ session' = [session EXCEPT ![s] =
                          [user |-> challenge[t].user, link |-> t, revoked |-> FALSE]]
<1>1. /\ t \in mailed /\ session[s].user = None
      /\ UNCHANGED <<status, roles, mailed, gone, call>>
  BY DEF Verify, clocks
<1>2. challenge \in [Tokens -> Challenge] /\ session \in [SessionIds -> Session]
  BY DEF CallInv, LinkInv
<1>3. CASE Consumable(t)
  <2>1. challenge' = [challenge EXCEPT ![t] = [@ EXCEPT !.consumed = TRUE, !.by = s]]
    BY <1>3 DEF Verify
  <2>2. \A u \in verified' :
            \/ u \in verified
            \/ u = challenge[t].user /\ challenge[t].purpose = "verify_email"
    <3>1. CASE Proves(t)
      <4>1. challenge[t].purpose = "verify_email"
        BY <3>1 DEF Proves
      <4>2. verified' \subseteq verified \cup {challenge[t].user}
        BY DEF Verify
      <4> QED
        BY <4>1, <4>2
    <3>2. CASE ~Proves(t)
      BY <3>2 DEF Verify
    <3> QED
      BY <3>1, <3>2
  <2>3. verified \subseteq verified'
    BY DEF Verify
  <2>4. \/ session' = [session EXCEPT ![s] = session[s]]
        \/ session' = [session EXCEPT ![s] =
               [user |-> challenge[t].user, link |-> t, revoked |-> FALSE]]
    BY <1>3 DEF Verify
  <2> QED
    BY <1>1, <1>2, <1>3, <2>1, <2>2, <2>3, <2>4
<1>4. CASE ~Consumable(t)
  <2>1. challenge' = [challenge EXCEPT ![t] = challenge[t]]
    BY <1>4 DEF Verify
  <2>2. session' = [session EXCEPT ![s] = session[s]]
    BY <1>4 DEF Verify
  <2>3. verified' = verified
    BY <1>4 DEF Verify, Proves
  <2> QED
    BY <1>1, <1>2, <1>4, <2>1, <2>2, <2>3
<1> QED
  BY <1>3, <1>4

LEMMA VerifyKeeps ==
    ASSUME NEW t \in Tokens, NEW s \in Sessions, Verify(t, s),
           CallInv, LinkInv, LivingInv
    PROVE  CallInv' /\ LinkInv' /\ LivingInv'
<1>1. /\ t \in mailed /\ session[s].user = None /\ s \in SessionIds /\ s # None
      /\ UNCHANGED <<status, roles, mailed, gone, call>>
  BY VerifyCases, IdentityAssumption DEF SessionIds
<1>2. CASE UNCHANGED <<challenge, verified, session>>
  BY <1>1, <1>2, LinksRest DEF CallInv, LivingInv, Living, Active
<1>3. CASE ~UNCHANGED <<challenge, verified, session>>
  <2> DEFINE u == challenge[t].user
             x == [challenge[t] EXCEPT !.consumed = TRUE, !.by = s]
             o == [user |-> u, link |-> t, revoked |-> FALSE]
  <2>1. /\ Consumable(t) /\ challenge' = [challenge EXCEPT ![t] = x]
        /\ \A v \in verified' :
              \/ v \in verified
              \/ v = u /\ challenge[t].purpose = "verify_email"
        /\ session' = session \/ session' = [session EXCEPT ![s] = o]
    BY <1>3, VerifyCases
  <2>2. challenge[t] \in Challenge /\ u # None /\ u \in People
    BY <1>1 DEF LinkInv, Challenge
  <2>3. /\ x \in Challenge /\ x.user = u /\ x.purpose = challenge[t].purpose
        /\ x.by = s /\ x.consumed = TRUE
    BY <1>1, <2>2 DEF Challenge
  <2>4. challenge[t].consumed # TRUE /\ Active(u)
    BY <2>1, <2>2 DEF Consumable, Challenge
  <2>5. o \in Session /\ o.user = u /\ o.link = t
    BY <2>2 DEF Session
  <2> HIDE DEF x, o
  <2>6. /\ challenge' \in [Tokens -> Challenge] /\ challenge'[t] = x
        /\ \A y \in Tokens : y # t => challenge'[y] = challenge[y]
    BY <2>1, <2>3 DEF LinkInv
  <2>7. /\ session' \in [SessionIds -> Session]
        /\ session'[s] \in {session[s], o}
        /\ \A y \in SessionIds : y # s => session'[y] = session[y]
    BY <1>1, <2>1, <2>5 DEF CallInv
  <2>8. CallInv'
    BY <1>1, <2>7 DEF CallInv
  <2>9. ASSUME NEW y \in Sessions PROVE Linked(y)'
    <3>1. CASE y = s
      BY <1>1, <2>3, <2>5, <2>6, <2>7, <3>1 DEF Linked
    <3>2. CASE y # s
      <4>1. Linked(y) /\ session'[y] = session[y]
        BY <2>7, <3>2 DEF LinkInv, SessionIds
      <4>2. session[y].user # None => session[y].link # t
        BY <2>4, <4>1 DEF Linked
      <4> QED
        BY <2>6, <4>1, <4>2 DEF Linked
    <3> QED
      BY <3>1, <3>2
  <2>10. ASSUME NEW v \in verified' \ Established PROVE Proven(v)'
    <3>1. CASE v \in verified
      <4>1. PICK y \in mailed : /\ challenge[y].user = v /\ challenge[y].by # None
                                /\ challenge[y].purpose = "verify_email"
        BY <2>10, <3>1 DEF LinkInv, Proven
      <4>2. y \in Tokens
        BY <4>1 DEF LinkInv
      <4>3. /\ challenge'[y].user = v /\ challenge'[y].by # None
            /\ challenge'[y].purpose = "verify_email"
        BY <1>1, <2>3, <2>6, <4>1, <4>2
      <4> QED
        BY <1>1, <4>1, <4>3 DEF Proven
    <3>2. CASE v \notin verified
      <4>1. v = u /\ challenge[t].purpose = "verify_email"
        BY <2>1, <2>10, <3>2
      <4> QED
        BY <1>1, <2>3, <2>6, <4>1 DEF Proven
    <3> QED
      BY <3>1, <3>2
  <2>11. LinkInv'
    <3>1. mailed' \subseteq {y \in Tokens : challenge'[y].user # None}
      BY <1>1, <2>2, <2>3, <2>6 DEF LinkInv
    <3>2. \A c \in Calls : call'[c].pc \in {"send", "withdraw"} =>
              challenge'[call'[c].token].user # None
      BY <1>1, <2>2, <2>3, <2>6 DEF LinkInv, CallInv, GoodCall
    <3> QED
      BY <2>6, <2>9, <2>10, <3>1, <3>2 DEF LinkInv
  <2>12. ASSUME NEW y \in SessionIds PROVE Living(y)'
    <3>1. CASE y = s /\ session'[s] = o
      BY <1>1, <2>4, <2>5, <3>1 DEF Living, Active
    <3>2. CASE session'[y] = session[y]
      BY <1>1, <3>2 DEF LivingInv, Living, Active
    <3> QED
      BY <2>7, <3>1, <3>2
  <2> QED
    BY <2>8, <2>11, <2>12 DEF LivingInv
<1> QED
  BY <1>2, <1>3

\* Steps that create no session and disable no account.
LEMMA LivingKeeps ==
    ASSUME LivingInv, gone \subseteq gone',
           \A s \in SessionIds :
               /\ session'[s].user = session[s].user
               /\ ~session'[s].revoked => ~session[s].revoked,
           \A u : Active(u) => Active(u)'
    PROVE  LivingInv'
  BY DEF LivingInv, Living

LEMMA TimeKeeps ==
    ASSUME CallInv, LinkInv, LivingInv, Time
    PROVE  CallInv' /\ LinkInv' /\ LivingInv'
<1>1. /\ UNCHANGED <<status, roles, verified, challenge, mailed, session, call>>
      /\ gone \subseteq gone'
  BY DEF Time, GrowOld, PruneSessions, PruneChallenges, accounts, links
<1>2. CallInv'
  BY <1>1 DEF CallInv
<1>3. LinkInv'
  BY <1>1, LinksRest
<1>4. LivingInv'
  BY <1>1, LivingKeeps DEF Active
<1> QED
  BY <1>2, <1>3, <1>4

LEMMA LogoutKeeps ==
    ASSUME CallInv, LinkInv, LivingInv, NEW s \in SessionIds, Logout(s)
    PROVE  CallInv' /\ LinkInv' /\ LivingInv'
<1>1. /\ UNCHANGED <<status, roles, verified, challenge, mailed, gone, call>>
      /\ session' = [session EXCEPT ![s].revoked = TRUE]
  BY DEF Logout, accounts, links, clocks
<1>2. /\ session' \in [SessionIds -> Session]
      /\ \A x \in SessionIds : /\ session'[x].user = session[x].user
                                /\ session'[x].link = session[x].link
                                /\ ~session'[x].revoked => ~session[x].revoked
  BY <1>1 DEF CallInv, Session
<1>3. CallInv'
  BY <1>1, <1>2 DEF CallInv
<1>4. LinkInv'
  BY <1>1, <1>2, LinksRevoke
<1>5. LivingInv'
  BY <1>1, <1>2, LivingKeeps DEF Active
<1> QED
  BY <1>3, <1>4, <1>5

\* An account that is disabled loses its sessions in the same batch.
LEMMA WriteKeepsLiving ==
    ASSUME CallInv, LivingInv, NEW c \in Calls, WriteUser(c)
    PROVE  LivingInv'
<1> DEFINE u == call[c].user
<1>1. u \in People /\ call[c].status \in {"active", "disabled"}
  BY DEF WriteUser, At, CallInv, GoodCall
<1>2. /\ status' = [status EXCEPT ![u] = call[c].status]
      /\ gone' = gone
      /\ \A s \in SessionIds :
            /\ session'[s].user = session[s].user
            /\ ~session'[s].revoked => ~session[s].revoked /\ ~Revokes(s, c)
  BY SessionsStay DEF WriteUser, clocks, CallInv
<1>3. ASSUME NEW s \in SessionIds, session'[s].user # None,
             ~session'[s].revoked, s \notin gone
      PROVE  Active(session[s].user)'
  <2>1. Active(session[s].user) /\ session[s].user \in People
    BY <1>2, <1>3 DEF LivingInv, Living, CallInv, Session
  <2>2. CASE session[s].user = u
    <3>1. call[c].status # "disabled"
      BY <1>2, <1>3, <2>2 DEF Revokes
    <3>2. status'[u] = call[c].status
      BY <1>1, <1>2 DEF CallInv
    <3>3. session'[s].user = u
      BY <1>2, <2>2
    <3> QED
      BY <1>1, <3>1, <3>2, <3>3 DEF Active
  <2>3. CASE session[s].user # u
    <3>1. status'[session[s].user] = status[session[s].user]
      BY <1>2, <2>1, <2>3 DEF CallInv
    <3> QED
      BY <1>2, <2>1, <3>1 DEF Active
  <2> QED
    BY <2>2, <2>3
<1> QED
  BY <1>2, <1>3 DEF LivingInv, Living

LEMMA OtherCallsKeep ==
    ASSUME CallInv, LinkInv, LivingInv, NEW c \in Calls,
           Joining(c) \/ Inviting(c) \/ Updating(c)
    PROVE  CallInv' /\ LinkInv' /\ LivingInv'
<1>1. CallInv'
  BY JoiningKeepsCalls, InvitingKeepsCalls, UpdatingKeepsCalls
<1>2. CASE WriteUser(c)
  <2>1. \A s \in SessionIds : /\ session'[s].user = session[s].user
                              /\ session'[s].link = session[s].link
    BY <1>2, SessionsStay DEF WriteUser, CallInv
  <2> QED
    BY <1>1, <1>2, <2>1, OtherCallsHold, LinksRevoke, WriteKeepsLiving
<1>3. CASE InsertUser(c)
  <2>1. call[c].user \in People /\ session' = session
    BY <1>3 DEF InsertUser, At, CallInv, GoodCall
  <2>2. status' = status \/ status' = [status EXCEPT ![call[c].user] = "active"]
    BY <1>3 DEF InsertUser
  <2>3. \A u \in People : Active(u) => Active(u)'
    BY <2>1, <2>2 DEF Active, CallInv
  <2>4. \A s \in SessionIds : session[s].user \in People \cup {None}
    BY DEF CallInv, Session
  <2>5. LivingInv'
    BY <2>1, <2>3, <2>4, OtherCallsHold DEF LivingInv, Living
  <2> QED
    BY <1>1, <2>1, <2>5, OtherCallsHold, LinksRest
<1>4. CASE ~WriteUser(c) /\ ~InsertUser(c)
  <2>1. UNCHANGED <<status, session>>
    BY <1>4 DEF Joining, Inviting, Updating, Bootstrap, CreateUser, CheckEmail,
       ResendInvitation, FindInvitee, RequestSignIn, FindRecent,
       UpdateUser, ReadTarget, ReadRoles, CountOwners, accounts
  <2>2. LivingInv'
    BY <2>1, OtherCallsHold, LivingKeeps DEF Active
  <2> QED
    BY <1>1, <2>1, <2>2, OtherCallsHold, LinksRest
<1> QED
  BY <1>2, <1>3, <1>4

LEMMA LinkingKeeps ==
    ASSUME CallInv, LinkInv, LivingInv, NEW c \in Calls, Linking(c)
    PROVE  CallInv' /\ LinkInv' /\ LivingInv'
<1>1. UNCHANGED <<status, session, gone>>
  BY DEF Linking, CreateChallenge, SendLink, Withdraw, accounts, clocks
<1> QED
  BY <1>1, LinkingKeepsCalls, LinkingKeepsLinks, LivingKeeps DEF Active

LEMMA IdentityStep ==
    CallInv /\ LinkInv /\ LivingInv /\ [Next]_vars
        => CallInv' /\ LinkInv' /\ LivingInv'
<1> SUFFICES ASSUME CallInv, LinkInv, LivingInv, [Next]_vars
             PROVE  CallInv' /\ LinkInv' /\ LivingInv'
  OBVIOUS
<1>1. CASE UNCHANGED vars
  <2>1. /\ UNCHANGED <<status, roles, verified, challenge, mailed, session, call>>
        /\ gone \subseteq gone'
    BY <1>1 DEF vars, accounts, links, clocks
  <2> QED
    BY <2>1, LinksRest, LivingKeeps DEF CallInv, Active
<1>2. CASE Next
  BY <1>2, TimeKeeps, VerifyKeeps, LogoutKeeps, LinkingKeeps, OtherCallsKeep DEF Next
<1> QED
  BY <1>1, <1>2

-----------------------------------------------------------------------------
\* A link opens one session at most, for its addressee, however often it is
\* presented (verifyChallenge).
THEOREM LinkOpensOneSession == Spec => []LinkUsedOnce
<1>1. CallInv /\ LinkInv => LinkUsedOnce
  <2> SUFFICES ASSUME CallInv, LinkInv, NEW s \in Sessions, session[s].user # None
               PROVE  LET t == session[s].link
                      IN  challenge[t] = [user |-> session[s].user,
                            purpose |-> challenge[t].purpose,
                            consumed |-> TRUE, by |-> s]
    BY DEF LinkUsedOnce
  <2>1. Linked(s) /\ challenge[session[s].link] \in Challenge
    BY DEF LinkInv, Linked
  <2> QED
    BY <2>1 DEF Linked, Challenge
<1> QED
  BY <1>1, CallsStart, LinksStart, IdentityStep, PTL DEF Spec

\* No session outlives the disabling of its account, to return with it when
\* the account is enabled (updateUser).
THEOREM DisabledLosesSessions == Spec => []DisabledHasNoSession
<1>1. LivingInv => DisabledHasNoSession
  BY DEF LivingInv, Living, DisabledHasNoSession
<1> QED
  BY <1>1, CallsStart, LinksStart, IdentityStep, PTL DEF Spec

\* An address is verified only by a link that was mailed to it and used.
THEOREM VerifiedOnlyByMail == Spec => []VerifiedByMail
<1>1. LinkInv => VerifiedByMail
  BY DEF LinkInv, Proven, VerifiedByMail
<1> QED
  BY <1>1, CallsStart, LinksStart, IdentityStep, PTL DEF Spec

-----------------------------------------------------------------------------
(***************************************************************************)
(* Duties                                                                  *)
(***************************************************************************)

LEMMA RolesAreFinite == IsFiniteSet(InternalRole)
<1>1. IsFiniteSet({"owner"} \cup {"operator"} \cup {"researcher"})
  BY FS_Singleton, FS_Union
<1>2. IsFiniteSet({"review_coordinator"} \cup {"reviewer"})
  BY FS_Singleton, FS_Union
<1>3. IsFiniteSet({"adjudicator"} \cup {"release_approver"})
  BY FS_Singleton, FS_Union
<1>4. InternalRole = (({"owner"} \cup {"operator"} \cup {"researcher"})
                      \cup ({"review_coordinator"} \cup {"reviewer"}))
                     \cup ({"adjudicator"} \cup {"release_approver"})
  BY DEF InternalRole
<1> QED
  BY <1>1, <1>2, <1>3, <1>4, FS_Union

\* Two roles are more than one.
LEMMA TwoRoles ==
    ASSUME NEW R \in SUBSET InternalRole, NEW a \in R, NEW b \in R, a # b
    PROVE  Cardinality(R) > 1
<1>1. IsFiniteSet(R) /\ Cardinality(R) \in Nat
  BY RolesAreFinite, FS_Subset, FS_CardinalityType
<1>2. Cardinality({a, b}) = 2
  <2>1. IsFiniteSet({a}) /\ Cardinality({a}) = 1
    BY FS_Singleton
  <2>2. {a, b} = {a} \cup {b}
    OBVIOUS
  <2>3. b \notin {a}
    OBVIOUS
  <2>4. Cardinality({a} \cup {b}) =
          IF b \in {a} THEN Cardinality({a}) ELSE Cardinality({a}) + 1
    BY <2>1, FS_AddElement, Zenon
  <2>5. Cardinality({a} \cup {b}) = Cardinality({a}) + 1
    BY <2>3, <2>4, Zenon
  <2>6. Cardinality({a} \cup {b}) = 1 + 1
    BY <2>1, <2>5, Zenon
  <2> QED
    BY <2>2, <2>6
<1>3. Cardinality({a, b}) <= Cardinality(R)
  BY <1>1, FS_Subset
<1> QED
  BY <1>1, <1>2, <1>3

\* Whatever roles updates and invitations have given a person, in whichever
\* order they read and wrote: only an owner, or someone with two roles, both
\* registers evidence and decides on it (internal-auth.ts, canAccessInternals).
THEOREM DutiesStaySeparated == Spec => []DutiesSeparated
<1>1. CallInv => DutiesSeparated
  <2> SUFFICES ASSUME CallInv, NEW u \in People, ~Owner(u),
                      NEW area \in {"registry", "ground-truth"},
                      CanAccess(u, area, IF area = "registry" THEN "write" ELSE "validate"),
                      CanAccess(u, area, "decide")
               PROVE  Cardinality(roles[u]) > 1
    BY DEF DutiesSeparated
  <2>1. roles[u] \cap {"researcher"} # {} /\ roles[u] \cap {"release_approver"} # {}
    BY DEF CanAccess, Granted
  <2>2. roles[u] \in SUBSET InternalRole
    BY DEF CallInv
  <2> QED
    BY <2>1, <2>2, TwoRoles
<1> QED
  BY <1>1, CallsStart, LinksStart, IdentityStep, PTL DEF Spec

-----------------------------------------------------------------------------
(***************************************************************************)
(* The last owner                                                          *)
(***************************************************************************)

UpdatePcs == {"roles", "count", "write"}

\* What an update has read still holds, and its write leaves an owner, unless
\* another update overtook it.
UpdateOK(x) ==
    (x.pc \in UpdatePcs /\ ~x.overtaken) =>
        /\ status[x.user] # "none"
        /\ x.pc = "roles" => x.was = status[x.user]
        /\ x.pc = "write" => \/ x.status = "active" /\ "owner" \in x.roles
                             \/ ~Active(x.user) \/ ~Owner(x.user)
                             \/ OtherOwners(x.user) # {}

UpdatesOK == \A c \in Calls : UpdateOK(call[c])

\* One call moves; accounts stay.
LEMMA UpdateMoves ==
    ASSUME CallInv, UpdatesOK, UNCHANGED <<status, roles>>, NEW c \in Calls, NEW x,
           call' = [call EXCEPT ![c] = x], UpdateOK(x)
    PROVE  UpdatesOK'
<1>1. call'[c] = x /\ \A d \in Calls \ {c} : call'[d] = call[d]
  BY DEF CallInv
<1> QED
  BY <1>1 DEF UpdatesOK, UpdateOK, Active, Owner, OtherOwners

\* A call that goes on, or ends, without writing.
LEMMA UpdateGoes ==
    ASSUME CallInv, UpdatesOK, UNCHANGED <<status, roles>>, NEW c \in Calls, NEW pc,
           Goto(c, pc), pc \notin UpdatePcs \/ UpdateOK([call[c] EXCEPT !.pc = pc])
    PROVE  UpdatesOK'
<1>1. PICK x : x = [call[c] EXCEPT !.pc = pc]
  OBVIOUS
<1>2. x.pc = pc
  BY <1>1 DEF CallInv, GoodCall, Call
<1> QED
  BY <1>1, <1>2, UpdateMoves DEF Goto, UpdateOK

LEMMA UpdateReturns ==
    ASSUME CallInv, UpdatesOK, UNCHANGED <<status, roles>>, NEW c \in Calls, Return(c)
    PROVE  UpdatesOK'
  BY IdleIsGood, UpdateMoves DEF Return, UpdateOK, UpdatePcs

\* Calls that mail links leave the updates in flight alone.
LEMMA LinkingUpdates ==
    ASSUME CallInv, UpdatesOK, NEW c \in Calls, Linking(c) \/ Inviting(c)
    PROVE  UpdatesOK'
<1>1. UNCHANGED <<status, roles>>
  BY DEF Linking, Inviting, CreateChallenge, SendLink, Withdraw, ResendInvitation,
     FindInvitee, RequestSignIn, FindRecent, accounts
<1>2. ASSUME NEW t \in Tokens, CreateChallenge(c, t) PROVE UpdatesOK'
  <2>1. PICK x : x = [call[c] EXCEPT !.pc = "send", !.token = t]
    OBVIOUS
  <2>2. x.pc = "send"
    BY <2>1 DEF CallInv, GoodCall, Call
  <2>3. call' = [call EXCEPT ![c] = x]
    BY <1>2, <2>1 DEF CreateChallenge
  <2> QED
    BY <1>1, <2>2, <2>3, UpdateMoves DEF UpdateOK, UpdatePcs
<1>3. CASE \E u \in People : ResendInvitation(c, u) \/ RequestSignIn(c, u)
  <2>1. PICK u \in People, pc \in {"invitee", "recent"}, purpose \in {"verify_email", "sign_in"} :
           call' = [call EXCEPT ![c] = About(u, pc, {}, purpose)]
    BY <1>3 DEF ResendInvitation, RequestSignIn
  <2>2. About(u, pc, {}, purpose).pc \notin UpdatePcs
    BY DEF About, UpdatePcs
  <2> QED
    BY <1>1, <2>1, <2>2, UpdateMoves DEF UpdateOK
<1>4. CASE Return(c)
  BY <1>1, <1>4, UpdateReturns
<1>5. CASE Goto(c, "withdraw") \/ Goto(c, "challenge")
  BY <1>1, <1>5, UpdateGoes DEF UpdatePcs
<1> QED
  BY <1>2, <1>3, <1>4, <1>5
  DEF Linking, Inviting, SendLink, Withdraw, FindInvitee, FindRecent

\* A new account takes nobody's ownership.
LEMMA JoiningUpdates ==
    ASSUME CallInv, UpdatesOK, NEW c \in Calls, Joining(c)
    PROVE  /\ UpdatesOK'
           /\ \A u \in People : Owner(u) /\ Active(u) => Owner(u)' /\ Active(u)'
<1>1. CASE \/ \E u \in People : Bootstrap(c, u)
           \/ \E u \in People, rs \in RoleSets : CreateUser(c, u, rs)
  <2>1. UNCHANGED <<status, roles>>
    BY <1>1 DEF Bootstrap, CreateUser, accounts
  <2>2. PICK u \in People, pc \in {"exists", "challenge"}, rs \in RoleSets \cup {{}, {"owner"}} :
           call' = [call EXCEPT ![c] = About(u, pc, rs, "verify_email")]
    BY <1>1 DEF Bootstrap, CreateUser
  <2>3. About(u, pc, rs, "verify_email").pc \notin UpdatePcs
    BY DEF About, UpdatePcs
  <2> QED
    BY <2>1, <2>2, <2>3, UpdateMoves DEF UpdateOK, Owner, Active
<1>2. CASE CheckEmail(c)
  <2>1. UNCHANGED <<status, roles>> /\ (Return(c) \/ Goto(c, "insert"))
    BY <1>2 DEF CheckEmail, accounts
  <2> QED
    BY <2>1, UpdateReturns, UpdateGoes DEF UpdatePcs, Owner, Active
<1>3. CASE InsertUser(c)
  <2> DEFINE u == call[c].user
  <2>1. CASE Return(c) /\ UNCHANGED <<status, roles>>
    BY <2>1, UpdateReturns DEF Owner, Active
  <2>2. CASE status[u] = "none"
    <3>1. /\ u \in People /\ status \in [People -> {"none", "active", "disabled"}]
          /\ roles \in [People -> SUBSET InternalRole]
      BY <1>3 DEF InsertUser, At, CallInv, GoodCall
    <3>2. PICK x : /\ call' = [call EXCEPT ![c] = x] /\ x.pc = "challenge"
                   /\ \A v \in People \ {u} : /\ status'[v] = status[v]
                                              /\ roles'[v] = roles[v]
      BY <1>3, <2>2, <3>1 DEF InsertUser, About
    <3>3. \A v \in People : Owner(v) /\ Active(v) => Owner(v)' /\ Active(v)'
      BY <2>2, <3>1, <3>2 DEF Owner, Active
    <3>4. call'[c] = x /\ \A d \in Calls \ {c} : call'[d] = call[d]
      BY <3>2 DEF CallInv
    <3>5. ASSUME NEW d \in Calls, d # c PROVE UpdateOK(call[d])'
      <4>1. UpdateOK(call[d]) /\ (call[d].pc \in UpdatePcs => call[d].user \in People)
        BY DEF UpdatesOK, CallInv, GoodCall, UpdatePcs
      <4>2. CASE call[d].pc \in UpdatePcs /\ ~call[d].overtaken
        <5>1. call[d].user \in People \ {u}
          BY <2>2, <4>1, <4>2 DEF UpdateOK
        <5>2. \A w \in People : OtherOwners(w) # {} => OtherOwners(w)' # {}
          BY <3>3 DEF OtherOwners
        <5> QED
          BY <3>2, <3>4, <3>5, <4>1, <5>1, <5>2 DEF UpdateOK, Active, Owner
      <4>3. CASE ~(call[d].pc \in UpdatePcs /\ ~call[d].overtaken)
        BY <3>4, <3>5, <4>3 DEF UpdateOK
      <4> QED
        BY <4>2, <4>3
    <3>6. UpdateOK(call[c])'
      BY <3>2, <3>4 DEF UpdateOK, UpdatePcs
    <3> QED
      BY <3>3, <3>5, <3>6 DEF UpdatesOK
  <2> QED
    BY <1>3, <2>1, <2>2 DEF InsertUser
<1> QED
  BY <1>1, <1>2, <1>3 DEF Joining

\* An update that only reads: what it finds is still so when it writes.
LEMMA ReadingUpdates ==
    ASSUME CallInv, UpdatesOK, NEW c \in Calls, Updating(c), ~WriteUser(c)
    PROVE  UpdatesOK' /\ UNCHANGED <<status, roles>>
<1>1. UNCHANGED <<status, roles>>
  BY DEF Updating, UpdateUser, ReadTarget, ReadRoles, CountOwners, accounts
<1>2. call[c] \in Call /\ UpdateOK(call[c])
  BY DEF CallInv, GoodCall, UpdatesOK
<1>3. ASSUME NEW a \in OwnerActors, NEW u \in People, NEW rs \in RoleSets \cup {{}},
             NEW st \in {"active", "disabled", None}, UpdateUser(c, a, u, rs, st)
      PROVE  UpdatesOK'
  <2> DEFINE x == [About(u, "target", rs, "verify_email")
                      EXCEPT !.self = (a = u), !.status = st]
  <2>1. call' = [call EXCEPT ![c] = x]
    BY <1>3 DEF UpdateUser
  <2>2. x.pc = "target"
    BY DEF About
  <2> HIDE DEF x
  <2> QED
    BY <1>1, <2>1, <2>2, UpdateMoves DEF UpdateOK, UpdatePcs
<1>4. CASE ReadTarget(c)
  <2>1. PICK x : x = [call[c] EXCEPT !.pc = "roles", !.was = status[call[c].user]]
    OBVIOUS
  <2>2. x.pc = "roles" /\ x.user = call[c].user /\ x.was = status[call[c].user]
    BY <1>2, <2>1 DEF Call
  <2>4. \/ Return(c)
        \/ status[call[c].user] # "none" /\ call' = [call EXCEPT ![c] = x]
    BY <1>4, <2>1 DEF ReadTarget
  <2> QED
    BY <1>1, <2>2, <2>4, UpdateReturns, UpdateMoves DEF UpdateOK
<1>5. CASE ReadRoles(c)
  <2> DEFINE u == call[c].user
  <2>1. call[c].overtaken \/ (call[c].was = status[u] /\ status[u] # "none")
    BY <1>2, <1>5 DEF ReadRoles, At, UpdateOK, UpdatePcs
  <2>2. CASE Return(c)
    BY <1>1, <2>2, UpdateReturns
  <2>3. CASE ~Return(c)
    <3> DEFINE x == [pc |-> IF call[c].was = "active" /\ Owner(u) /\ Unseats(c)
                            THEN "count" ELSE "write",
                     user |-> u, self |-> FALSE, status |-> NextStatus(c),
                     roles |-> NextRoles(c), was |-> None,
                     purpose |-> "verify_email", token |-> None,
                     overtaken |-> call[c].overtaken]
    <3>1. /\ call' = [call EXCEPT ![c] = x] /\ x.user = u
          /\ x.overtaken = call[c].overtaken
          /\ x.pc = (IF call[c].was = "active" /\ Owner(u) /\ Unseats(c)
                     THEN "count" ELSE "write")
          /\ x.status = NextStatus(c) /\ x.roles = NextRoles(c)
      BY <1>5, <2>3 DEF ReadRoles
    <3> HIDE DEF x
    <3>2. x.pc = "write" => \/ x.overtaken
                            \/ x.status = "active" /\ "owner" \in x.roles
                            \/ ~Active(x.user) \/ ~Owner(x.user)
      BY <2>1, <3>1 DEF Unseats, Active
    <3> QED
      BY <1>1, <2>1, <3>1, <3>2, UpdateMoves DEF UpdateOK
  <2> QED
    BY <2>2, <2>3
<1>6. CASE CountOwners(c)
  <2>1. PICK x : x = [call[c] EXCEPT !.pc = "write"]
    OBVIOUS
  <2>2. x.pc = "write" /\ x.user = call[c].user /\ x.overtaken = call[c].overtaken
    BY <1>2, <2>1 DEF Call
  <2>3. call[c].pc = "count"
    BY <1>6 DEF CountOwners, At
  <2>4. \/ Return(c)
        \/ OtherOwners(call[c].user) # {} /\ call' = [call EXCEPT ![c] = x]
    BY <1>6, <2>1 DEF CountOwners, Goto
  <2> QED
    BY <1>1, <1>2, <2>2, <2>3, <2>4, UpdateReturns, UpdateMoves DEF UpdateOK, UpdatePcs
<1> QED
  BY <1>1, <1>3, <1>4, <1>5, <1>6 DEF Updating

\* The write leaves an owner unless it was overtaken, and overtakes the rest.
LEMMA WritingUpdates ==
    ASSUME CallInv, UpdatesOK, NEW c \in Calls, WriteUser(c)
    PROVE  /\ UpdatesOK'
           /\ AnOwnerIsActive => AnOwnerIsActive' \/ call[c].overtaken
<1> DEFINE u == call[c].user
<1>1. /\ call[c].pc = "write" /\ u \in People /\ UpdateOK(call[c])
      /\ status \in [People -> {"none", "active", "disabled"}]
      /\ roles \in [People -> SUBSET InternalRole]
  BY DEF WriteUser, At, CallInv, GoodCall, UpdatesOK
<1>2. /\ status'[u] = call[c].status /\ roles'[u] = call[c].roles
      /\ \A v \in People \ {u} : status'[v] = status[v] /\ roles'[v] = roles[v]
  BY <1>1 DEF WriteUser
<1>3. UpdatesOK'
  <2>1. \A d \in Calls : call'[d].pc \in UpdatePcs => call'[d].overtaken
    BY WriteOvertakes DEF UpdatePcs
  <2> QED
    BY <2>1 DEF UpdatesOK, UpdateOK
<1>4. ASSUME NEW v \in People, Owner(v), Active(v), ~call[c].overtaken
      PROVE  \E w \in People : Owner(w)' /\ Active(w)'
  <2>1. \/ call[c].status = "active" /\ "owner" \in call[c].roles
        \/ v # u \/ OtherOwners(u) # {}
    BY <1>1, <1>4 DEF UpdateOK, UpdatePcs
  <2>2. CASE call[c].status = "active" /\ "owner" \in call[c].roles
    BY <1>1, <1>2, <2>2 DEF Owner, Active
  <2>3. ASSUME NEW w \in People \ {u}, Owner(w), Active(w)
        PROVE  Owner(w)' /\ Active(w)'
    BY <1>2, <2>3 DEF Owner, Active
  <2> QED
    BY <1>4, <2>1, <2>2, <2>3 DEF OtherOwners
<1> QED
  BY <1>3, <1>4 DEF AnOwnerIsActive

\* However many updates are in flight, the last active owner is lost only by
\* the write of one that another overtook after its first read; sign-ins,
\* invitations and bootstraps never mislead it (internal-auth.ts, updateUser).
THEOREM OwnerLostOnlyByOverlap == Spec => OwnerLostOnlyToOverlap
<1> DEFINE Lost == \E c \in Calls : call[c].overtaken /\ WriteUser(c)
           Remains == AnOwnerIsActive => AnOwnerIsActive' \/ Lost
<1>1. Init => UpdatesOK
  <2> SUFFICES ASSUME Init PROVE UpdatesOK
    OBVIOUS
  <2>1. \A c \in Calls : call[c].pc = "idle"
    BY IdleIsGood DEF Init
  <2> QED
    BY <2>1 DEF UpdatesOK, UpdateOK, UpdatePcs
<1>2. CallInv /\ UpdatesOK /\ [Next]_vars => UpdatesOK' /\ [Remains]_vars
  <2> SUFFICES ASSUME CallInv, UpdatesOK, [Next]_vars PROVE UpdatesOK' /\ Remains
    OBVIOUS
  <2>0. UNCHANGED <<status, roles>> => Remains
    BY DEF AnOwnerIsActive, Owner, Active
  <2>1. CASE UNCHANGED <<status, roles, call>>
    BY <2>0, <2>1 DEF UpdatesOK, UpdateOK, Active, Owner, OtherOwners
  <2>2. ASSUME NEW c \in Calls, Linking(c) \/ Inviting(c) PROVE UpdatesOK' /\ Remains
    <3>1. UNCHANGED <<status, roles>>
      BY <2>2 DEF Linking, Inviting, CreateChallenge, SendLink, Withdraw,
         ResendInvitation, FindInvitee, RequestSignIn, FindRecent, accounts
    <3> QED
      BY <2>0, <2>2, <3>1, LinkingUpdates
  <2>3. ASSUME NEW c \in Calls, Joining(c) PROVE UpdatesOK' /\ Remains
    BY <2>3, JoiningUpdates DEF AnOwnerIsActive
  <2>4. ASSUME NEW c \in Calls, Updating(c) PROVE UpdatesOK' /\ Remains
    <3>1. CASE WriteUser(c)
      BY <3>1, WritingUpdates
    <3>2. CASE ~WriteUser(c)
      BY <2>0, <2>4, <3>2, ReadingUpdates
    <3> QED
      BY <3>1, <3>2
  <2> HIDE DEF Remains
  <2> QED
    BY <2>1, <2>2, <2>3, <2>4 DEF Next, Time, GrowOld, PruneSessions, PruneChallenges,
       Verify, Logout, accounts, vars
<1> QED
  BY <1>1, <1>2, CallsStart, LinksStart, IdentityStep, PTL
  DEF Spec, OwnerLostOnlyToOverlap
=============================================================================
