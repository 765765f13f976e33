------------------------------- MODULE Identity ------------------------------
(***************************************************************************)
(* Internals accounts: workers/control-plane/src/internal-auth.ts, with    *)
(* pruneExpiredIdentity of resource-retention.ts.                          *)
(*                                                                         *)
(* Owners are bootstrapped, people invited, and one-time links mailed to   *)
(* them; a link opens a session, a session authorises calls, and accounts  *)
(* are updated while all of this is under way.  Every await is a step      *)
(* boundary and a D1 batch is one step.  Time shows as events: a link or a *)
(* session grows old.                                                      *)
(***************************************************************************)
EXTENDS Naturals, FiniteSets

CONSTANTS
    People,       \* by email address, which is unique
    Established,  \* verified owners, signed in when the behaviour starts
    Tokens,       \* the links that may be mailed
    Sessions,     \* the sessions that may be opened
    Calls, Does,  \* requests in flight; [Calls -> SUBSET Operation]
    RoleSets,     \* the role lists that requests ask for
    Ageing,       \* the links and sessions that grow old
    Legacy,       \* INTERNAL_AUTH_MODE still admits the administrator token
    None,         \* SQL NULL
    Faults        \* {"mail_fails"} or {}

InternalRole == {"owner", "operator", "researcher", "review_coordinator",
                 "reviewer", "adjudicator", "release_approver"}
Operation == {"bootstrap", "invite", "resend", "sign_in", "update"}
Admin == "legacy_admin"
\* The session an established owner starts with bears the owner's name.
SessionIds == Sessions \cup Established

ASSUME IdentityAssumption ==
    /\ Established \subseteq People
    /\ Does \in [Calls -> SUBSET Operation]
    /\ RoleSets \subseteq (SUBSET InternalRole) \ {{}}
    /\ Ageing \subseteq Tokens \cup SessionIds
    /\ Legacy \in BOOLEAN
    /\ IsFiniteSet(People)
    /\ None \notin People \cup Tokens \cup SessionIds
    /\ Sessions \cap Established = {} /\ Tokens \cap SessionIds = {}
    /\ Admin \notin People
    /\ Faults \subseteq {"mail_fails"}

VARIABLES
    \* internal_users and internal_user_roles
    status, verified, roles, joined,
    \* internal_auth_challenges; links that reached their mailbox
    challenge, mailed,
    \* internal_sessions
    session,
    age,          \* of links and sessions, see Old and Expired
    gone,         \* links and sessions whose rows were pruned
    pruning,      \* a pruning has yet to do the challenges
    call          \* the requests in flight

accounts == <<status, verified, roles, joined>>
links == <<challenge, mailed>>
clocks == <<age, gone, pruning>>
vars == <<accounts, links, session, clocks, call>>

Challenge == [user : People \cup {None}, purpose : {"verify_email", "sign_in"},
              consumed : BOOLEAN, by : SessionIds \cup {None}]
Session == [user : People \cup {None}, link : Tokens \cup {None}, revoked : BOOLEAN]
Call == [pc : {"idle", "exists", "insert", "target", "roles", "count", "write",
               "invitee", "recent", "challenge", "send", "withdraw"},
         user : People \cup {None},
         self : BOOLEAN,        \* the actor of an update is its target
         status : {"active", "disabled", None}, roles : SUBSET InternalRole,
         was : {"active", "disabled", None},
         purpose : {"verify_email", "sign_in"}, token : Tokens \cup {None},
         overtaken : BOOLEAN]   \* auxiliary, see WriteUser

\* A request about u that has read nothing yet
About(u, pc, rs, purpose) ==
    [pc |-> pc, user |-> u, self |-> FALSE, status |-> None, roles |-> rs,
     was |-> None, purpose |-> purpose, token |-> None, overtaken |-> FALSE]

Idle == About(None, "idle", {}, "verify_email")

IdentityTypeOK ==
    /\ status \in [People -> {"none", "active", "disabled"}]
    /\ verified \subseteq People
    /\ roles \in [People -> SUBSET InternalRole]
    /\ joined \in [People -> Nat]
    /\ challenge \in [Tokens -> Challenge] /\ mailed \subseteq Tokens
    /\ session \in [SessionIds -> Session]
    /\ age \in [Tokens \cup SessionIds -> 0..3]
    /\ gone \subseteq Tokens \cup SessionIds
    /\ pruning \in BOOLEAN
    /\ call \in [Calls -> Call]
    /\ \A u \in People : status[u] # "none" => roles[u] # {}

Init ==
    /\ status = [u \in People |-> IF u \in Established THEN "active" ELSE "none"]
    /\ verified = Established
    /\ roles = [u \in People |-> IF u \in Established THEN {"owner"} ELSE {}]
    /\ joined = [u \in People |-> IF u \in Established THEN 1 ELSE 0]
    /\ challenge = [t \in Tokens |-> [user |-> None, purpose |-> "verify_email",
                                      consumed |-> FALSE, by |-> None]]
    /\ mailed = {}
    /\ session = [s \in SessionIds |->
          [user |-> IF s \in Established THEN s ELSE None,
           link |-> None, revoked |-> FALSE]]
    /\ age = [o \in Tokens \cup SessionIds |-> IF o \in Tokens THEN 0 ELSE 1]
    /\ gone = {} /\ pruning = FALSE
    /\ call = [c \in Calls |-> Idle]

Active(u) == status[u] = "active"
Owner(u) == "owner" \in roles[u]

-----------------------------------------------------------------------------
(***************************************************************************)
(* Age: 0 within a minute, 1 older, 2 expired, 3 a week past expiry.  The  *)
(* first minute matters to links only.                                     *)
(***************************************************************************)
Expired(o) == age[o] >= 2

GrowOld(o) ==
    /\ o \in Ageing \ gone /\ age[o] < 3
    /\ IF o \in Tokens THEN challenge[o].user # None ELSE session[o].user # None
    /\ age' = [age EXCEPT ![o] = @ + 1]
    /\ UNCHANGED <<accounts, links, session, gone, pruning, call>>

\* pruneExpiredIdentity: first the sessions.
PruneSessions ==
    /\ ~pruning /\ pruning' = TRUE
    /\ gone' = gone \cup {s \in SessionIds : age[s] = 3}
    /\ UNCHANGED <<accounts, links, session, age, call>>

Kept(t) == challenge[t].by # None /\ challenge[t].by \notin gone
                                  /\ ~Expired(challenge[t].by)

\* Then the links, unless a session they opened is still valid.
PruneChallenges ==
    /\ pruning /\ pruning' = FALSE
    /\ gone' = gone \cup {t \in Tokens : age[t] = 3 /\ ~Kept(t)}
    /\ UNCHANGED <<accounts, links, session, age, call>>

-----------------------------------------------------------------------------
(***************************************************************************)
(* Who may act                                                             *)
(***************************************************************************)

\* resolveInternalUser: the session's row, its user and the user's roles.
Resolves(s) ==
    LET u == session[s].user
    IN  /\ u # None /\ s \notin gone
        /\ ~session[s].revoked /\ ~Expired(s)
        /\ Active(u) /\ u \in verified /\ roles[u] # {}

\* resolveInternalActor
Actors == {session[s].user : s \in {x \in SessionIds : Resolves(x)}}
          \cup {a \in {Admin} : Legacy}

\* ownerRequired
OwnerActors == {a \in Actors : a = Admin \/ Owner(a)}

Readers == {"operator", "researcher", "review_coordinator", "release_approver"}

\* Mutant: a decision counts as one more write.
GrantedWrite(area, act) ==
    IF area \in {"registry", "ground-truth"} THEN {"researcher", "release_approver"}
                                             ELSE {}

\* canAccessInternals, for everyone but owners and the administrator.
Granted(area, act) ==
    CASE area = "overview" -> InternalRole
      [] area = "operations" -> {"operator"}
      [] area \in {"sample-library", "runners"} -> Readers \ {"release_approver"}
      [] area = "frame-sets" -> Readers
      [] area = "reference-benchmarks" -> IF act = "read" THEN Readers ELSE {}
      [] area = "registry" ->         \* models and releases
           IF act = "read" THEN Readers \ {"review_coordinator"}
           ELSE IF act = "decide" THEN {"release_approver"} ELSE {"researcher"}
      [] area \in {"reviewers", "review-campaigns"} -> {"review_coordinator"}
      [] area = "pipelines" ->
           IF act = "read" THEN Readers ELSE Readers \ {"release_approver"}
      [] area = "evaluations" ->
           IF act = "read" THEN Readers \ {"review_coordinator"}
                           ELSE {"researcher", "operator"}
      [] area \in {"datasets", "sampling-jobs"} ->
           IF act = "read" THEN Readers ELSE {"operator"}
      [] area \in {"policies", "templates"} ->
           IF act = "read" THEN Readers \ {"operator"} ELSE {"researcher"}
      [] area = "ground-truth" ->
           IF act = "read" THEN Readers \ {"operator"}
           ELSE IF act = "validate" THEN {"researcher"} ELSE {"release_approver"}
      [] OTHER -> {}

CanAccess(u, area, act) == Owner(u) \/ roles[u] \cap Granted(area, act) # {}

-----------------------------------------------------------------------------
(***************************************************************************)
(* One-time links: sendChallengeResponse, the tail of four operations      *)
(***************************************************************************)

At(c, pc) == call[c].pc = pc
Goto(c, pc) == call' = [call EXCEPT ![c].pc = pc]
Return(c) == call' = [call EXCEPT ![c] = Idle]
Begin(c, op) == At(c, "idle") /\ op \in Does[c]

\* createChallenge
CreateChallenge(c, t) ==
    /\ At(c, "challenge")
    /\ challenge[t].user = None
    /\ challenge' = [challenge EXCEPT ![t] =
          [user |-> call[c].user, purpose |-> call[c].purpose,
           consumed |-> FALSE, by |-> None]]
    /\ call' = [call EXCEPT ![c] = [@ EXCEPT !.pc = "send", !.token = t]]
    /\ UNCHANGED <<accounts, mailed, session, clocks>>

\* sendLink: a failing send may have delivered the mail all the same.
SendLink(c) ==
    /\ At(c, "send")
    /\ \/ mailed' = mailed \cup {call[c].token} /\ Return(c)
       \/ /\ "mail_fails" \in Faults
          /\ mailed' \in {mailed, mailed \cup {call[c].token}}
          /\ Goto(c, "withdraw")
    /\ UNCHANGED <<accounts, challenge, session, clocks>>

\* The catch: WHERE token_hash = ? AND consumed_at IS NULL
Withdraw(c) ==
    LET t == call[c].token
    IN  /\ At(c, "withdraw")
        /\ challenge' = IF t \in gone THEN challenge
                        ELSE [challenge EXCEPT ![t].consumed = TRUE]
        /\ Return(c)
        /\ UNCHANGED <<accounts, mailed, session, clocks>>

-----------------------------------------------------------------------------
(***************************************************************************)
(* verifyChallenge: one batch of four statements                           *)
(***************************************************************************)

\* Mutant: a link that was used still counts.
ConsumableAgain(t) == /\ t \notin gone /\ ~Expired(t)
                      /\ Active(challenge[t].user)

Consumable(t) == /\ t \notin gone /\ ~challenge[t].consumed /\ ~Expired(t)
                 /\ Active(challenge[t].user)

\* Mutant: the account is found by the link alone, whoever consumed it.
ProvesUnconsumed(t) == challenge[t].purpose = "verify_email"

\* The account's email is proved by the link this batch has consumed.
Proves(t) == Consumable(t) /\ challenge[t].purpose = "verify_email"

Verify(t, s) ==
    LET u == challenge[t].user
    IN  /\ t \in mailed /\ session[s].user = None
        /\ challenge' = [challenge EXCEPT ![t] =
              IF Consumable(t) THEN [@ EXCEPT !.consumed = TRUE, !.by = s] ELSE @]
        /\ verified' = verified \cup (IF Proves(t) /\ Active(u) THEN {u} ELSE {})
        /\ session' = [session EXCEPT ![s] =
              IF Consumable(t) /\ u \in verified'
              THEN [user |-> u, link |-> t, revoked |-> FALSE] ELSE @]
        /\ UNCHANGED <<status, roles, joined, mailed, clocks, call>>

\* handleIdentityApi, logout
Logout(s) ==
    /\ session[s].user # None /\ s \notin gone
    /\ session' = [session EXCEPT ![s].revoked = TRUE]
    /\ UNCHANGED <<accounts, links, clocks, call>>

-----------------------------------------------------------------------------
(***************************************************************************)
(* New accounts: bootstrap and createUser                                  *)
(***************************************************************************)

\* Owners of any status, the eldest first.
FirstOwner(u) == Owner(u) /\ \A v \in People : Owner(v) => joined[u] <= joined[v]

\* The bootstrap credential is ADMIN_TOKEN, whatever the mode.
Bootstrap(c, u) ==
    /\ Begin(c, "bootstrap")
    /\ \/ /\ ~\E v \in People : Owner(v)
          /\ call' = [call EXCEPT ![c] =
                About(u, "exists", {"owner"}, "verify_email")]
       \/ /\ FirstOwner(u) /\ u \notin verified
          /\ call' = [call EXCEPT ![c] = About(u, "challenge", {}, "verify_email")]
    /\ UNCHANGED <<accounts, links, session, clocks>>

CreateUser(c, u, rs) ==
    /\ Begin(c, "invite") /\ OwnerActors # {}
    /\ call' = [call EXCEPT ![c] = About(u, "exists", rs, "verify_email")]
    /\ UNCHANGED <<accounts, links, session, clocks>>

\* SELECT id FROM internal_users WHERE email = ?
CheckEmail(c) ==
    /\ At(c, "exists")
    /\ IF status[call[c].user] = "none" THEN Goto(c, "insert") ELSE Return(c)
    /\ UNCHANGED <<accounts, links, session, clocks>>

\* The batch fails when another call took the address meanwhile.
InsertUser(c) ==
    LET u == call[c].user
    IN  /\ At(c, "insert")
        /\ \/ /\ status[u] = "none"
              /\ status' = [status EXCEPT ![u] = "active"]
              /\ roles' = [roles EXCEPT ![u] = call[c].roles]
              /\ joined' = [joined EXCEPT ![u] =
                    1 + Cardinality({v \in People : status[v] # "none"})]
              /\ call' = [call EXCEPT ![c] = About(u, "challenge", {}, "verify_email")]
           \/ /\ status[u] # "none" /\ Return(c)
              /\ UNCHANGED <<status, roles, joined>>
        /\ UNCHANGED <<verified, links, session, clocks>>

-----------------------------------------------------------------------------
(***************************************************************************)
(* New links: resendInvitation and requestSignIn                           *)
(***************************************************************************)

ResendInvitation(c, u) ==
    /\ Begin(c, "resend") /\ OwnerActors # {}
    /\ call' = [call EXCEPT ![c] = About(u, "invitee", {}, "verify_email")]
    /\ UNCHANGED <<accounts, links, session, clocks>>

FindInvitee(c) ==
    /\ At(c, "invitee")
    /\ IF Active(call[c].user) /\ call[c].user \notin verified
       THEN Goto(c, "challenge") ELSE Return(c)
    /\ UNCHANGED <<accounts, links, session, clocks>>

RequestSignIn(c, u) ==
    /\ Begin(c, "sign_in")
    /\ Active(u) /\ u \in verified
    /\ call' = [call EXCEPT ![c] = About(u, "recent", {}, "sign_in")]
    /\ UNCHANGED <<accounts, links, session, clocks>>

\* At most one unused sign-in link a minute, as far as this read can tell.
FindRecent(c) ==
    /\ At(c, "recent")
    /\ IF \E t \in Tokens \ gone :
             /\ challenge[t].user = call[c].user /\ challenge[t].purpose = "sign_in"
             /\ age[t] = 0 /\ ~challenge[t].consumed
       THEN Return(c) ELSE Goto(c, "challenge")
    /\ UNCHANGED <<accounts, links, session, clocks>>

-----------------------------------------------------------------------------
(***************************************************************************)
(* updateUser: four reads, then one batch                                  *)
(***************************************************************************)

\* {} or None stands for a field the request leaves out; without either only
\* the display name changes.
UpdateUser(c, a, u, rs, st) ==
    /\ Begin(c, "update") /\ a \in OwnerActors
    /\ call' = [call EXCEPT ![c] =
          [About(u, "target", rs, "verify_email") EXCEPT !.self = (a = u), !.status = st]]
    /\ UNCHANGED <<accounts, links, session, clocks>>

ReadTarget(c) ==
    LET u == call[c].user
    IN  /\ At(c, "target")
        /\ IF status[u] = "none" THEN Return(c)
           ELSE call' = [call EXCEPT ![c] =
                   [@ EXCEPT !.pc = "roles", !.was = status[u]]]
        /\ UNCHANGED <<accounts, links, session, clocks>>

\* nextStatus and nextRoles keep what was read for what was not asked.
NextStatus(c) == IF call[c].status = None THEN call[c].was ELSE call[c].status

NextRoles(c) == IF call[c].roles = {} THEN roles[call[c].user] ELSE call[c].roles

\* The update would leave its user without active ownership.
Unseats(c) == NextStatus(c) # "active" \/ "owner" \notin NextRoles(c)

ReadRoles(c) ==
    LET u == call[c].user
    IN  /\ At(c, "roles")
        /\ IF call[c].self /\ Unseats(c) THEN Return(c)  \* cannot_remove_self
           ELSE call' = [call EXCEPT ![c] =
                   [pc |-> IF call[c].was = "active" /\ Owner(u) /\ Unseats(c)
                           THEN "count" ELSE "write",
                    user |-> u, self |-> FALSE, status |-> NextStatus(c),
                    roles |-> NextRoles(c), was |-> None,
                    purpose |-> "verify_email", token |-> None,
                    overtaken |-> call[c].overtaken]]
        /\ UNCHANGED <<accounts, links, session, clocks>>

\* Mutant: the account itself is counted.
OtherOwnersAll(u) == {v \in People : Owner(v) /\ Active(v)}

OtherOwners(u) == {v \in People \ {u} : Owner(v) /\ Active(v)}

CountOwners(c) ==
    /\ At(c, "count")
    /\ IF OtherOwners(call[c].user) = {} THEN Return(c) ELSE Goto(c, "write")
    /\ UNCHANGED <<accounts, links, session, clocks>>

\* Mutant: disabling an account leaves its sessions alone.
RevokesNever(s, c) == FALSE

Revokes(s, c) == call[c].status = "disabled" /\ session[s].user = call[c].user
                 /\ s \notin gone

\* Other updates under way have read an account list that is gone.
WriteUser(c) ==
    LET u == call[c].user
    IN  /\ At(c, "write")
        /\ status' = [status EXCEPT ![u] = call[c].status]
        /\ roles' = [roles EXCEPT ![u] = call[c].roles]
        /\ session' = [s \in SessionIds |->
              [session[s] EXCEPT !.revoked = @ \/ Revokes(s, c)]]
        /\ call' = [d \in Calls |->
              IF d = c THEN Idle
              ELSE [call[d] EXCEPT !.overtaken =
                       @ \/ call[d].pc \in {"roles", "count", "write"}]]
        /\ UNCHANGED <<verified, joined, links, clocks>>

-----------------------------------------------------------------------------
Time == (\E o \in Tokens \cup SessionIds : GrowOld(o))
        \/ PruneSessions \/ PruneChallenges

Linking(c) == (\E t \in Tokens : CreateChallenge(c, t)) \/ SendLink(c) \/ Withdraw(c)

Joining(c) ==
    \/ \E u \in People : Bootstrap(c, u)
    \/ \E u \in People, rs \in RoleSets : CreateUser(c, u, rs)
    \/ CheckEmail(c) \/ InsertUser(c)

Inviting(c) ==
    \/ \E u \in People : ResendInvitation(c, u)
    \/ FindInvitee(c)
    \/ \E u \in People : RequestSignIn(c, u)
    \/ FindRecent(c)

Updating(c) ==
    \/ \E a \in OwnerActors, u \in People, rs \in RoleSets \cup {{}},
          st \in {"active", "disabled", None} : UpdateUser(c, a, u, rs, st)
    \/ ReadTarget(c) \/ ReadRoles(c) \/ CountOwners(c) \/ WriteUser(c)

Next ==
    \/ Time
    \/ \E t \in Tokens, s \in Sessions : Verify(t, s)
    \/ \E s \in SessionIds : Logout(s)
    \/ \E c \in Calls : Linking(c) \/ Joining(c) \/ Inviting(c) \/ Updating(c)

Spec == Init /\ [][Next]_vars

-----------------------------------------------------------------------------
(***************************************************************************)
(* Properties                                                              *)
(***************************************************************************)

\* A link opens at most one session, for the person it was mailed to, and a
\* link that was withdrawn after its mail failed opens none afterwards
\* (consumed_by_session_id, verifyChallenge and sendChallengeResponse).
LinkUsedOnce ==
    \A s \in Sessions : session[s].user # None =>
        LET t == session[s].link
        IN  challenge[t] = [user |-> session[s].user,
                            purpose |-> challenge[t].purpose,
                            consumed |-> TRUE, by |-> s]

\* A disabled account has no session that could come back to life when the
\* account is enabled again, whichever link was being used when it was
\* disabled (updateUser against verifyChallenge).
DisabledHasNoSession ==
    \A s \in SessionIds :
        (session[s].user # None /\ ~session[s].revoked /\ s \notin gone) =>
            Active(session[s].user)

\* An email address counts as verified only because its own verification link
\* was used, never by a link that expired or was withdrawn (verifyChallenge).
VerifiedByMail ==
    \A u \in verified \ Established :
        \E t \in mailed : /\ challenge[t].user = u /\ challenge[t].by # None
                          /\ challenge[t].purpose = "verify_email"

AnOwnerIsActive == \E u \in People : Owner(u) /\ Active(u)

\* "at least one active owner must remain" (updateUser): only an update that
\* another update's batch came in between of, after its first read, can take
\* the last active ownership.  What one update reads over its awaits protects
\* its own write, whatever sign-ins, invitations and bootstraps do meanwhile.
OwnerLostOnlyToOverlap ==
    [][AnOwnerIsActive =>
          \/ AnOwnerIsActive'
          \/ \E c \in Calls : call[c].overtaken /\ WriteUser(c)]_vars

\* What the message itself says, which updates that overlap break.
OwnerRemains == [][AnOwnerIsActive => AnOwnerIsActive']_vars

\* Registering evidence and deciding on it are separate duties: nobody but an
\* owner does both with a single role (canAccessInternals).
DutiesSeparated ==
    \A u \in People : \A area \in {"registry", "ground-truth"} :
        (/\ CanAccess(u, area, IF area = "registry" THEN "write" ELSE "validate")
         /\ CanAccess(u, area, "decide"))
        => Owner(u) \/ Cardinality(roles[u]) > 1
=============================================================================
