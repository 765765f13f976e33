---------------------- MODULE ObjectRegistrationProofs ----------------------
(***************************************************************************)
(* Proofs about ObjectRegistration, for any number of attempts, uploads,   *)
(* sweeps, policies and clerks: what is registered keeps its object if D1  *)
(* reports the outcome of every batch, a policy version is only ever       *)
(* withdrawn further, and what a registration answered for stands.         *)
(***************************************************************************)
EXTENDS ObjectRegistration, TLAPS

(***************************************************************************)
(* Policies                                                                *)
(***************************************************************************)
ClerkShape == [pc : {"idle", "insert", "recover", "update"},
               policy : Policies \cup {None}, definition : Definitions \cup {None},
               next : {"none", "deprecated", "retired"}, revision : Nat]

PolicyShape == [status : {"none", "active", "deprecated", "retired"},
                definition : Definitions \cup {None}, revision : Nat]

\* A policy call about to write knows its policy; an update that still finds
\* the revision it read finds the status it read, or one as early.
ClerkOK(c) ==
    /\ clerk[c].pc \in {"insert", "recover"} =>
          clerk[c].policy \in Policies /\ clerk[c].definition \in Definitions
    /\ clerk[c].pc = "update" =>
          /\ clerk[c].policy \in Policies
          /\ clerk[c].next \in {"deprecated", "retired"}
          /\ clerk[c].revision <= policy[clerk[c].policy].revision
          /\ clerk[c].revision = policy[clerk[c].policy].revision =>
                \/ policy[clerk[c].policy].status = "active"
                \/ /\ policy[clerk[c].policy].status = "deprecated"
                   /\ clerk[c].next = "retired"

PolicyInv ==
    /\ policy \in [Policies -> PolicyShape]
    /\ clerk \in [Clerks -> ClerkShape]
    /\ \A c \in Clerks : ClerkOK(c)

\* Answers: none for a version that is not there.
AnswerInv ==
    /\ promised = [p \in Policies |-> promised[p]]
    /\ \A p \in Policies :
          /\ promised[p] \subseteq {policy[p].definition}
          /\ policy[p].status = "none" => promised[p] = {}
    /\ \A c \in Clerks : clerk[c].pc = "update" =>
          policy[clerk[c].policy].status # "none"

LEMMA PolicyInit == RegistrationInit => PolicyInv /\ AnswerInv
<1> SUFFICES ASSUME RegistrationInit PROVE PolicyInv /\ AnswerInv
  OBVIOUS
<1>1. /\ policy = [p \in Policies |->
                     [status |-> "none", definition |-> None, revision |-> 0]]
      /\ promised = [p \in Policies |-> {}]
      /\ clerk = [c \in Clerks |-> IdleClerk]
  BY DEF RegistrationInit
<1>2. policy \in [Policies -> PolicyShape]
  BY <1>1 DEF PolicyShape
<1>3. IdleClerk \in ClerkShape /\ IdleClerk.pc = "idle"
  BY DEF IdleClerk, ClerkShape
<1>4. /\ clerk \in [Clerks -> ClerkShape]
      /\ \A c \in Clerks : clerk[c].pc = "idle"
  BY <1>1, <1>3
<1>5. \A c \in Clerks : ClerkOK(c)
  BY <1>4 DEF ClerkOK
<1> QED
  BY <1>1, <1>2, <1>4, <1>5 DEF PolicyInv, AnswerInv

LEMMA PolicyStutter ==
    ASSUME PolicyInv, AnswerInv, UNCHANGED policyVars
    PROVE  PolicyInv' /\ AnswerInv'
  BY DEF PolicyInv, AnswerInv, ClerkOK, policyVars

\* A clerk that is idle afterwards, or has just read a row.
LEMMA ClerkMoves ==
    ASSUME PolicyInv, AnswerInv, policy' = policy, NEW c \in Clerks,
           NEW x \in ClerkShape, clerk' = [clerk EXCEPT ![c] = x],
           ClerkOK(c)',
           promised' = [p \in Policies |-> promised'[p]],
           \A p \in Policies :
               /\ promised'[p] \subseteq {policy[p].definition}
               /\ policy[p].status = "none" => promised'[p] = {},
           x.pc = "update" => policy[x.policy].status # "none"
    PROVE  PolicyInv' /\ AnswerInv'
<1>1. clerk' \in [Clerks -> ClerkShape] /\ clerk'[c] = x
  BY DEF PolicyInv
<1>2. ASSUME NEW d \in Clerks, d # c PROVE clerk'[d] = clerk[d] /\ ClerkOK(d)'
  BY <1>2 DEF PolicyInv, ClerkOK
<1>3. PolicyInv'
  BY <1>1, <1>2 DEF PolicyInv
<1>4. \A d \in Clerks : clerk'[d].pc = "update" =>
          policy'[clerk'[d].policy].status # "none"
  BY <1>1, <1>2 DEF AnswerInv
<1> QED
  BY <1>3, <1>4 DEF AnswerInv
\* A duplicate is answered for only if it is the same definition.
LEMMA DuplicateAnswers ==
    ASSUME AnswerInv, NEW c, NEW p \in Policies, NEW d, Duplicate(c, p, d),
           policy[p].status # "none"
    PROVE  /\ promised' = [q \in Policies |-> promised'[q]]
           /\ \A q \in Policies :
                 /\ promised'[q] \subseteq {policy[q].definition}
                 /\ policy[q].status = "none" => promised'[q] = {}
<1>1. CASE policy[p].definition = d
  <2>1. promised' = [promised EXCEPT ![p] = @ \cup {d}]
    BY <1>1 DEF Duplicate
  <2>2. promised' = [q \in Policies |-> IF q = p THEN promised[p] \cup {d}
                                       ELSE promised[q]]
    BY <2>1 DEF AnswerInv
  <2> QED
    BY <1>1, <2>2 DEF AnswerInv
<1>2. CASE policy[p].definition # d
  BY <1>2 DEF Duplicate, AnswerInv
<1> QED
  BY <1>1, <1>2

LEMMA IdleClerkShape == IdleClerk \in ClerkShape /\ IdleClerk.pc = "idle"
  BY DEF IdleClerk, ClerkShape

LEMMA RegisterKeeps ==
    ASSUME PolicyInv, AnswerInv, NEW c \in Clerks, NEW p \in Policies,
           NEW d \in Definitions, RegisterPolicy(c, p, d)
    PROVE  PolicyInv' /\ AnswerInv'
<1>1. policy' = policy
  BY DEF RegisterPolicy
<1>2. CASE policy[p].status # "none"
  <2>1. Duplicate(c, p, d) /\ clerk' = clerk
    BY <1>2 DEF RegisterPolicy
  <2>2. PolicyInv'
    BY <1>1, <2>1 DEF PolicyInv, ClerkOK
  <2> QED
    BY <1>1, <1>2, <2>1, <2>2, DuplicateAnswers DEF AnswerInv
<1>3. CASE policy[p].status = "none"
  <2> DEFINE x == [pc |-> "insert", policy |-> p, definition |-> d,
                   next |-> "none", revision |-> 0]
  <2>1. x \in ClerkShape /\ x.pc = "insert" /\ x.policy = p /\ x.definition = d
    BY DEF ClerkShape
  <2>2. clerk' = [clerk EXCEPT ![c] = x] /\ promised' = promised
    BY <1>3 DEF RegisterPolicy, IdleClerk
  <2>3. clerk'[c] = x
    BY <2>2 DEF PolicyInv
  <2> HIDE DEF x
  <2>4. ClerkOK(c)'
    BY <2>1, <2>3 DEF ClerkOK
  <2> QED
    BY <1>1, <2>1, <2>2, <2>4, ClerkMoves DEF AnswerInv
<1> QED
  BY <1>2, <1>3

LEMMA ChangeKeeps ==
    ASSUME PolicyInv, AnswerInv, NEW c \in Clerks, NEW p \in Policies,
           NEW next \in {"deprecated", "retired"}, ChangePolicy(c, p, next)
    PROVE  PolicyInv' /\ AnswerInv'
<1> DEFINE x == [pc |-> "update", policy |-> p, definition |-> None,
                 next |-> next, revision |-> policy[p].revision]
<1>1. policy[p] \in PolicyShape /\ policy[p].revision \in Nat
  BY DEF PolicyInv, PolicyShape
<1>2. /\ x \in ClerkShape /\ x.pc = "update" /\ x.policy = p /\ x.next = next
      /\ x.revision = policy[p].revision
  BY <1>1 DEF ClerkShape
<1>3. /\ clerk' = [clerk EXCEPT ![c] = x]
      /\ promised' = promised /\ policy' = policy
      /\ \/ policy[p].status = "active"
         \/ policy[p].status = "deprecated" /\ next = "retired"
  BY DEF ChangePolicy
<1>4. clerk'[c] = x
  BY <1>3 DEF PolicyInv
<1> HIDE DEF x
<1>5. ClerkOK(c)'
  BY <1>1, <1>2, <1>3, <1>4 DEF ClerkOK
<1>6. policy[p].status # "none"
  BY <1>3
<1> QED
  BY <1>2, <1>3, <1>5, <1>6, ClerkMoves DEF AnswerInv

LEMMA RecoverKeeps ==
    ASSUME PolicyInv, AnswerInv, NEW c \in Clerks, RecoverPolicy(c)
    PROVE  PolicyInv' /\ AnswerInv'
<1>1. clerk[c].policy \in Policies
  BY DEF RecoverPolicy, PolicyInv, ClerkOK
<1>2. clerk' = [clerk EXCEPT ![c] = IdleClerk] /\ policy' = policy
  BY DEF RecoverPolicy
<1>3. clerk'[c] = IdleClerk /\ ClerkOK(c)'
  BY <1>2, IdleClerkShape DEF PolicyInv, ClerkOK
<1>4. /\ promised' = [q \in Policies |-> promised'[q]]
      /\ \A q \in Policies :
            /\ promised'[q] \subseteq {policy[q].definition}
            /\ policy[q].status = "none" => promised'[q] = {}
  <2>1. CASE policy[clerk[c].policy].status = "none"
    BY <2>1 DEF RecoverPolicy, AnswerInv
  <2>2. CASE policy[clerk[c].policy].status # "none"
    BY <1>1, <2>2, DuplicateAnswers DEF RecoverPolicy
  <2> QED
    BY <2>1, <2>2
<1> QED
  BY <1>2, <1>3, <1>4, IdleClerkShape, ClerkMoves

\* A version that is there, and a clerk that is done with it.
LEMMA InsertKeeps ==
    ASSUME PolicyInv, AnswerInv, NEW c \in Clerks, InsertPolicy(c)
    PROVE  PolicyInv' /\ AnswerInv'
<1> DEFINE p == clerk[c].policy
           d == clerk[c].definition
           row == [status |-> "active", definition |-> d, revision |-> 0]
<1>1. p \in Policies /\ d \in Definitions
  BY DEF InsertPolicy, PolicyInv, ClerkOK
<1>2. PICK x : /\ x \in {IdleClerk, [clerk[c] EXCEPT !.pc = "recover"]}
               /\ clerk' = [clerk EXCEPT ![c] = x]
  BY DEF InsertPolicy
<1>3. x \in ClerkShape /\ x.pc \in {"idle", "recover"}
      /\ (x.pc = "recover" => x.policy = p /\ x.definition = d)
  BY <1>2, IdleClerkShape DEF PolicyInv, ClerkShape
<1>4. clerk'[c] = x /\ ClerkOK(c)'
  BY <1>1, <1>2, <1>3 DEF PolicyInv, ClerkOK
<1>5. CASE policy' = policy /\ promised' = promised
  BY <1>2, <1>3, <1>4, <1>5, ClerkMoves DEF AnswerInv
<1>6. CASE /\ policy[p].status = "none"
           /\ policy' = [policy EXCEPT ![p] = row]
           /\ promised' \in {promised, [promised EXCEPT ![p] = @ \cup {d}]}
  <2>1. row \in PolicyShape /\ row.status = "active" /\ row.definition = d
    BY <1>1 DEF PolicyShape
  <2> HIDE DEF row
  <2>2. policy' \in [Policies -> PolicyShape]
    BY <1>6, <2>1 DEF PolicyInv
  <2>3. \A q \in Policies : policy'[q] = (IF q = p THEN row ELSE policy[q])
    BY <1>6 DEF PolicyInv
  <2>4. \A e \in Clerks : clerk[e].pc = "update" => clerk[e].policy # p
    BY <1>6 DEF AnswerInv
  <2>5. ASSUME NEW e \in Clerks, e # c PROVE clerk'[e] = clerk[e] /\ ClerkOK(e)'
    <3>1. clerk'[e] = clerk[e]
      BY <1>2, <2>5 DEF PolicyInv
    <3>2. ClerkOK(e)
      BY DEF PolicyInv
    <3> QED
      BY <2>3, <2>4, <3>1, <3>2 DEF ClerkOK
  <2>6. clerk' \in [Clerks -> ClerkShape]
    BY <1>2, <1>3 DEF PolicyInv
  <2>7. PolicyInv'
    BY <1>4, <2>2, <2>5, <2>6 DEF PolicyInv
  <2>8. promised[p] = {}
    BY <1>1, <1>6 DEF AnswerInv
  <2>9. /\ promised' = [q \in Policies |-> promised'[q]]
        /\ \A q \in Policies :
              /\ promised'[q] \subseteq {policy'[q].definition}
              /\ policy'[q].status = "none" => promised'[q] = {}
    <3>1. CASE promised' = promised
      BY <2>1, <2>3, <2>8, <3>1 DEF AnswerInv
    <3>2. CASE promised' = [promised EXCEPT ![p] = @ \cup {d}]
      BY <1>1, <2>1, <2>3, <2>8, <3>2 DEF AnswerInv
    <3> QED
      BY <1>6, <3>1, <3>2
  <2>10. \A e \in Clerks : clerk'[e].pc = "update" =>
            policy'[clerk'[e].policy].status # "none"
    <3> SUFFICES ASSUME NEW e \in Clerks, clerk'[e].pc = "update"
                 PROVE  policy'[clerk'[e].policy].status # "none"
      OBVIOUS
    <3>1. e # c
      BY <1>3, <1>4
    <3>2. clerk'[e] = clerk[e] /\ clerk[e].policy \in Policies
      BY <2>5, <3>1 DEF PolicyInv, ClerkOK
    <3> QED
      BY <2>1, <2>3, <3>2 DEF AnswerInv
  <2> QED
    BY <2>7, <2>9, <2>10 DEF AnswerInv
<1> QED
  BY <1>5, <1>6 DEF InsertPolicy

\* The row a committed update leaves, and what it replaces.
LEMMA UpdateRow ==
    ASSUME PolicyInv, NEW c \in Clerks, UpdatePolicy(c), policy' # policy
    PROVE  LET p == clerk[c].policy
               row == [status |-> clerk[c].next, definition |-> policy[p].definition,
                       revision |-> policy[p].revision + 1]
           IN  /\ p \in Policies
               /\ policy' = [policy EXCEPT ![p] = row]
               /\ row \in PolicyShape
               /\ \/ policy[p].status = "active"
                  \/ policy[p].status = "deprecated" /\ clerk[c].next = "retired"
               /\ clerk[c].next \in {"deprecated", "retired"}
<1> DEFINE p == clerk[c].policy
<1>1. /\ p \in Policies /\ clerk[c].next \in {"deprecated", "retired"}
      /\ policy[p].revision = clerk[c].revision
      /\ policy' = [policy EXCEPT ![p].status = clerk[c].next,
                                  ![p].revision = @ + 1]
  BY DEF UpdatePolicy, CurrentPolicy, PolicyInv, ClerkOK
<1>2. \/ policy[p].status = "active"
      \/ policy[p].status = "deprecated" /\ clerk[c].next = "retired"
  BY <1>1 DEF UpdatePolicy, PolicyInv, ClerkOK
<1> HIDE DEF p
<1>3. PICK s0, d0, r0 : /\ policy[p] = [status |-> s0, definition |-> d0, revision |-> r0]
                        /\ d0 \in Definitions \cup {None} /\ r0 \in Nat
  BY <1>1 DEF PolicyInv, PolicyShape
<1>4. policy' = [policy EXCEPT ![p] =
          [status |-> clerk[c].next, definition |-> d0, revision |-> r0 + 1]]
  BY <1>1, <1>3 DEF PolicyInv
<1>5. [status |-> clerk[c].next, definition |-> d0, revision |-> r0 + 1] \in PolicyShape
  BY <1>1, <1>3 DEF PolicyShape
<1>6. policy[p].definition = d0 /\ policy[p].revision = r0
  BY <1>3
<1> QED
  BY <1>1, <1>2, <1>4, <1>5, <1>6 DEF p

LEMMA UpdateKeeps ==
    ASSUME PolicyInv, AnswerInv, NEW c \in Clerks, UpdatePolicy(c)
    PROVE  PolicyInv' /\ AnswerInv'
<1>1. clerk' = [clerk EXCEPT ![c] = IdleClerk] /\ promised' = promised
  BY DEF UpdatePolicy
<1>2. clerk'[c] = IdleClerk /\ ClerkOK(c)'
  BY <1>1, IdleClerkShape DEF PolicyInv, ClerkOK
<1>3. CASE policy' = policy
  BY <1>1, <1>2, <1>3, IdleClerkShape, ClerkMoves DEF AnswerInv
<1>4. CASE policy' # policy
  <2> DEFINE p == clerk[c].policy
             row == [status |-> clerk[c].next, definition |-> policy[p].definition,
                     revision |-> policy[p].revision + 1]
  <2>1. /\ p \in Policies /\ policy' = [policy EXCEPT ![p] = row]
        /\ row \in PolicyShape
        /\ row.status \in {"deprecated", "retired"}
        /\ row.definition = policy[p].definition
        /\ row.revision = policy[p].revision + 1
        /\ policy[p].status # "none"
    BY <1>4, UpdateRow
  <2> HIDE DEF p, row
  <2>2. policy' \in [Policies -> PolicyShape]
    BY <2>1 DEF PolicyInv
  <2>3. \A q \in Policies : policy'[q] = (IF q = p THEN row ELSE policy[q])
    BY <2>1 DEF PolicyInv
  <2>4. \A q \in Policies : policy[q].revision \in Nat
    BY DEF PolicyInv, PolicyShape
  <2>5. ASSUME NEW e \in Clerks, e # c PROVE clerk'[e] = clerk[e] /\ ClerkOK(e)'
    <3>1. clerk'[e] = clerk[e] /\ clerk[e].revision \in Nat
      BY <1>1, <2>5 DEF PolicyInv, ClerkShape
    <3>2. ClerkOK(e)
      BY DEF PolicyInv
    <3>3. CASE clerk[e].policy = p
      BY <2>1, <2>3, <2>4, <3>1, <3>2, <3>3 DEF ClerkOK
    <3>4. CASE clerk[e].policy # p
      BY <2>3, <3>1, <3>2, <3>4 DEF ClerkOK
    <3> QED
      BY <3>3, <3>4
  <2>6. PolicyInv'
    BY <1>1, <1>2, <2>2, <2>5, IdleClerkShape DEF PolicyInv
  <2>7. \A q \in Policies :
            /\ policy'[q].definition = policy[q].definition
            /\ (policy'[q].status = "none" => policy[q].status = "none")
    BY <2>1, <2>3
  <2>8. \A e \in Clerks : clerk'[e].pc = "update" =>
            policy'[clerk'[e].policy].status # "none"
    <3> SUFFICES ASSUME NEW e \in Clerks, clerk'[e].pc = "update"
                 PROVE  policy'[clerk'[e].policy].status # "none"
      OBVIOUS
    <3>1. e # c
      BY <1>2, IdleClerkShape
    <3>2. clerk'[e] = clerk[e] /\ clerk[e].policy \in Policies
      BY <2>5, <3>1 DEF PolicyInv, ClerkOK
    <3> QED
      BY <2>7, <3>2 DEF AnswerInv
  <2> QED
    BY <1>1, <2>6, <2>7, <2>8 DEF AnswerInv
<1> QED
  BY <1>3, <1>4

LEMMA PolicyNext ==
    PolicyInv /\ AnswerInv /\ [RegistrationNext]_vars => PolicyInv' /\ AnswerInv'
<1> SUFFICES ASSUME PolicyInv, AnswerInv, [RegistrationNext]_vars
             PROVE  PolicyInv' /\ AnswerInv'
  OBVIOUS
<1> USE DEF policyVars
<1>1. ASSUME NEW c \in Clerks, ClerkStep(c) PROVE PolicyInv' /\ AnswerInv'
  BY <1>1, RegisterKeeps, InsertKeeps, RecoverKeeps, ChangeKeeps, UpdateKeeps
     DEF ClerkStep
<1>2. ASSUME NEW a \in Attempts, AttemptStep(a) PROVE PolicyInv' /\ AnswerInv'
  BY <1>2, PolicyStutter DEF AttemptStep, GenerateTemplate, CreateModel,
       PutObject, CommitObject, DiscardObject
<1>3. ASSUME NEW u \in Uploads, UploadStep(u) PROVE PolicyInv' /\ AnswerInv'
  BY <1>3, PolicyStutter DEF UploadStep, ReserveUpload, UploadFrame,
       VerifyFrame, FinalizeFrame, JobMoves
<1>4. ASSUME NEW s \in Sweeps, SweepStep(s) PROVE PolicyInv' /\ AnswerInv'
  BY <1>4, PolicyStutter DEF SweepStep, Inspect, Claim, DeleteOrphan,
       CloseOrphan, SweepDies
<1>5. ASSUME NEW k \in Keys, Age(k) PROVE PolicyInv' /\ AnswerInv'
  BY <1>5, PolicyStutter DEF Age
<1>6. CASE UNCHANGED vars
  BY <1>6, PolicyStutter DEF vars
<1> QED
  BY <1>1, <1>2, <1>3, <1>4, <1>5, <1>6 DEF RegistrationNext

\* Whoever was told that a definition is registered finds it there for good.
THEOREM AnswerStands == RegistrationSpec => []AnsweredDefinitionStands
<1>1. AnswerInv => AnsweredDefinitionStands
  BY DEF AnswerInv, AnsweredDefinitionStands
<1> QED
  BY PolicyInit, PolicyNext, <1>1, PTL DEF RegistrationSpec

\* Only two steps write a policy: the insertion of one that was not there,
\* and an update of the row that was read.
LEMMA PolicyWritten ==
    ASSUME PolicyInv, [RegistrationNext]_vars, policy' # policy
    PROVE  \E c \in Clerks : InsertPolicy(c) \/ UpdatePolicy(c)
<1> USE DEF policyVars
<1>1. ASSUME NEW c \in Clerks, ClerkStep(c) PROVE InsertPolicy(c) \/ UpdatePolicy(c)
  BY <1>1 DEF ClerkStep, RegisterPolicy, RecoverPolicy, ChangePolicy
<1>2. ASSUME NEW a \in Attempts, AttemptStep(a) PROVE FALSE
  BY <1>2 DEF AttemptStep, GenerateTemplate, CreateModel, PutObject,
       CommitObject, DiscardObject
<1>3. ASSUME NEW u \in Uploads, UploadStep(u) PROVE FALSE
  BY <1>3 DEF UploadStep, ReserveUpload, UploadFrame, VerifyFrame,
       FinalizeFrame, JobMoves
<1>4. ASSUME NEW s \in Sweeps, SweepStep(s) PROVE FALSE
  BY <1>4 DEF SweepStep, Inspect, Claim, DeleteOrphan, CloseOrphan, SweepDies
<1>5. ASSUME NEW k \in Keys, Age(k) PROVE FALSE
  BY <1>5 DEF Age
<1> QED
  BY <1>1, <1>2, <1>3, <1>4, <1>5 DEF RegistrationNext, vars

LEMMA PolicyRanks ==
    /\ PolicyRank["none"] = 0 /\ PolicyRank["active"] = 1
    /\ PolicyRank["deprecated"] = 2 /\ PolicyRank["retired"] = 3
  BY DEF PolicyRank

LEMMA ForwardStep ==
    ASSUME PolicyInv, [RegistrationNext]_vars, NEW p \in Policies,
           policy'[p] # policy[p]
    PROVE  PolicyRank[policy[p].status] < PolicyRank[policy'[p].status]
<1>1. PICK c \in Clerks : InsertPolicy(c) \/ UpdatePolicy(c)
  BY PolicyWritten
<1>2. CASE InsertPolicy(c)
  <2> DEFINE row == [status |-> "active", definition |-> clerk[c].definition,
                     revision |-> 0]
  <2>1. /\ policy[clerk[c].policy].status = "none"
        /\ policy' = [policy EXCEPT ![clerk[c].policy] = row]
        /\ row.status = "active"
    BY <1>2 DEF InsertPolicy
  <2> HIDE DEF row
  <2>2. p = clerk[c].policy /\ policy'[p] = row
    BY <2>1 DEF PolicyInv
  <2> QED
    BY <2>1, <2>2, PolicyRanks
<1>3. CASE UpdatePolicy(c)
  <2> DEFINE q == clerk[c].policy
             row == [status |-> clerk[c].next, definition |-> policy[q].definition,
                     revision |-> policy[q].revision + 1]
  <2>1. /\ policy' = [policy EXCEPT ![q] = row]
        /\ row.status = clerk[c].next
        /\ \/ policy[q].status = "active"
           \/ policy[q].status = "deprecated" /\ clerk[c].next = "retired"
        /\ clerk[c].next \in {"deprecated", "retired"}
    BY <1>3, UpdateRow
  <2> HIDE DEF q, row
  <2>2. p = q /\ policy'[p] = row
    BY <2>1 DEF PolicyInv
  <2> QED
    BY <2>1, <2>2, PolicyRanks
<1> QED
  BY <1>1, <1>2, <1>3

\* A policy version is only ever withdrawn further.
THEOREM PolicyNeverRestored == RegistrationSpec => PolicyOnlyForward
<1>1. PolicyInv /\ [RegistrationNext]_vars =>
        [\A p \in Policies : policy'[p] # policy[p] =>
            PolicyRank[policy[p].status] < PolicyRank[policy'[p].status]]_vars
  BY ForwardStep
<1> QED
  BY PolicyInit, PolicyNext, <1>1, PTL DEF RegistrationSpec, PolicyOnlyForward

(***************************************************************************)
(* Objects                                                                 *)
(***************************************************************************)

\* Nothing registers an object before its bytes are there, and what a
\* tombstone names is never registered; a sweep deletes under a tombstone.
BytesTyped ==
    /\ attempt \in [Attempts -> Attempt]
    /\ upload \in [Uploads -> Upload]
    /\ object \in [Keys -> {"absent", "recent", "old"}]
    /\ sweep \in [Sweeps -> Sweep]
    /\ registered \subseteq Keys

AttemptOK(a) ==
    /\ attempt[a].pc # "done" => a \notin registered
    /\ attempt[a].pc = "commit" => object[a] # "absent" \/ a \in tombstone

UploadOK(u) ==
    upload[u].verified => object[u] # "absent" \/ u \in tombstone

SweepOK(s) ==
    sweep[s].pc \in {"claimed", "deleted"} => sweep[s].key \in tombstone

BytesInv ==
    /\ BytesTyped
    /\ \A k \in registered : object[k] # "absent" /\ k \notin tombstone
    /\ \A a \in Attempts : AttemptOK(a)
    /\ \A u \in Uploads : UploadOK(u)
    /\ \A s \in Sweeps : SweepOK(s)

LEMMA BytesInit == RegistrationInit => BytesInv
<1> SUFFICES ASSUME RegistrationInit PROVE BytesInv
  OBVIOUS
<1>1. BytesTyped
  BY DEF RegistrationInit, BytesTyped, Attempt, Upload, Sweep, IdleSweep
<1>2. /\ registered = {}
      /\ \A u \in Uploads : upload[u].verified = FALSE
      /\ \A s \in Sweeps : sweep[s].pc = "idle"
      /\ \A a \in Attempts : attempt[a].pc = "new"
  BY DEF RegistrationInit, IdleSweep
<1> QED
  BY <1>1, <1>2 DEF BytesInv, AttemptOK, UploadOK, SweepOK

LEMMA BytesStutter ==
    ASSUME BytesInv, UNCHANGED <<attempt, upload, objectVars, sweep>>
    PROVE  BytesInv'
  BY DEF BytesInv, BytesTyped, AttemptOK, UploadOK, SweepOK, objectVars

LEMMA AttemptKeeps ==
    ASSUME BytesInv, "batch_ambiguous" \notin Faults,
           NEW a \in Attempts, AttemptStep(a)
    PROVE  BytesInv'
<1> USE DEF objectVars
<1>1. upload' = upload /\ sweep' = sweep /\ tombstone' = tombstone
  BY DEF AttemptStep, GenerateTemplate, CreateModel, PutObject, CommitObject,
       DiscardObject
<1>2. CASE (\E p \in Policies : GenerateTemplate(a, p)) \/ CreateModel(a)
  <2>1. /\ attempt' \in [Attempts -> Attempt]
        /\ attempt[a].pc = "new" /\ attempt'[a].pc = "put"
        /\ \A b \in Attempts : b # a => attempt'[b] = attempt[b]
    <3>1. CASE \E p \in Policies : GenerateTemplate(a, p)
      BY <3>1 DEF GenerateTemplate, BytesInv, BytesTyped, Attempt
    <3>2. CASE CreateModel(a)
      BY <3>2 DEF CreateModel, BytesInv, BytesTyped, Attempt
    <3> QED
      BY <1>2, <3>1, <3>2
  <2>2. object' = object /\ registered' = registered
    BY <1>2 DEF GenerateTemplate, CreateModel
  <2> QED
    BY <1>1, <2>1, <2>2 DEF BytesInv, BytesTyped, AttemptOK, UploadOK, SweepOK
<1>3. CASE PutObject(a)
  <2>1. /\ attempt' \in [Attempts -> Attempt]
        /\ attempt[a].pc = "put" /\ attempt'[a].pc = "commit"
        /\ \A b \in Attempts : b # a => attempt'[b] = attempt[b]
    BY <1>3 DEF PutObject, BytesInv, BytesTyped, Attempt
  <2>2. /\ object' \in [Keys -> {"absent", "recent", "old"}]
        /\ object'[a] = "recent" /\ registered' = registered
        /\ \A k \in Keys : k # a => object'[k] = object[k]
    BY <1>3 DEF PutObject, BytesInv, BytesTyped, Keys
  <2>3. \A k \in registered : object'[k] # "absent"
    BY <1>3, <2>2 DEF BytesInv, PutObject, BytesTyped
  <2> QED
    BY <1>1, <2>1, <2>2, <2>3
       DEF BytesInv, BytesTyped, AttemptOK, UploadOK, SweepOK, Keys
<1>4. CASE CommitObject(a)
  <2>1. /\ attempt' \in [Attempts -> Attempt]
        /\ attempt[a].pc = "commit" /\ attempt'[a].pc \in {"done", "discard"}
        /\ \A b \in Attempts : b # a => attempt'[b] = attempt[b]
    BY <1>4 DEF CommitObject, BytesInv, BytesTyped, Attempt
  <2>2. /\ object' = object
        /\ \/ /\ registered' = registered \cup {a} /\ a \notin tombstone
              /\ attempt'[a].pc = "done"
           \/ registered' = registered
    BY <1>4 DEF CommitObject, RegisterObject, Registrable, UnregisteredKey,
         BytesInv, BytesTyped, Attempt
  <2>3. AttemptOK(a)
    BY DEF BytesInv
  <2>4. \A k \in registered' : object'[k] # "absent" /\ k \notin tombstone'
    BY <1>1, <2>1, <2>2, <2>3 DEF BytesInv, AttemptOK
  <2>5. \A b \in Attempts : AttemptOK(b)'
    BY <1>1, <2>1, <2>2 DEF BytesInv, AttemptOK
  <2>6. BytesTyped'
    BY <1>1, <2>1, <2>2 DEF BytesInv, BytesTyped, Keys
  <2>7. /\ \A u \in Uploads : UploadOK(u)'
        /\ \A s \in Sweeps : SweepOK(s)'
    BY <1>1, <2>2 DEF BytesInv, UploadOK, SweepOK
  <2> QED
    BY <2>4, <2>5, <2>6, <2>7 DEF BytesInv
<1>5. CASE DiscardObject(a)
  <2>1. /\ attempt' \in [Attempts -> Attempt]
        /\ attempt[a].pc = "discard" /\ attempt'[a].pc = "done"
        /\ \A b \in Attempts : b # a => attempt'[b] = attempt[b]
    BY <1>5 DEF DiscardObject, BytesInv, BytesTyped, Attempt
  <2>2. /\ object' \in [Keys -> {"absent", "recent", "old"}]
        /\ registered' = registered
        /\ \A k \in Keys : k # a => object'[k] = object[k]
    BY <1>5 DEF DiscardObject, DiscardedKey, BytesInv, BytesTyped, Keys
  <2>3. \A u \in Uploads : u # a /\ object'[u] = object[u]
    BY <2>2, RegistrationAssumption DEF Keys
  <2>4. \A b \in Attempts : AttemptOK(b)'
    BY <1>1, <2>1, <2>2 DEF BytesInv, AttemptOK, Keys
  <2>5. a \notin registered
    BY <2>1 DEF BytesInv, AttemptOK
  <2>6. \A k \in registered : object'[k] # "absent"
    BY <1>5, <2>5 DEF BytesInv, BytesTyped, DiscardObject, DiscardedKey
  <2> QED
    BY <1>1, <2>1, <2>2, <2>3, <2>4, <2>6 DEF BytesInv, BytesTyped, UploadOK, SweepOK
<1> QED
  BY <1>2, <1>3, <1>4, <1>5 DEF AttemptStep

LEMMA UploadKeeps ==
    ASSUME BytesInv, NEW u \in Uploads, UploadStep(u)
    PROVE  BytesInv'
<1> USE DEF objectVars
<1>1. attempt' = attempt /\ sweep' = sweep /\ tombstone' = tombstone
  BY DEF UploadStep, ReserveUpload, UploadFrame, VerifyFrame, FinalizeFrame, JobMoves
<1>2. u \in Keys /\ u \notin Attempts
  BY RegistrationAssumption DEF Keys
<1>3. upload[u] \in Upload /\ UploadOK(u)
  BY DEF BytesInv, BytesTyped
\* What is left to say of a step, in terms of what it changes.
<1>4. ASSUME upload' \in [Uploads -> Upload],
             \A v \in Uploads : v # u => upload'[v] = upload[v],
             object' \in [Keys -> {"absent", "recent", "old"}],
             \A k \in Keys : object'[k] # object[k] => object'[k] # "absent",
             \/ registered' = registered
             \/ /\ registered' = registered \cup {u}
                /\ object[u] # "absent" /\ u \notin tombstone,
             upload'[u].verified => object'[u] # "absent" \/ u \in tombstone
      PROVE  BytesInv'
  <2>1. BytesTyped'
    BY <1>1, <1>2, <1>4 DEF BytesInv, BytesTyped
  <2>2. \A k \in registered' : object'[k] # "absent" /\ k \notin tombstone'
    BY <1>1, <1>2, <1>4 DEF BytesInv, BytesTyped
  <2>3. \A a \in Attempts : AttemptOK(a)'
    BY <1>1, <1>2, <1>4 DEF BytesInv, AttemptOK, Keys
  <2>4. \A v \in Uploads : UploadOK(v)'
    BY <1>1, <1>4 DEF BytesInv, UploadOK, Keys
  <2>5. \A s \in Sweeps : SweepOK(s)'
    BY <1>1 DEF BytesInv, SweepOK
  <2> QED
    BY <2>1, <2>2, <2>3, <2>4, <2>5 DEF BytesInv
<1>5. CASE ReserveUpload(u) \/ JobMoves(u)
  <2>1. /\ upload' \in [Uploads -> Upload]
        /\ \A v \in Uploads : v # u => upload'[v] = upload[v]
        /\ upload'[u].verified = upload[u].verified
    BY <1>5, <1>3 DEF ReserveUpload, JobMoves, BytesInv, BytesTyped, Upload
  <2>2. object' = object /\ registered' = registered
    BY <1>5 DEF ReserveUpload, JobMoves
  <2> QED
    BY <1>3, <1>4, <2>1, <2>2 DEF BytesInv, BytesTyped, UploadOK
<1>6. CASE UploadFrame(u)
  <2>1. /\ upload' \in [Uploads -> Upload]
        /\ \A v \in Uploads : v # u => upload'[v] = upload[v]
        /\ upload'[u].verified = FALSE
    BY <1>6, <1>3 DEF UploadFrame, BytesInv, BytesTyped, Upload
  <2>2. /\ object' \in [Keys -> {"absent", "recent", "old"}]
        /\ \A k \in Keys : object'[k] # object[k] => object'[k] # "absent"
        /\ registered' = registered
    BY <1>2, <1>6 DEF UploadFrame, BytesInv, BytesTyped
  <2> QED
    BY <1>4, <2>1, <2>2
<1>7. CASE VerifyFrame(u)
  <2>1. /\ upload' \in [Uploads -> Upload]
        /\ \A v \in Uploads : v # u => upload'[v] = upload[v]
    BY <1>7, <1>3 DEF VerifyFrame, BytesInv, BytesTyped, Upload
  <2>2. object' = object /\ registered' = registered /\ object[u] # "absent"
    BY <1>7 DEF VerifyFrame
  <2> QED
    BY <1>4, <2>1, <2>2 DEF BytesInv, BytesTyped
<1>8. CASE FinalizeFrame(u)
  <2>1. /\ upload' \in [Uploads -> Upload]
        /\ \A v \in Uploads : v # u => upload'[v] = upload[v]
        /\ upload'[u].verified = FALSE
    <3>1. CASE upload[u].job = "leased" /\ UnregisteredKey(u)
      <4> DEFINE x == [status |-> "finalized", job |-> "over", verified |-> FALSE]
      <4>1. x \in Upload /\ x.verified = FALSE
        BY DEF Upload
      <4>2. upload' = [upload EXCEPT ![u] = x]
        BY <1>8, <3>1 DEF FinalizeFrame
      <4> HIDE DEF x
      <4> QED
        BY <4>1, <4>2 DEF BytesInv, BytesTyped
    <3>2. CASE ~(upload[u].job = "leased" /\ UnregisteredKey(u))
      <4> DEFINE x == [upload[u] EXCEPT !.verified = FALSE]
      <4>1. x \in Upload
        BY <1>3 DEF Upload
      <4>2. x.verified = FALSE
        BY <1>3 DEF Upload
      <4>3. upload' = [upload EXCEPT ![u] = x]
        BY <1>8, <3>2 DEF FinalizeFrame
      <4> HIDE DEF x
      <4> QED
        BY <4>1, <4>2, <4>3 DEF BytesInv, BytesTyped
    <3> QED
      BY <3>1, <3>2
  <2>2. /\ object' = object
        /\ \/ registered' = registered
           \/ /\ registered' = registered \cup {u}
              /\ object[u] # "absent" /\ u \notin tombstone
    BY <1>3, <1>8 DEF FinalizeFrame, UnregisteredKey, UploadOK
  <2> QED
    BY <1>4, <2>1, <2>2 DEF BytesInv, BytesTyped
<1> QED
  BY <1>5, <1>6, <1>7, <1>8 DEF UploadStep

LEMMA SweepKeeps ==
    ASSUME BytesInv, NEW s \in Sweeps, SweepStep(s)
    PROVE  BytesInv'
<1> USE DEF objectVars
<1>1. attempt' = attempt /\ registered' = registered
  BY DEF SweepStep, Inspect, Claim, DeleteOrphan, CloseOrphan, SweepDies
<1>2. sweep[s] \in Sweep /\ SweepOK(s)
  BY DEF BytesInv, BytesTyped
<1>3. ASSUME sweep' \in [Sweeps -> Sweep],
             \A r \in Sweeps : r # s => sweep'[r] = sweep[r],
             SweepOK(s)',
             upload' \in [Uploads -> Upload],
             \A u \in Uploads : upload'[u].verified = upload[u].verified,
             object' \in [Keys -> {"absent", "recent", "old"}],
             \A k \in Keys : object'[k] # object[k] => k \in tombstone,
             tombstone \subseteq tombstone',
             tombstone' \cap registered = tombstone \cap registered
      PROVE  BytesInv'
  <2>1. BytesTyped'
    BY <1>1, <1>3 DEF BytesInv, BytesTyped
  <2>2. \A k \in registered' : object'[k] # "absent" /\ k \notin tombstone'
    BY <1>1, <1>3 DEF BytesInv, BytesTyped
  <2>3. \A a \in Attempts : AttemptOK(a)'
    BY <1>1, <1>3 DEF BytesInv, AttemptOK, Keys
  <2>4. \A v \in Uploads : UploadOK(v)'
    BY <1>1, <1>3 DEF BytesInv, UploadOK, Keys
  <2>5. \A r \in Sweeps : SweepOK(r)'
    BY <1>3 DEF BytesInv, SweepOK
  <2> QED
    BY <2>1, <2>2, <2>3, <2>4, <2>5 DEF BytesInv
<1>4. CASE (\E k \in Keys : Inspect(s, k)) \/ SweepDies(s)
  <2>1. PICK x \in Sweep : /\ sweep' = [sweep EXCEPT ![s] = x]
                           /\ x.pc \in {"idle", "selected"}
    <3>1. CASE SweepDies(s)
      <4>1. IdleSweep \in Sweep /\ IdleSweep.pc = "idle"
        BY DEF IdleSweep, Sweep
      <4> QED
        BY <3>1, <4>1 DEF SweepDies
    <3>2. ASSUME NEW k \in Keys, Inspect(s, k)
          PROVE  \E x \in Sweep : /\ sweep' = [sweep EXCEPT ![s] = x]
                                  /\ x.pc \in {"idle", "selected"}
      <4> DEFINE x == [pc |-> "selected", key |-> k]
      <4>1. x \in Sweep /\ x.pc = "selected"
        BY DEF Sweep
      <4>2. sweep' = [sweep EXCEPT ![s] = x]
        BY <3>2 DEF Inspect
      <4> QED
        BY <4>1, <4>2
    <3> QED
      BY <1>4, <3>1, <3>2
  <2>2. /\ sweep' \in [Sweeps -> Sweep] /\ SweepOK(s)'
        /\ \A r \in Sweeps : r # s => sweep'[r] = sweep[r]
    BY <2>1 DEF BytesInv, BytesTyped, SweepOK
  <2>3. upload' = upload /\ object' = object /\ tombstone' = tombstone
    BY <1>4 DEF Inspect, SweepDies
  <2> QED
    BY <1>3, <2>2, <2>3 DEF BytesInv, BytesTyped
<1>5. CASE Claim(s)
  <2>1. /\ sweep' \in [Sweeps -> Sweep]
        /\ \A r \in Sweeps : r # s => sweep'[r] = sweep[r]
    BY <1>5 DEF Claim, BytesInv, BytesTyped, Sweep, IdleSweep
  <2>2. SweepOK(s)'
    BY <1>2, <1>5 DEF Claim, BytesInv, BytesTyped, SweepOK, Sweep, IdleSweep
  <2>3. /\ upload' = upload /\ object' = object
        /\ tombstone \subseteq tombstone'
        /\ tombstone' \cap registered = tombstone \cap registered
    BY <1>5 DEF Claim, Unreferenced
  <2> QED
    BY <1>3, <2>1, <2>2, <2>3 DEF BytesInv, BytesTyped
<1>6. CASE DeleteOrphan(s)
  <2>1. sweep[s].key \in tombstone
    BY <1>2, <1>6 DEF DeleteOrphan, SweepOK
  <2>2. /\ sweep' \in [Sweeps -> Sweep]
        /\ \A r \in Sweeps : r # s => sweep'[r] = sweep[r]
        /\ sweep'[s].pc = "idle" \/ sweep'[s].key = sweep[s].key
    BY <1>2, <1>6 DEF DeleteOrphan, BytesInv, BytesTyped, Sweep, IdleSweep
  <2>3. upload' = upload /\ tombstone' = tombstone
    BY <1>6 DEF DeleteOrphan
  <2>4. SweepOK(s)'
    BY <2>1, <2>2, <2>3 DEF SweepOK
  <2>5. /\ object' \in [Keys -> {"absent", "recent", "old"}]
        /\ \A k \in Keys : object'[k] # object[k] => k \in tombstone
    BY <1>6, <2>1 DEF DeleteOrphan, BytesInv, BytesTyped
  <2> QED
    BY <1>3, <2>2, <2>3, <2>4, <2>5 DEF BytesInv, BytesTyped
<1>7. CASE CloseOrphan(s)
  <2>1. sweep' = [sweep EXCEPT ![s] = IdleSweep]
    BY <1>7 DEF CloseOrphan
  <2>2. /\ sweep' \in [Sweeps -> Sweep] /\ SweepOK(s)'
        /\ \A r \in Sweeps : r # s => sweep'[r] = sweep[r]
    BY <2>1 DEF BytesInv, BytesTyped, SweepOK, Sweep, IdleSweep
  <2>3. /\ upload' \in [Uploads -> Upload]
        /\ \A u \in Uploads : upload'[u].verified = upload[u].verified
    BY <1>7 DEF CloseOrphan, BytesInv, BytesTyped, Upload
  <2>4. object' = object /\ tombstone' = tombstone
    BY <1>7 DEF CloseOrphan
  <2> QED
    BY <1>3, <2>2, <2>3, <2>4 DEF BytesInv, BytesTyped
<1> QED
  BY <1>4, <1>5, <1>6, <1>7 DEF SweepStep

LEMMA BytesNext ==
    ASSUME "batch_ambiguous" \notin Faults
    PROVE  BytesInv /\ [RegistrationNext]_vars => BytesInv'
<1> SUFFICES ASSUME BytesInv, [RegistrationNext]_vars PROVE BytesInv'
  OBVIOUS
<1>1. ASSUME NEW c \in Clerks, ClerkStep(c) PROVE BytesInv'
  BY <1>1, BytesStutter DEF ClerkStep, RegisterPolicy, InsertPolicy,
       RecoverPolicy, ChangePolicy, UpdatePolicy
<1>2. ASSUME NEW k \in Keys, Age(k) PROVE BytesInv'
  <2>1. /\ object' \in [Keys -> {"absent", "recent", "old"}]
        /\ \A x \in Keys : object'[x] # "absent" <=> object[x] # "absent"
        /\ UNCHANGED <<attempt, upload, registered, tombstone, sweep>>
    BY <1>2 DEF Age, BytesInv, BytesTyped
  <2>2. BytesTyped'
    BY <2>1 DEF BytesInv, BytesTyped
  <2>3. \A x \in registered' : object'[x] # "absent" /\ x \notin tombstone'
    BY <2>1 DEF BytesInv, BytesTyped
  <2>4. /\ \A a \in Attempts : AttemptOK(a)'
        /\ \A u \in Uploads : UploadOK(u)'
        /\ \A s \in Sweeps : SweepOK(s)'
    BY <2>1 DEF BytesInv, AttemptOK, UploadOK, SweepOK, Keys
  <2> QED
    BY <2>2, <2>3, <2>4 DEF BytesInv
<1>3. CASE UNCHANGED vars
  BY <1>3, BytesStutter DEF vars, objectVars
<1> QED
  BY <1>1, <1>2, <1>3, AttemptKeeps, UploadKeeps, SweepKeeps DEF RegistrationNext

\* If every batch reports its outcome, what is registered keeps its object:
\* no attempt that lost, and no sweep, ever deletes it.
THEOREM RegisteredKeepsBytes ==
    ASSUME "batch_ambiguous" \notin Faults
    PROVE  RegistrationSpec => []RegisteredHasBytes
<1>1. BytesInv => RegisteredHasBytes
  BY DEF BytesInv, RegisteredHasBytes
<1>2. BytesInv /\ [RegistrationNext]_vars => BytesInv'
  BY BytesNext
<1> QED
  BY BytesInit, <1>1, <1>2, PTL DEF RegistrationSpec

(***************************************************************************)
(* Uploads of live jobs                                                    *)
(***************************************************************************)

\* An upload that was claimed as an orphan can no longer be used by a leased
\* job: the claim looked at both, and no lease comes back.
ClaimedAreOver ==
    \A u \in Uploads : u \in tombstone =>
        upload[u].status = "none" \/ upload[u].job # "leased"

LiveTyped ==
    /\ upload \in [Uploads -> Upload]
    /\ object \in [Keys -> {"absent", "recent", "old"}]
    /\ sweep \in [Sweeps -> Sweep]

LiveInv ==
    /\ LiveTyped /\ ClaimedAreOver /\ LiveUploadKept
    /\ \A s \in Sweeps : SweepOK(s)

LEMMA LiveInit == RegistrationInit => LiveInv
<1> SUFFICES ASSUME RegistrationInit PROVE LiveInv
  OBVIOUS
<1>1. LiveTyped
  BY DEF RegistrationInit, LiveTyped, Upload, Sweep, IdleSweep
<1>2. /\ tombstone = {} /\ \A u \in Uploads : upload[u].status = "none"
      /\ \A s \in Sweeps : sweep[s].pc = "idle"
  BY DEF RegistrationInit, IdleSweep
<1> QED
  BY <1>1, <1>2 DEF LiveInv, ClaimedAreOver, LiveUploadKept, SweepOK

\* Nothing but the objects of template and model attempts disappears.
LEMMA AttemptKeepsLive ==
    ASSUME LiveInv, UNCHANGED <<upload, sweep, tombstone>>,
           object' \in [Keys -> {"absent", "recent", "old"}],
           \A u \in Uploads : object[u] # "absent" => object'[u] # "absent"
    PROVE  LiveInv'
  BY DEF LiveInv, LiveTyped, ClaimedAreOver, LiveUploadKept, SweepOK

\* One upload's row changes: it gets neither a lease nor, once claimed, a
\* status; and it is uploaded only with its object.
LEMMA UploadRowLive ==
    ASSUME LiveInv, UNCHANGED <<sweep, tombstone>>, NEW u \in Uploads, NEW x \in Upload,
           upload' = [upload EXCEPT ![u] = x],
           object' \in [Keys -> {"absent", "recent", "old"}],
           \A k \in Keys : object[k] # "absent" => object'[k] # "absent",
           x.job = "leased" => upload[u].job = "leased",
           x.job = "leased" /\ upload[u].status = "none" /\ x.status # "none" =>
               u \notin tombstone,
           x.job = "leased" /\ x.status = "uploaded" =>
               object'[u] # "absent" \/ upload[u].status = "uploaded"
    PROVE  LiveInv'
<1>1. /\ upload' \in [Uploads -> Upload] /\ upload'[u] = x
      /\ \A v \in Uploads \ {u} : upload'[v] = upload[v]
  BY DEF LiveInv, LiveTyped
<1>2. LiveTyped' /\ \A s \in Sweeps : SweepOK(s)'
  BY <1>1 DEF LiveInv, LiveTyped, SweepOK
<1>3. ClaimedAreOver'
  BY <1>1 DEF LiveInv, ClaimedAreOver
<1>4. LiveUploadKept'
  BY <1>1 DEF LiveInv, LiveUploadKept, Keys
<1> QED
  BY <1>2, <1>3, <1>4 DEF LiveInv

LEMMA UploadKeepsLive ==
    ASSUME LiveInv, NEW u \in Uploads, UploadStep(u)
    PROVE  LiveInv'
<1> USE DEF objectVars
<1>1. upload[u] \in Upload /\ u \in Keys
      /\ object \in [Keys -> {"absent", "recent", "old"}]
      /\ UNCHANGED <<sweep, tombstone>>
  BY DEF LiveInv, LiveTyped, Keys, UploadStep, ReserveUpload, UploadFrame, VerifyFrame,
     FinalizeFrame, JobMoves
<1>2. CASE ReserveUpload(u)
  <2>1. PICK x : x = [upload[u] EXCEPT !.status = "reserved"]
    OBVIOUS
  <2>2. x \in Upload /\ x.status = "reserved" /\ x.job = upload[u].job
    BY <1>1, <2>1 DEF Upload
  <2>3. /\ upload' = [upload EXCEPT ![u] = x] /\ object' = object
        /\ u \notin tombstone
    BY <1>2, <2>1 DEF ReserveUpload
  <2> QED
    BY <1>1, <2>2, <2>3, UploadRowLive
<1>3. CASE UploadFrame(u)
  <2>1. /\ object' = [object EXCEPT ![u] = "recent"]
        /\ upload[u].status \in {"reserved", "uploaded"}
    BY <1>3 DEF UploadFrame
  <2>2. PICK x : /\ upload' = [upload EXCEPT ![u] = x]
                 /\ x \in Upload /\ x.job = upload[u].job
    <3>1. CASE upload' = upload
      BY <1>1, <3>1 DEF LiveInv, LiveTyped
    <3>2. CASE upload' = [upload EXCEPT ![u].status = "uploaded"]
      <4>1. PICK x : x = [upload[u] EXCEPT !.status = "uploaded"]
        OBVIOUS
      <4>2. x \in Upload /\ x.job = upload[u].job
        BY <1>1, <4>1 DEF Upload
      <4> QED
        BY <3>2, <4>1, <4>2
    <3> QED
      BY <1>3, <3>1, <3>2 DEF UploadFrame
  <2> QED
    BY <1>1, <2>1, <2>2, UploadRowLive
<1>4. CASE VerifyFrame(u)
  <2>1. PICK x : x = [upload[u] EXCEPT !.verified = TRUE]
    OBVIOUS
  <2>2. x \in Upload /\ x.status = upload[u].status /\ x.job = upload[u].job
    BY <1>1, <2>1 DEF Upload
  <2>3. upload' = [upload EXCEPT ![u] = x] /\ object' = object
    BY <1>4, <2>1 DEF VerifyFrame
  <2> QED
    BY <1>1, <2>2, <2>3, UploadRowLive
<1>5. CASE FinalizeFrame(u)
  <2>1. PICK x : /\ upload' = [upload EXCEPT ![u] = x] /\ x \in Upload
                 /\ x.job = "over" \/ (x.job = upload[u].job /\ x.status = upload[u].status)
    <3>1. CASE upload' = [upload EXCEPT ![u] =
                 [status |-> "finalized", job |-> "over", verified |-> FALSE]]
      <4>1. PICK x : x = [status |-> "finalized", job |-> "over", verified |-> FALSE]
        OBVIOUS
      <4>2. x \in Upload /\ x.job = "over"
        BY <4>1 DEF Upload
      <4> QED
        BY <3>1, <4>1, <4>2
    <3>2. CASE upload' = [upload EXCEPT ![u].verified = FALSE]
      <4>1. PICK x : x = [upload[u] EXCEPT !.verified = FALSE]
        OBVIOUS
      <4>2. x \in Upload /\ x.job = upload[u].job /\ x.status = upload[u].status
        BY <1>1, <4>1 DEF Upload
      <4> QED
        BY <3>2, <4>1, <4>2
    <3> QED
      BY <1>5, <3>1, <3>2 DEF FinalizeFrame
  <2>2. object' = object
    BY <1>5 DEF FinalizeFrame
  <2> QED
    BY <1>1, <2>1, <2>2, UploadRowLive
<1>6. CASE JobMoves(u)
  <2>1. PICK job \in {"other", "over"} : upload' = [upload EXCEPT ![u].job = job]
    BY <1>6 DEF JobMoves
  <2>2. PICK x : x = [upload[u] EXCEPT !.job = job]
    OBVIOUS
  <2>3. x \in Upload /\ x.job # "leased"
    BY <1>1, <2>2 DEF Upload
  <2>4. upload' = [upload EXCEPT ![u] = x] /\ object' = object
    BY <1>6, <2>1, <2>2 DEF JobMoves
  <2> QED
    BY <1>1, <2>3, <2>4, UploadRowLive
<1> QED
  BY <1>2, <1>3, <1>4, <1>5, <1>6 DEF UploadStep

LEMMA SweepKeepsLive ==
    ASSUME LiveInv, NEW s \in Sweeps, SweepStep(s)
    PROVE  LiveInv'
<1> USE DEF LiveInv, LiveTyped, objectVars
<1>1. sweep[s] \in Sweep /\ SweepOK(s)
  OBVIOUS
<1>2. ASSUME NEW x \in Sweep, sweep' = [sweep EXCEPT ![s] = x],
             x.pc \in {"claimed", "deleted"} => x.key \in tombstone',
             tombstone \subseteq tombstone'
      PROVE  sweep' \in [Sweeps -> Sweep] /\ \A r \in Sweeps : SweepOK(r)'
  BY <1>2 DEF SweepOK
<1>3. IdleSweep \in Sweep /\ IdleSweep.pc = "idle"
  BY DEF IdleSweep, Sweep
<1>4. CASE (\E k \in Keys : Inspect(s, k)) \/ SweepDies(s)
  <2>1. UNCHANGED <<upload, object, tombstone>>
    BY <1>4 DEF Inspect, SweepDies
  <2>2. PICK x \in Sweep : sweep' = [sweep EXCEPT ![s] = x] /\ x.pc \in {"idle", "selected"}
    <3>1. CASE SweepDies(s)
      BY <1>3, <3>1 DEF SweepDies
    <3>2. ASSUME NEW k \in Keys, Inspect(s, k)
          PROVE  \E x \in Sweep : sweep' = [sweep EXCEPT ![s] = x] /\ x.pc = "selected"
      <4>1. [pc |-> "selected", key |-> k] \in Sweep
        BY DEF Sweep
      <4> QED
        BY <3>2, <4>1 DEF Inspect
    <3> QED
      BY <1>4, <3>1, <3>2
  <2> QED
    BY <1>2, <2>1, <2>2 DEF ClaimedAreOver, LiveUploadKept
<1>5. CASE Claim(s)
  <2>1. UNCHANGED <<upload, object>>
    BY <1>5 DEF Claim
  <2>2. CASE Unreferenced(sweep[s].key)
    <3>1. tombstone' = tombstone \cup {sweep[s].key}
          /\ sweep' = [sweep EXCEPT ![s].pc = "claimed"]
      BY <1>5, <2>2 DEF Claim
    <3>2. PICK x \in Sweep : sweep' = [sweep EXCEPT ![s] = x] /\ x.key = sweep[s].key
      <4>1. PICK x : x = [sweep[s] EXCEPT !.pc = "claimed"]
        OBVIOUS
      <4>2. x \in Sweep /\ x.key = sweep[s].key
        BY <1>1, <4>1 DEF Sweep
      <4> QED
        BY <3>1, <4>1, <4>2
    <3>3. ClaimedAreOver'
      BY <2>1, <2>2, <3>1 DEF ClaimedAreOver, Unreferenced
    <3> QED
      BY <1>2, <2>1, <3>1, <3>2, <3>3 DEF LiveUploadKept
  <2>3. CASE ~Unreferenced(sweep[s].key)
    <3>1. tombstone' = tombstone /\ sweep' = [sweep EXCEPT ![s] = IdleSweep]
      BY <1>5, <2>3 DEF Claim
    <3> QED
      BY <1>2, <1>3, <2>1, <3>1 DEF ClaimedAreOver, LiveUploadKept
  <2> QED
    BY <2>2, <2>3
<1>6. CASE DeleteOrphan(s)
  <2>1. /\ object' = [object EXCEPT ![sweep[s].key] = "absent"]
        /\ sweep[s].key \in tombstone /\ UNCHANGED <<upload, tombstone>>
    BY <1>1, <1>6 DEF DeleteOrphan, SweepOK
  <2>2. PICK x \in Sweep : /\ sweep' = [sweep EXCEPT ![s] = x]
                           /\ x.pc = "idle" \/ x.key = sweep[s].key
    <3>1. CASE sweep[s].key \in Uploads
      <4>1. PICK x : x = [sweep[s] EXCEPT !.pc = "deleted"]
        OBVIOUS
      <4>2. x \in Sweep /\ x.key = sweep[s].key
        BY <1>1, <4>1 DEF Sweep
      <4>3. sweep' = [sweep EXCEPT ![s] = x]
        BY <1>6, <3>1, <4>1 DEF DeleteOrphan
      <4> QED
        BY <4>2, <4>3
    <3>2. CASE sweep[s].key \notin Uploads
      BY <1>3, <1>6, <3>2 DEF DeleteOrphan
    <3> QED
      BY <3>1, <3>2
  <2>3. LiveUploadKept'
    BY <2>1 DEF LiveUploadKept, ClaimedAreOver, Keys
  <2> QED
    BY <1>2, <2>1, <2>2, <2>3 DEF ClaimedAreOver
<1>7. CASE CloseOrphan(s)
  <2>1. /\ sweep' = [sweep EXCEPT ![s] = IdleSweep] /\ UNCHANGED <<object, tombstone>>
        /\ upload' = [u \in Uploads |->
              IF u = sweep[s].key /\ upload[u].status # "finalized"
              THEN [upload[u] EXCEPT !.status = "none"] ELSE upload[u]]
    BY <1>7 DEF CloseOrphan
  <2>2. \A u \in Uploads :
          LET x == [upload[u] EXCEPT !.status = "none"]
          IN  x \in Upload /\ x.status = "none" /\ x.job = upload[u].job
    BY DEF Upload
  <2>3. /\ upload' \in [Uploads -> Upload]
        /\ \A u \in Uploads : upload'[u] = upload[u] \/ upload'[u].status = "none"
    BY <2>1, <2>2
  <2>4. ClaimedAreOver' /\ LiveUploadKept'
    BY <2>1, <2>3 DEF ClaimedAreOver, LiveUploadKept
  <2>5. sweep' \in [Sweeps -> Sweep] /\ \A r \in Sweeps : SweepOK(r)'
    BY <1>2, <1>3, <2>1
  <2> QED
    BY <2>1, <2>3, <2>4, <2>5
<1> QED
  BY <1>4, <1>5, <1>6, <1>7 DEF SweepStep

LEMMA LiveNext == LiveInv /\ [RegistrationNext]_vars => LiveInv'
<1> SUFFICES ASSUME LiveInv, [RegistrationNext]_vars PROVE LiveInv'
  OBVIOUS
<1> USE DEF objectVars
<1>0. object \in [Keys -> {"absent", "recent", "old"}]
  BY DEF LiveInv, LiveTyped
<1>1. ASSUME NEW c \in Clerks, ClerkStep(c) PROVE LiveInv'
  <2>1. UNCHANGED <<upload, object, sweep, tombstone>>
    BY <1>1 DEF ClerkStep, RegisterPolicy, InsertPolicy, RecoverPolicy,
       ChangePolicy, UpdatePolicy
  <2> QED
    BY <1>0, <2>1, AttemptKeepsLive
<1>2. ASSUME NEW k \in Keys, Age(k) PROVE LiveInv'
  <2>1. object' = [object EXCEPT ![k] = "old"] /\ UNCHANGED <<upload, sweep, tombstone>>
    BY <1>2 DEF Age
  <2>2. object' \in [Keys -> {"absent", "recent", "old"}]
        /\ \A u \in Uploads : object[u] # "absent" => object'[u] # "absent"
    BY <1>0, <2>1 DEF Keys
  <2> QED
    BY <2>1, <2>2, AttemptKeepsLive
<1>3. CASE UNCHANGED vars
  BY <1>0, <1>3, AttemptKeepsLive DEF vars
<1>4. ASSUME NEW a \in Attempts, AttemptStep(a) PROVE LiveInv'
  <2>1. UNCHANGED <<upload, sweep, tombstone>>
    BY <1>4 DEF AttemptStep, GenerateTemplate, CreateModel, PutObject, CommitObject,
       DiscardObject
  <2>2. \/ object' = object \/ object' = [object EXCEPT ![a] = "recent"]
        \/ object' = [object EXCEPT ![a] = "absent"]
    BY <1>4 DEF AttemptStep, GenerateTemplate, CreateModel, PutObject, CommitObject,
       DiscardObject, DiscardedKey
  <2>3. a \notin Uploads
    BY RegistrationAssumption
  <2>4. /\ object' \in [Keys -> {"absent", "recent", "old"}]
        /\ \A u \in Uploads : object[u] # "absent" => object'[u] # "absent"
    BY <1>0, <2>2, <2>3 DEF Keys
  <2> QED
    BY <2>1, <2>4, AttemptKeepsLive
<1> QED
  BY <1>1, <1>2, <1>3, <1>4, UploadKeepsLive, SweepKeepsLive DEF RegistrationNext

\* A frame that a leased job has uploaded keeps its object, whatever sweeps
\* are in flight and whatever batches fail or are ambiguous: the sweep claims
\* it in the statement that looks at its job (operations.ts:12-13, 54-59).
THEOREM LiveUploadsAreKept == RegistrationSpec => []LiveUploadKept
<1>1. LiveInv => LiveUploadKept
  BY DEF LiveInv
<1> QED
  BY LiveInit, LiveNext, <1>1, PTL DEF RegistrationSpec
=============================================================================
