------------------------- MODULE ObjectRegistration -------------------------
(***************************************************************************)
(* Objects of the private bucket and the rows that register them: the      *)
(* template generator of workers/control-plane/src/template-registry.ts    *)
(* with the policies it reads, createModel of release-governance.ts, the   *)
(* orphan sweep of operations.ts and the tombstones of migration 0014.     *)
(*                                                                         *)
(* Every attempt writes its object under a key of its own, so an attempt   *)
(* and its key share a name.  Uploads of sampling jobs, which              *)
(* ArtifactPipeline models, appear here as what the sweep sees of them.    *)
(***************************************************************************)
EXTENDS Naturals, FiniteSets

CONSTANTS
    Policies,      \* ids of policy versions, a digest of name and version
    Definitions,   \* documents, profiles and rules a version may have
    Clerks,        \* calls that register, deprecate or retire a policy
    Attempts,      \* calls that generate a template or register a model
    Uploads,       \* frame images that sampling jobs may upload
    Sweeps,        \* orphan sweeps, scheduled or by an operator
    None,
    Faults         \* what D1 may do to a batch

ASSUME RegistrationAssumption ==
    /\ Attempts \cap Uploads = {}
    /\ None \notin Policies \cup Definitions \cup Attempts \cup Uploads
    /\ Faults \subseteq {"batch_rejected", "batch_ambiguous"}

VARIABLES
    policy,        \* policy_versions
    promised,      \* definitions a registration answered for, per policy
    clerk,         \* policy calls in flight
    template,      \* templates, by policy: the attempt that registered it
    attempt,       \* object-writing calls in flight
    upload,        \* artifact_uploads, and the job of each
    object,        \* the bucket
    registered,    \* storage keys of artifacts rows
    tombstone,     \* artifact_tombstones
    sweep          \* sweeps in flight

policyVars == <<policy, promised, clerk>>
objectVars == <<object, registered, tombstone>>
vars == <<policy, promised, clerk, template, attempt, upload, object,
          registered, tombstone, sweep>>

Keys == Attempts \cup Uploads

Policy == [status : {"none", "active", "deprecated", "retired"},
           definition : Definitions \cup {None}, revision : 0 .. 2]

Clerk == [pc : {"idle", "insert", "recover", "update"},
          policy : Policies \cup {None}, definition : Definitions \cup {None},
          next : {"none", "deprecated", "retired"}, revision : 0 .. 2]

Attempt == [pc : {"new", "put", "commit", "discard", "done"},
            policy : Policies \cup {None}]     \* None: it registers a model

Upload == [status : {"none", "reserved", "uploaded", "finalized"},
           job : {"leased", "other", "over"},  \* who may run the upload's job
           verified : BOOLEAN]                 \* a finalization is about to commit

Sweep == [pc : {"idle", "selected", "claimed", "deleted"}, key : Keys \cup {None}]

IdleClerk == [pc |-> "idle", policy |-> None, definition |-> None,
              next |-> "none", revision |-> 0]
IdleSweep == [pc |-> "idle", key |-> None]

RegistrationTypeOK ==
    /\ policy \in [Policies -> Policy]
    /\ promised \in [Policies -> SUBSET Definitions]
    /\ clerk \in [Clerks -> Clerk]
    /\ template \in [Policies -> Attempts \cup {None}]
    /\ attempt \in [Attempts -> Attempt]
    /\ upload \in [Uploads -> Upload]
    /\ object \in [Keys -> {"absent", "recent", "old"}]
    /\ registered \in SUBSET Keys
    /\ tombstone \in SUBSET Keys
    /\ sweep \in [Sweeps -> Sweep]

RegistrationInit ==
    /\ policy = [p \in Policies |->
          [status |-> "none", definition |-> None, revision |-> 0]]
    /\ promised = [p \in Policies |-> {}]
    /\ clerk = [c \in Clerks |-> IdleClerk]
    /\ template = [p \in Policies |-> None]
    /\ attempt = [a \in Attempts |-> [pc |-> "new", policy |-> None]]
    /\ upload = [u \in Uploads |->
          [status |-> "none", job |-> "leased", verified |-> FALSE]]
    /\ object = [k \in Keys |-> "absent"]
    /\ registered = {}
    /\ tombstone = {}
    /\ sweep = [s \in Sweeps |-> IdleSweep]

-----------------------------------------------------------------------------
(***************************************************************************)
(* Policies: registerPolicy and the deprecate and retire routes            *)
(***************************************************************************)

\* Mutant: a version that exists is reported as registered, whatever it says.
DuplicateAny(c, p, d) == promised' = [promised EXCEPT ![p] = @ \cup {d}]
\* duplicate: the same definition is answered for, another is a conflict.
Duplicate(c, p, d) ==
    promised' = IF policy[p].definition = d
                THEN [promised EXCEPT ![p] = @ \cup {d}] ELSE promised

RegisterPolicy(c, p, d) ==
    /\ clerk[c].pc = "idle"
    /\ IF policy[p].status # "none"
         THEN Duplicate(c, p, d) /\ UNCHANGED clerk
         ELSE /\ clerk' = [clerk EXCEPT ![c] =
                    [IdleClerk EXCEPT !.pc = "insert", !.policy = p, !.definition = d]]
              /\ UNCHANGED promised
    /\ UNCHANGED <<policy, template, attempt, upload, objectVars, sweep>>

\* The batch inserts the version, unless its id is taken.
InsertPolicy(c) ==
    LET p == clerk[c].policy
        d == clerk[c].definition
        insert == policy' = [policy EXCEPT ![p] =
                    [status |-> "active", definition |-> d, revision |-> 0]]
    IN  /\ clerk[c].pc = "insert"
        /\ \/ /\ policy[p].status = "none"
              /\ insert
              /\ promised' = [promised EXCEPT ![p] = @ \cup {d}]
              /\ clerk' = [clerk EXCEPT ![c] = IdleClerk]
           \/ /\ "batch_ambiguous" \in Faults
              /\ policy[p].status = "none"
              /\ insert
              /\ clerk' = [clerk EXCEPT ![c].pc = "recover"]
              /\ UNCHANGED promised
           \/ /\ policy[p].status # "none" \/ "batch_rejected" \in Faults
              /\ clerk' = [clerk EXCEPT ![c].pc = "recover"]
              /\ UNCHANGED <<policy, promised>>
        /\ UNCHANGED <<template, attempt, upload, objectVars, sweep>>

\* The catch looks whether another call, or this one, inserted the version.
RecoverPolicy(c) ==
    /\ clerk[c].pc = "recover"
    /\ IF policy[clerk[c].policy].status = "none" THEN UNCHANGED promised
       ELSE Duplicate(c, clerk[c].policy, clerk[c].definition)
    /\ clerk' = [clerk EXCEPT ![c] = IdleClerk]
    /\ UNCHANGED <<policy, template, attempt, upload, objectVars, sweep>>

\* If-Match and the status are checked on the row that was read.
ChangePolicy(c, p, next) ==
    /\ clerk[c].pc = "idle"
    /\ \/ policy[p].status = "active"
       \/ policy[p].status = "deprecated" /\ next = "retired"
    /\ clerk' = [clerk EXCEPT ![c] =
          [pc |-> "update", policy |-> p, definition |-> None,
           next |-> next, revision |-> policy[p].revision]]
    /\ UNCHANGED <<policy, promised, template, attempt, upload, objectVars, sweep>>

\* Mutant: the batch does not assert the revision that was read.
CurrentPolicyAny(c) == policy[clerk[c].policy].revision < 2
\* The assertion of the batch, without which it is rolled back.
CurrentPolicy(c) == policy[clerk[c].policy].revision = clerk[c].revision

UpdatePolicy(c) ==
    /\ clerk[c].pc = "update"
    /\ \/ /\ CurrentPolicy(c)
          /\ policy' = [policy EXCEPT ![clerk[c].policy].status = clerk[c].next,
                                      ![clerk[c].policy].revision = @ + 1]
       \/ /\ ~CurrentPolicy(c) \/ "batch_rejected" \in Faults
          /\ UNCHANGED policy
    /\ clerk' = [clerk EXCEPT ![c] = IdleClerk]
    /\ UNCHANGED <<promised, template, attempt, upload, objectVars, sweep>>

-----------------------------------------------------------------------------
(***************************************************************************)
(* generateTemplate and createModel                                        *)
(***************************************************************************)

\* The policy is active and there is no template of it yet; one that exists
\* is returned as it is.
GenerateTemplate(a, p) ==
    /\ attempt[a].pc = "new"
    /\ policy[p].status = "active"
    /\ template[p] = None
    /\ attempt' = [attempt EXCEPT ![a] = [pc |-> "put", policy |-> p]]
    /\ UNCHANGED <<policyVars, template, upload, objectVars, sweep>>

CreateModel(a) ==
    /\ attempt[a].pc = "new"
    /\ attempt' = [attempt EXCEPT ![a].pc = "put"]
    /\ UNCHANGED <<policyVars, template, upload, objectVars, sweep>>

\* A call that fails verification, or dies, takes no further step.
PutObject(a) ==
    /\ attempt[a].pc = "put"
    /\ object' = [object EXCEPT ![a] = "recent"]
    /\ attempt' = [attempt EXCEPT ![a].pc = "commit"]
    /\ UNCHANGED <<policyVars, template, upload, registered, tombstone, sweep>>

\* Mutant: no trigger looks for a tombstone.
UnregisteredKeyAny(k) == k \notin registered
\* The trigger on artifacts, and its UNIQUE storage key.
UnregisteredKey(k) == k \notin registered \cup tombstone

\* No UNIQUE constraint and no trigger aborts the batch.
Registrable(a) ==
    /\ UnregisteredKey(a)
    /\ attempt[a].policy # None => template[attempt[a].policy] = None

RegisterObject(a) ==
    /\ Registrable(a)
    /\ registered' = registered \cup {a}
    /\ template' = [p \in Policies |->
          IF p = attempt[a].policy THEN a ELSE template[p]]

CommitObject(a) ==
    /\ attempt[a].pc = "commit"
    /\ \/ /\ RegisterObject(a)
          /\ attempt' = [attempt EXCEPT ![a].pc = "done"]
       \/ /\ "batch_ambiguous" \in Faults
          /\ RegisterObject(a)
          /\ attempt' = [attempt EXCEPT ![a].pc = "discard"]
       \/ /\ ~Registrable(a) \/ "batch_rejected" \in Faults
          /\ attempt' = [attempt EXCEPT ![a].pc = "discard"]
          /\ UNCHANGED <<registered, template>>
    /\ UNCHANGED <<policyVars, upload, object, tombstone, sweep>>

\* Mutant: the catch deletes the object of the template that it found.
DiscardedKeyRaced(a) ==
    IF attempt[a].policy = None \/ template[attempt[a].policy] = None THEN a
    ELSE template[attempt[a].policy]
\* The catch deletes the object of this attempt, whatever it found.
DiscardedKey(a) == a

DiscardObject(a) ==
    /\ attempt[a].pc = "discard"
    /\ object' = [object EXCEPT ![DiscardedKey(a)] = "absent"]
    /\ attempt' = [attempt EXCEPT ![a].pc = "done"]
    /\ UNCHANGED <<policyVars, template, upload, registered, tombstone, sweep>>

-----------------------------------------------------------------------------
(***************************************************************************)
(* Uploads of sampling jobs, as the sweep meets them: the row, whether its *)
(* job may still use it, and the object.  ArtifactPipeline has the calls   *)
(* and the leases behind these steps.                                      *)
(***************************************************************************)
ReserveUpload(u) ==
    /\ upload[u].status = "none" /\ upload[u].job = "leased"
    /\ u \notin tombstone
    /\ upload' = [upload EXCEPT ![u].status = "reserved"]
    /\ UNCHANGED <<policyVars, template, attempt, objectVars, sweep>>

\* uploadArtifact puts the object and confirms it, or is late or dies before
\* it has confirmed.
UploadFrame(u) ==
    /\ upload[u].status \in {"reserved", "uploaded"} /\ ~upload[u].verified
    /\ object' = [object EXCEPT ![u] = "recent"]
    /\ \/ /\ upload[u].job = "leased"
          /\ upload' = [upload EXCEPT ![u].status = "uploaded"]
       \/ UNCHANGED upload
    /\ UNCHANGED <<policyVars, template, attempt, registered, tombstone, sweep>>

\* finalize finds the frame uploaded and its object in the bucket, and later
\* registers it without looking again.
VerifyFrame(u) ==
    /\ upload[u].status = "uploaded" /\ upload[u].job = "leased"
    /\ object[u] # "absent"
    /\ upload' = [upload EXCEPT ![u].verified = TRUE]
    /\ UNCHANGED <<policyVars, template, attempt, objectVars, sweep>>

FinalizeFrame(u) ==
    /\ upload[u].verified
    /\ IF upload[u].job = "leased" /\ UnregisteredKey(u)
         THEN /\ registered' = registered \cup {u}
              /\ upload' = [upload EXCEPT ![u] =
                    [status |-> "finalized", job |-> "over", verified |-> FALSE]]
         ELSE /\ upload' = [upload EXCEPT ![u].verified = FALSE]
              /\ UNCHANGED registered
    /\ UNCHANGED <<policyVars, template, attempt, object, tombstone, sweep>>

\* The lease runs out or is given up; the job ends, or is queued again.
JobMoves(u) ==
    /\ \E job \in {"other", "over"} :
          /\ job # upload[u].job
          /\ upload' = [upload EXCEPT ![u].job = job]
    /\ upload[u].status # "finalized"
    /\ UNCHANGED <<policyVars, template, attempt, objectVars, sweep>>

-----------------------------------------------------------------------------
(***************************************************************************)
(* The orphan sweep: POST /operations/orphans, one object at a time.  The  *)
(* preview that chooses the objects is not relied on.                      *)
(***************************************************************************)

\* Mutant: an upload counts once it is finalized.
UnreferencedFinal(k) ==
    k \notin registered \cup {u \in Uploads : upload[u].status = "finalized"}
\* references: no artifact, and no upload that is finalized or may yet be.
Unreferenced(k) ==
    /\ k \notin registered
    /\ k \in Uploads =>
          \/ upload[k].status = "none"
          \/ upload[k].status # "finalized" /\ upload[k].job = "over"

\* head: the object is there, with its etag, and is older than a week.
Inspect(s, k) ==
    /\ sweep[s].pc = "idle"
    /\ object[k] = "old"
    /\ sweep' = [sweep EXCEPT ![s] = [pc |-> "selected", key |-> k]]
    /\ UNCHANGED <<policyVars, template, attempt, upload, objectVars>>

\* INSERT ... SELECT ... WHERE references: the tombstone, or no row.
Claim(s) ==
    /\ sweep[s].pc = "selected"
    /\ IF Unreferenced(sweep[s].key)
         THEN /\ tombstone' = tombstone \cup {sweep[s].key}
              /\ sweep' = [sweep EXCEPT ![s].pc = "claimed"]
         ELSE /\ sweep' = [sweep EXCEPT ![s] = IdleSweep]
              /\ UNCHANGED tombstone
    /\ UNCHANGED <<policyVars, template, attempt, upload, object, registered>>

DeleteOrphan(s) ==
    /\ sweep[s].pc = "claimed"
    /\ object' = [object EXCEPT ![sweep[s].key] = "absent"]
    /\ sweep' = [sweep EXCEPT ![s] =
          IF @.key \in Uploads THEN [@ EXCEPT !.pc = "deleted"] ELSE IdleSweep]
    /\ UNCHANGED <<policyVars, template, attempt, upload, registered, tombstone>>

\* The batch that follows removes the reservation, if there is one.
CloseOrphan(s) ==
    /\ sweep[s].pc = "deleted"
    /\ upload' = [u \in Uploads |->
          IF u = sweep[s].key /\ upload[u].status # "finalized"
          THEN [upload[u] EXCEPT !.status = "none"] ELSE upload[u]]
    /\ sweep' = [sweep EXCEPT ![s] = IdleSweep]
    /\ UNCHANGED <<policyVars, template, attempt, objectVars>>

\* A sweep fails or dies between two awaits; its tombstone stays.
SweepDies(s) ==
    /\ sweep[s].pc # "idle"
    /\ sweep' = [sweep EXCEPT ![s] = IdleSweep]
    /\ UNCHANGED <<policyVars, template, attempt, upload, objectVars>>

\* A week passes.
Age(k) ==
    /\ object[k] = "recent"
    /\ object' = [object EXCEPT ![k] = "old"]
    /\ UNCHANGED <<policyVars, template, attempt, upload, registered, tombstone, sweep>>

-----------------------------------------------------------------------------
ClerkStep(c) ==
    \/ \E p \in Policies, d \in Definitions : RegisterPolicy(c, p, d)
    \/ InsertPolicy(c) \/ RecoverPolicy(c)
    \/ \E p \in Policies, next \in {"deprecated", "retired"} : ChangePolicy(c, p, next)
    \/ UpdatePolicy(c)

AttemptStep(a) ==
    \/ \E p \in Policies : GenerateTemplate(a, p)
    \/ CreateModel(a)
    \/ PutObject(a) \/ CommitObject(a) \/ DiscardObject(a)

UploadStep(u) ==
    \/ ReserveUpload(u) \/ UploadFrame(u) \/ VerifyFrame(u) \/ FinalizeFrame(u)
    \/ JobMoves(u)

SweepStep(s) ==
    \/ \E k \in Keys : Inspect(s, k)
    \/ Claim(s) \/ DeleteOrphan(s) \/ CloseOrphan(s) \/ SweepDies(s)

RegistrationNext ==
    \/ \E c \in Clerks : ClerkStep(c)
    \/ \E a \in Attempts : AttemptStep(a)
    \/ \E u \in Uploads : UploadStep(u)
    \/ \E s \in Sweeps : SweepStep(s)
    \/ \E k \in Keys : Age(k)

RegistrationSpec == RegistrationInit /\ [][RegistrationNext]_vars

-----------------------------------------------------------------------------
(***************************************************************************)
(* Properties                                                              *)
(***************************************************************************)

\* What is registered stays in the bucket and is never claimed as an orphan,
\* however old it was when its batch committed, and whichever attempts at the
\* same template lost (operations.ts:54-59, template-registry.ts:178-184).
RegisteredHasBytes ==
    \A k \in registered : object[k] # "absent" /\ k \notin tombstone

\* A frame that a running job has uploaded and may still put into its frame
\* set is not swept, though no artifact row names it yet (operations.ts:12-13).
LiveUploadKept ==
    \A u \in Uploads :
        upload[u].status = "uploaded" /\ upload[u].job = "leased" =>
            object[u] # "absent"

PolicyRank == [none |-> 0, active |-> 1, deprecated |-> 2, retired |-> 3]

\* A policy version is withdrawn step by step and never restored, also when
\* two clerks decided on the same row: a retired policy is not deprecated
\* afterwards (template-registry.ts:205-216).
PolicyOnlyForward ==
    [][\A p \in Policies : policy'[p] # policy[p] =>
          PolicyRank[policy[p].status] < PolicyRank[policy'[p].status]]_vars

\* Whoever was told that a definition is registered under a version finds
\* that definition in it for good, and nobody was told so of another one
\* (template-registry.ts:87-101).
AnsweredDefinitionStands ==
    \A p \in Policies : promised[p] \subseteq {policy[p].definition}
=============================================================================
