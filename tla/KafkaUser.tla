----------------------------- MODULE KafkaUser ------------------------------
(***************************************************************************)
(* KafkaUserReconciler and one KafkaUser: the resource, which is created,  *)
(* edited, moved to another Kafka and deleted; the Secret with the         *)
(* credentials; the user and its ACLs in Kafka; and the cache of hashes of *)
(* the reconciler.  Every call of the cycle is a step of its own.          *)
(*                                                                         *)
(* A password is the version of the Secret it is from.  Labels, which are  *)
(* hashed like the specification, and the messages of the status are left  *)
(* out; a status is written by name, with retries on conflicts.            *)
(***************************************************************************)
EXTENDS Naturals

CONSTANTS
    Asked,        \* specifications clients ask for
    Authorization, \* Kafka has an authorizer
    MaxEdits, MaxVersions, MaxFaults

\* Specifications that differ in what the reconciler looks at.
Kinds == {"manual", "generated", "foreign", "detached", "bare", "unsupported"}

ASSUME UserAssumption ==
    /\ Asked \subseteq Kinds /\ Authorization \in BOOLEAN
    /\ MaxEdits \in Nat /\ MaxVersions \in Nat /\ MaxFaults \in Nat

VARIABLES
    cr,      \* the resource, with its status
    secret,  \* its last version, whether it exists and whether it is valid
    kafka,   \* version of the password of the user, 0 without a user; its ACLs;
             \* history: the changes it refused and has not made since
    hash,    \* ResourceHashes
    queued, pc, run,
    edits, faults,
    moved,   \* history: the resource was given to another Kafka
    kept     \* history: the hashes of a deleted resource were kept

vars == <<cr, secret, kafka, hash, queued, pc, run, edits, faults, moved, kept>>

Roles == {"admin", "namespace-admin"}

\* The changes the cycle asks Kafka for: the password, the ACLs of a role, and
\* the deletions.
Changes == {"password", "deleteUser", "deleteACLs"} \union Roles

\* authentication.secret and authentication.watchSecret
HasSecret(kind) == kind # "bare"

Generate(kind) == kind \in {"generated", "foreign"}

\* The operator may create Secrets in the namespace of the resource.
Granted(kind) == kind # "foreign"

WatchSecret(kind) == kind \notin {"detached", "bare"}

\* authorization.role: the schema admits roles that createACLs does not know.
Role(kind) ==
    CASE kind = "unsupported" -> "namespace-producer"
      [] kind \in {"manual", "bare"} -> "namespace-admin"
      [] OTHER -> "admin"

States == {"none", "processing", "success", "failure"}

\* The resource; "there" is FALSE for one that does not exist.
Resources ==
    [there : BOOLEAN, spec : Kinds, generation : Nat, deleting : BOOLEAN,
     finalizer : BOOLEAN, mine : BOOLEAN,
     state : States, observed : Nat, auth : Nat]

Secrets == [version : Nat, there : BOOLEAN, valid : BOOLEAN]

Kafkas == [password : Nat, acls : SUBSET Roles, refused : SUBSET Changes]

NoResource ==
    [there |-> FALSE, spec |-> "manual", generation |-> 0, deleting |-> FALSE,
     finalizer |-> FALSE, mine |-> TRUE, state |-> "none", observed |-> 0,
     auth |-> 0]

\* What a cycle has read: the resource and the version of the Secret.
NoRun == [cr |-> NoResource, changed |-> FALSE, secret |-> 0]

world == <<edits, moved>>

NoHash == <<>>

HashOf(c) == <<c.spec, c.mine>>

Fault == faults < MaxFaults /\ faults' = faults + 1

\* A call to Kafka that returns no error.  The admin client hands over what
\* Kafka says about each entry of the request as a result, which nobody reads:
\* a change that Kafka refused passes for made.
Ask(change, made) ==
    \/ kafka' = [made EXCEPT !.refused = @ \ {change}] /\ UNCHANGED faults
    \/ Fault /\ kafka' = [kafka EXCEPT !.refused = @ \union {change}]

-----------------------------------------------------------------------------
(* Clients *)

\* Events of resources of another Kafka are filtered out.
kafkaHostFilterFunction(c) == c.mine

Create ==
    /\ ~cr.there /\ edits < MaxEdits /\ edits' = edits + 1
    /\ \E spec \in Asked :
          cr' = [NoResource EXCEPT !.there = TRUE, !.spec = spec, !.generation = 1]
    /\ queued' = TRUE
    /\ UNCHANGED <<secret, kafka, hash, pc, run, faults, moved, kept>>

Edit ==
    /\ cr.there /\ ~cr.deleting /\ edits < MaxEdits /\ edits' = edits + 1
    /\ \E spec \in Asked \ {cr.spec} :
          cr' = [cr EXCEPT !.spec = spec, !.generation = @ + 1]
    /\ queued' = (queued \/ kafkaHostFilterFunction(cr))
    /\ UNCHANGED <<secret, kafka, hash, pc, run, faults, moved, kept>>

\* Without a finalizer the resource is gone at once.
Delete ==
    /\ cr.there /\ ~cr.deleting /\ edits < MaxEdits /\ edits' = edits + 1
    /\ cr' = IF cr.finalizer
             THEN [cr EXCEPT !.deleting = TRUE, !.generation = @ + 1]
             ELSE NoResource
    /\ queued' = (queued \/ kafkaHostFilterFunction(cr))
    /\ UNCHANGED <<secret, kafka, hash, pc, run, faults, moved, kept>>

\* The annotation with the bootstrap servers is changed.
Move ==
    /\ cr.there /\ cr.mine /\ edits < MaxEdits /\ edits' = edits + 1
    /\ cr' = [cr EXCEPT !.mine = FALSE] /\ moved' = TRUE
    /\ UNCHANGED <<secret, kafka, hash, queued, pc, run, faults, kept>>

\* The operator of that Kafka has the same finalizer.
OtherOperator ==
    /\ cr.there /\ ~cr.mine /\ cr.deleting
    /\ cr' = NoResource
    /\ UNCHANGED <<secret, kafka, hash, queued, pc, run, edits, faults,
                   moved, kept>>

\* Nobody watches Secrets.
ChangeSecret ==
    /\ secret.version < MaxVersions
    /\ \E there, valid \in BOOLEAN :
          /\ valid => there
          /\ secret' = [version |-> secret.version + 1, there |-> there, valid |-> valid]
    /\ UNCHANGED <<cr, kafka, hash, queued, pc, run, edits, faults, moved, kept>>

-----------------------------------------------------------------------------
(* The cycle *)

At(label) == pc = label /\ UNCHANGED world

Goto(label) == pc' = label

Return == pc' = "idle" /\ run' = NoRun

\* An error or a delay is returned: there is another cycle.
Requeue == Return /\ queued' = TRUE

Continue(label) == Goto(label) /\ UNCHANGED <<run, queued>>

\* The resource is read again, by name, before it is written.
UpdateStatusWithRetry(updated, label) ==
    IF cr.there THEN cr' = updated /\ Continue(label)
    ELSE cr' = cr /\ Requeue

\* Variant: a failed cycle is not repeated.
processErrorOnce ==
    /\ cr' = IF cr.there THEN [cr EXCEPT !.state = "failure"] ELSE cr
    /\ Return /\ UNCHANGED queued

\* Also processAuthenticationError and processAuthorizationError.
processError ==
    /\ cr' = IF cr.there THEN [cr EXCEPT !.state = "failure"] ELSE cr
    /\ Requeue

\* Variant: the hash is stored as soon as it is known to be new.
GetRemembering ==
    /\ At("idle") /\ queued /\ queued' = FALSE
    /\ IF ~cr.there THEN Return
       ELSE LET changed == hash # HashOf(cr)
            IN  /\ run' = [cr |-> cr, changed |-> changed, secret |-> 0]
                /\ pc' = IF changed THEN "processing" ELSE "client"
    /\ hash' = IF cr.there THEN HashOf(cr) ELSE hash
    /\ UNCHANGED <<cr, secret, kafka, faults, kept>>

\* The hashes of a resource that is gone stay.
Get ==
    /\ At("idle") /\ queued /\ queued' = FALSE
    /\ IF ~cr.there THEN Return
       ELSE LET changed == hash # HashOf(cr)
            IN  /\ run' = [cr |-> cr, changed |-> changed, secret |-> 0]
                /\ pc' = IF changed THEN "processing" ELSE "client"
    /\ UNCHANGED <<cr, secret, kafka, hash, faults, kept>>

Processing ==
    /\ At("processing")
    /\ UpdateStatusWithRetry([cr EXCEPT !.state = "processing"], "client")
    /\ UNCHANGED <<secret, kafka, hash, faults, kept>>

\* newKafkaAdminClient
Client ==
    /\ At("client")
    /\ Continue(CASE run.cr.deleting /\ run.cr.finalizer -> "deleteUser"
                  [] run.cr.deleting /\ ~run.cr.finalizer -> "forget"
                  [] ~run.cr.deleting /\ ~run.cr.finalizer -> "finalizer"
                  [] ~run.cr.deleting /\ run.cr.finalizer /\ run.changed -> "generate"
                  [] OTHER -> "success")
    /\ UNCHANGED <<cr, secret, kafka, hash, faults, kept>>

deleteKafkaUser ==
    /\ At("deleteUser")
    /\ Ask("deleteUser", [kafka EXCEPT !.password = 0])
    /\ Continue("deleteACLs")
    /\ UNCHANGED <<cr, secret, hash, kept>>

\* Variant: only the ACLs of the present role are deleted.
deleteACLsOfRole ==
    /\ At("deleteACLs")
    /\ Ask("deleteACLs", [kafka EXCEPT !.acls = @ \ {Role(run.cr.spec)}])
    /\ Continue("unfinalize")
    /\ UNCHANGED <<cr, secret, hash, kept>>

deleteACLs ==
    /\ At("deleteACLs")
    /\ Ask("deleteACLs", [kafka EXCEPT !.acls = {}])
    /\ Continue("unfinalize")
    /\ UNCHANGED <<cr, secret, hash, kept>>

RemoveFinalizer ==
    /\ At("unfinalize")
    /\ IF cr.there
       THEN /\ cr' = IF cr.deleting THEN NoResource
                     ELSE [cr EXCEPT !.finalizer = FALSE]
            /\ Continue("forget") /\ UNCHANGED kept
       ELSE cr' = cr /\ Requeue /\ kept' = TRUE
    /\ UNCHANGED <<secret, kafka, hash, faults>>

\* The hashes are deleted once the answer to the update is there.
Forget ==
    /\ At("forget")
    /\ hash' = NoHash /\ Return
    /\ UNCHANGED <<cr, secret, kafka, queued, faults, kept>>

AddFinalizer ==
    /\ At("finalizer")
    /\ IF cr.there
       THEN /\ cr' = [cr EXCEPT !.finalizer = TRUE]
            /\ Continue(IF run.changed THEN "generate" ELSE "success")
       ELSE cr' = cr /\ Requeue
    /\ UNCHANGED <<secret, kafka, hash, faults, kept>>

\* Without a Secret in the specification the cycle panics here.
generateSecret ==
    /\ At("generate")
    /\ CASE ~HasSecret(run.cr.spec) -> Requeue /\ UNCHANGED <<cr, secret>>
         [] Generate(run.cr.spec) /\ ~Granted(run.cr.spec) ->
               processError /\ UNCHANGED secret
         [] OTHER ->
               /\ secret' = IF Generate(run.cr.spec) /\ ~secret.there
                            THEN [version |-> secret.version + 1, there |-> TRUE,
                                  valid |-> TRUE]
                            ELSE secret
               /\ Continue("secret") /\ UNCHANGED cr
    /\ UNCHANGED <<kafka, hash, faults, kept>>

\* FindSecret, extractConnectionProperties and the user name.  The version
\* is compared with the one in the status as it was at the start.
FindSecret ==
    /\ At("secret")
    /\ CASE ~WatchSecret(run.cr.spec) -> Continue("detach") /\ UNCHANGED cr
         [] WatchSecret(run.cr.spec) /\ ~(secret.there /\ secret.valid) -> processError
         [] OTHER -> /\ run' = [run EXCEPT !.secret = secret.version]
                     /\ Goto(IF secret.version # run.cr.auth THEN "upsert" ELSE "createACLs")
                     /\ UNCHANGED <<cr, queued>>
    /\ UNCHANGED <<secret, kafka, hash, faults, kept>>

\* Variant: the version is recorded before the password is set.
upsertKafkaUserRecorded ==
    /\ At("upsert")
    /\ IF cr.auth # run.secret
       THEN /\ cr' = [cr EXCEPT !.auth = run.secret] /\ Continue("upsert")
            /\ UNCHANGED <<kafka, faults>>
       ELSE /\ Ask("password", [kafka EXCEPT !.password = run.secret])
            /\ Continue("createACLs") /\ UNCHANGED cr
    /\ UNCHANGED <<secret, hash, kept>>

upsertKafkaUser ==
    /\ At("upsert")
    /\ Ask("password", [kafka EXCEPT !.password = run.secret])
    /\ Continue("record")
    /\ UNCHANGED <<cr, secret, hash, kept>>

Record ==
    /\ At("record")
    /\ UpdateStatusWithRetry([cr EXCEPT !.auth = run.secret], "createACLs")
    /\ UNCHANGED <<secret, kafka, hash, faults, kept>>

Detach ==
    /\ At("detach")
    /\ UpdateStatusWithRetry([cr EXCEPT !.auth = 0], "createACLs")
    /\ UNCHANGED <<secret, kafka, hash, faults, kept>>

\* Entries of a former role stay: they are compared without their resource.
createACLs ==
    /\ At("createACLs")
    /\ IF Role(run.cr.spec) \notin Roles
       THEN processError /\ UNCHANGED <<kafka, faults>>
       ELSE /\ IF Authorization
               THEN Ask(Role(run.cr.spec),
                        [kafka EXCEPT !.acls = @ \union {Role(run.cr.spec)}])
               ELSE UNCHANGED <<kafka, faults>>
            /\ Continue("authorized") /\ UNCHANGED cr
    /\ UNCHANGED <<secret, hash, kept>>

\* The state of the authorization is written, then the hashes are stored.
Authorized ==
    /\ At("authorized")
    /\ IF cr.there
       THEN hash' = HashOf(run.cr) /\ Continue("success")
       ELSE Requeue /\ UNCHANGED hash
    /\ UNCHANGED <<cr, secret, kafka, faults, kept>>

Success ==
    /\ At("success")
    /\ IF cr.there
       THEN /\ cr' = [cr EXCEPT !.observed = run.cr.generation, !.state = "success"]
            /\ Return /\ UNCHANGED queued
       ELSE Requeue /\ cr' = cr
    /\ UNCHANGED <<secret, kafka, hash, faults, kept>>

-----------------------------------------------------------------------------
(* Faults *)

\* A call to Kafka fails.
KafkaFails ==
    /\ pc \in {"client", "deleteUser", "deleteACLs", "upsert", "createACLs"}
    /\ Fault /\ processError
    /\ UNCHANGED <<secret, kafka, hash, kept>> /\ UNCHANGED world

\* A call to the API server fails, or what it did is done and the answer to
\* it is lost; after "unfinalize" the latter leaves the hashes behind.
ApiFails ==
    /\ pc \in {"processing", "unfinalize", "forget", "finalizer", "record",
               "detach", "authorized", "success"}
    /\ Fault /\ Requeue
    /\ kept' = (kept \/ pc = "forget")
    /\ UNCHANGED <<cr, secret, kafka, hash>> /\ UNCHANGED world

\* The resources a new process finds are events for it.
Crash ==
    /\ pc # "idle"
    /\ Fault /\ hash' = NoHash /\ Return
    /\ queued' = (cr.there /\ kafkaHostFilterFunction(cr))
    /\ UNCHANGED <<cr, secret, kafka, kept>> /\ UNCHANGED world

-----------------------------------------------------------------------------
Init ==
    /\ cr = NoResource
    /\ secret = [version |-> 0, there |-> FALSE, valid |-> FALSE]
    /\ kafka = [password |-> 0, acls |-> {}, refused |-> {}]
    /\ hash = NoHash /\ queued = FALSE /\ pc = "idle" /\ run = NoRun
    /\ edits = 0 /\ faults = 0 /\ moved = FALSE /\ kept = FALSE

Clients == Create \/ Edit \/ Delete \/ Move \/ ChangeSecret

Deletion == deleteKafkaUser \/ deleteACLs \/ RemoveFinalizer \/ Forget

Application ==
    \/ AddFinalizer \/ generateSecret \/ FindSecret \/ upsertKafkaUser
    \/ Record \/ Detach \/ createACLs \/ Authorized \/ Success

Reconcile == Get \/ Processing \/ Client \/ Deletion \/ Application

Next == Clients \/ OtherOperator \/ Reconcile \/ KafkaFails \/ ApiFails \/ Crash

Spec == Init /\ [][Next]_vars

\* The worker of the controller and the other operator go on.
FairSpec == Spec /\ WF_vars(Reconcile) /\ WF_vars(OtherOperator)

-----------------------------------------------------------------------------
Labels ==
    {"idle", "processing", "client", "deleteUser", "deleteACLs", "unfinalize",
     "forget", "finalizer", "generate", "secret", "upsert", "record", "detach",
     "createACLs", "authorized", "success"}

\* Types; what does not exist has no status.
TypeOK ==
    /\ cr \in Resources /\ (~cr.there => cr = NoResource)
    /\ secret \in Secrets
    /\ kafka \in Kafkas
    /\ hash \in {NoHash} \union (Kinds \X BOOLEAN)
    /\ queued \in BOOLEAN /\ pc \in Labels
    /\ run \in [cr : Resources, changed : BOOLEAN, secret : Nat]
    /\ edits \in 0..MaxEdits /\ faults \in 0..MaxFaults
    /\ moved \in BOOLEAN /\ kept \in BOOLEAN

\* The version of the Secret in the status is never ahead of the password in
\* Kafka, unless Kafka refused the password: a cycle that skips the update
\* because the versions agree (kafkauser_controller.go:205) skips nothing.
RecordNotAhead ==
    cr.there /\ ~cr.deleting /\ "password" \notin kafka.refused =>
        kafka.password >= cr.auth

AtRest == pc = "idle" /\ ~queued

\* At rest, a resource is not waiting to be deleted, its state is "success" for
\* its present generation, and it has its user and the ACLs of its role, unless
\* Kafka refused them: although a cycle with unchanged hashes does no work and
\* reports success all the same.  What it has in Kafka is left open if the
\* hashes outlived a deleted resource, or the resource was with another Kafka.
SuccessMeansApplied ==
    AtRest /\ cr.there /\ cr.mine
    => /\ ~cr.deleting /\ cr.state = "success" /\ cr.observed = cr.generation
       /\ ~kept /\ ~moved =>
             /\ WatchSecret(cr.spec) =>
                   kafka.password # 0 \/ "password" \in kafka.refused
             /\ Authorization =>
                   Role(cr.spec) \in kafka.acls \union kafka.refused

\* Kafka has no user and no ACLs of a resource that is gone, unless it refused
\* to delete them: the finalizer is there before the first call to Kafka and
\* until after the last, whatever call fails and wherever the operator stops.
NoOrphan ==
    ~cr.there /\ ~moved =>
        /\ kafka.password = 0 \/ "deleteUser" \in kafka.refused
        /\ kafka.acls = {} \/ "deleteACLs" \in kafka.refused

\* At rest, a resource with state "success" has its user in Kafka.
UserExists ==
    AtRest /\ cr.there /\ cr.mine /\ ~kept /\ ~moved /\ WatchSecret(cr.spec) =>
        kafka.password # 0

\* At rest, a resource has the ACLs of no other role than its own.
FormerRolesGone ==
    AtRest /\ cr.there /\ cr.mine /\ ~kept /\ ~moved =>
        kafka.acls \subseteq {Role(cr.spec)}

\* What the reconciler can apply.
Acceptable ==
    /\ cr.there /\ ~cr.deleting /\ cr.mine
    /\ HasSecret(cr.spec) /\ Role(cr.spec) \in Roles
    /\ Generate(cr.spec) => Granted(cr.spec)
    /\ WatchSecret(cr.spec) => secret.there /\ secret.valid

\* A deleted resource goes away in the end, and one that stays acceptable is
\* reported as applied in its present generation: what waits for a Secret, which
\* nobody watches, and what a call failed to do, is tried again.
EventuallyApplied ==
    /\ cr.deleting ~> ~cr.there
    /\ <>[]Acceptable => <>[](cr.state = "success" /\ cr.observed = cr.generation)
=============================================================================
