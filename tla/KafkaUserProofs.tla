--------------------------- MODULE KafkaUserProofs ---------------------------
(* Proofs about KafkaUser for all sets of specifications, with and without   *)
(* an authorizer, and for any number of edits, versions of the Secret and    *)
(* faults.                                                                   *)
EXTENDS KafkaUser, TLAPS

\* Where a cycle is that applies the specification, and one that undoes it.
Applying ==
    {"generate", "secret", "upsert", "record", "detach", "createACLs", "authorized"}

Undoing == {"deleteUser", "deleteACLs", "unfinalize"}

\* Kafka has nothing of the resource, but what it refused to delete.
Empty ==
    /\ kafka.password = 0 \/ "deleteUser" \in kafka.refused
    /\ kafka.acls = {} \/ "deleteACLs" \in kafka.refused

\* Kafka has a user, or refused the password of one.
HasUser == kafka.password # 0 \/ "password" \in kafka.refused

\* What Kafka has is guarded by the finalizer, which is there while a cycle
\* applies the specification; a resource that was never moved is ours.
Guarded ==
    ~moved =>
        /\ cr.mine
        /\ ~cr.finalizer => Empty
        /\ pc \in {"processing", "client"} /\ run.cr.finalizer => cr.finalizer
        /\ pc \in Applying => cr.finalizer

\* The finalizer is removed from a resource without a user and ACLs.
Emptied ==
    /\ pc = "deleteACLs" => kafka.password = 0 \/ "deleteUser" \in kafka.refused
    /\ pc = "unfinalize" => Empty

\* A cycle undoes only what is being deleted, or what is gone and created anew.
Doomed ==
    pc \in Undoing \/ (pc \in {"processing", "client"} /\ run.cr.deleting)
        => cr.deleting \/ cr.auth = 0

\* Versions only grow, and a cycle has read the last that it knows of.
Versions ==
    /\ cr.auth <= secret.version
    /\ pc \in {"upsert", "record"} => cr.auth <= run.secret /\ run.secret <= secret.version
    /\ pc = "record" => kafka.password = run.secret \/ "password" \in kafka.refused

Applied(spec) ==
    /\ WatchSecret(spec) => HasUser
    /\ Authorization => Role(spec) \in kafka.acls \union kafka.refused

\* How far a cycle has come; it starts from a user if the status has a version.
Progress ==
    /\ secret.valid => secret.version # 0
    /\ cr.deleting => cr.finalizer
    /\ pc # "idle" /\ run.cr.deleting => run.cr.finalizer
    /\ pc \in Applying \union {"finalizer"} => ~run.cr.deleting
    /\ pc \in {"processing", "client", "finalizer", "generate", "secret"}
          /\ ~run.cr.deleting /\ run.cr.auth # 0 => HasUser
    /\ pc \in {"upsert", "record"} => run.secret # 0
    /\ pc = "detach" => ~WatchSecret(run.cr.spec)
    /\ pc \in {"createACLs", "authorized"} /\ WatchSecret(run.cr.spec) => HasUser
    /\ pc = "authorized" => Applied(run.cr.spec)

Clean == ~moved /\ ~kept

\* The hashes are those of a specification that is applied, until the resource
\* is deleted.
Hashes ==
    /\ Clean /\ hash # NoHash /\ pc # "forget" =>
          cr.finalizer /\ (~cr.deleting => Applied(hash[1]))
    /\ Clean /\ (pc \in Undoing \/ (pc \in {"processing", "client"} /\ run.cr.deleting))
          => cr.deleting
    /\ pc \in {"processing", "client", "finalizer"} /\ ~run.changed
          => hash = HashOf(run.cr)
    /\ pc = "success" => hash = HashOf(run.cr)

\* A cycle works on the last specification, or there will be another.
Latest ==
    Clean /\ cr.there /\ ~cr.deleting /\ ~queued =>
        /\ pc # "forget"
        /\ pc # "idle" => run.cr.spec = cr.spec /\ run.cr.mine
        /\ pc = "idle" /\ cr.state = "success" => hash = HashOf(cr)

IInv ==
    /\ TypeOK /\ Guarded /\ Emptied /\ Doomed /\ Versions /\ RecordNotAhead
    /\ Progress /\ Hashes /\ Latest

-----------------------------------------------------------------------------
\* What an answer without an error tells: the change was made, or refused.
LEMMA AskKafka ==
    ASSUME TypeOK, NEW c \in Changes, NEW made \in Kafkas, Ask(c, made)
    PROVE  /\ kafka' \in Kafkas /\ faults' \in 0..MaxFaults
           /\ \/ /\ kafka'.password = made.password /\ kafka'.acls = made.acls
                 /\ kafka'.refused = made.refused \ {c}
              \/ /\ kafka'.password = kafka.password /\ kafka'.acls = kafka.acls
                 /\ kafka'.refused = kafka.refused \union {c}
<1>1. CASE kafka' = [made EXCEPT !.refused = @ \ {c}] /\ UNCHANGED faults
  BY <1>1, Zenon DEF TypeOK, Kafkas
<1>2. CASE Fault /\ kafka' = [kafka EXCEPT !.refused = @ \union {c}]
  <2>1. faults' \in 0..MaxFaults
    BY <1>2, UserAssumption DEF Fault, TypeOK
  <2>2. kafka.refused \union {c} \in SUBSET Changes
    BY DEF TypeOK, Kafkas
  <2>3. QED
    BY <1>2, <2>1, <2>2, Zenon DEF TypeOK, Kafkas
<1>3. QED
  BY <1>1, <1>2, Zenon DEF Ask

\* A cycle that ends, for another one to follow.  Hashes that stay behind a
\* deleted resource are noted.
LEMMA EndKeeps ==
    ASSUME IInv, pc' = "idle", run' = NoRun, queued' \in BOOLEAN,
           queued' \/ ~cr.there \/ ~cr.mine,
           UNCHANGED <<secret, kafka, edits, moved>>, faults' \in 0..MaxFaults,
           hash' = hash \/ hash' = NoHash,
           cr' = cr \/ (cr.there /\ cr' = [cr EXCEPT !.state = "failure"]),
           kept' \in BOOLEAN, kept => kept', pc = "forget" => kept' \/ hash' = NoHash
    PROVE  IInv'
<1>1. /\ cr' \in Resources /\ cr'.there = cr.there /\ cr'.deleting = cr.deleting
      /\ cr'.finalizer = cr.finalizer /\ cr'.mine = cr.mine /\ cr'.auth = cr.auth
      /\ ~cr'.there => cr' = NoResource
  BY DEF IInv, TypeOK, Resources, States
<1>2. TypeOK'
  BY <1>1, Zenon DEF IInv, TypeOK, Resources, Secrets, Labels, NoRun, NoResource, Kinds, States
<1>3. Guarded'
  BY <1>1, Zenon DEF IInv, Guarded, TypeOK, Empty, Applying
<1>4. Emptied'
  BY <1>1, Zenon DEF IInv, Emptied, TypeOK, Empty
<1>5. Doomed'
  BY <1>1, Zenon DEF IInv, Doomed, TypeOK, Undoing
<1>6. Versions'
  BY <1>1, Zenon DEF IInv, Versions, TypeOK, Secrets, Resources
<1>7. RecordNotAhead'
  BY <1>1, Zenon DEF IInv, RecordNotAhead, TypeOK, Resources
<1>8. Progress'
  BY <1>1, Zenon DEF IInv, Progress, TypeOK, Applied, HasUser, Applying
<1>9. Hashes'
  BY <1>1, Zenon DEF IInv, Hashes, TypeOK, Clean, Applied, HasUser, Undoing, HashOf
<1>10. Latest'
  BY <1>1, Zenon DEF IInv, Latest, TypeOK, Clean, Guarded
<1>11. QED
  BY <1>2, <1>3, <1>4, <1>5, <1>6, <1>7, <1>8, <1>9, <1>10, Zenon DEF IInv

\* Create: Kafka has nothing of a resource that is not there.
LEMMA CreateKeeps ==
    ASSUME IInv, Create
    PROVE  IInv'
<1>1. PICK spec \in Asked :
          cr' = [NoResource EXCEPT !.there = TRUE, !.spec = spec, !.generation = 1]
  BY Zenon DEF Create
<1>2. /\ cr' \in Resources /\ cr'.there /\ ~cr'.deleting /\ ~cr'.finalizer
      /\ cr'.mine /\ cr'.auth = 0
  BY <1>1, UserAssumption, Zenon DEF Resources, NoResource, States
<1>3. /\ cr = NoResource /\ queued' = TRUE
      /\ UNCHANGED <<secret, kafka, hash, pc, run, faults, moved, kept>>
  BY Zenon DEF Create, IInv, TypeOK
<1>4. edits' \in 0..MaxEdits
  BY UserAssumption DEF Create, IInv, TypeOK
<1>5. TypeOK'
  BY <1>2, <1>3, <1>4 DEF IInv, TypeOK, Resources, Secrets, Labels
<1>6. Guarded'
  BY <1>2, <1>3, <1>4, Zenon DEF IInv, Guarded, TypeOK, Empty, Applying, NoResource
<1>7. Emptied'
  BY <1>2, <1>3, <1>4, Zenon DEF IInv, Emptied, TypeOK, Empty
<1>8. Doomed'
  BY <1>2, <1>3, <1>4, Zenon DEF IInv, Doomed, TypeOK, Undoing
<1>9. Versions'
  BY <1>2, <1>3, <1>4 DEF IInv, Versions, TypeOK, Secrets, Resources
<1>10. RecordNotAhead'
  BY <1>2, <1>3, <1>4 DEF IInv, RecordNotAhead, TypeOK, Resources, Kafkas
<1>11. Progress'
  BY <1>2, <1>3, <1>4, Zenon DEF IInv, Progress, TypeOK, Applied, HasUser, Applying, NoResource
<1>12. Hashes'
  BY <1>2, <1>3, <1>4, Zenon DEF IInv, Hashes, TypeOK, Clean, Applied, HasUser, Undoing, HashOf, NoResource
<1>13. Latest'
  BY <1>2, <1>3, <1>4, Zenon DEF IInv, Latest, TypeOK, Clean, Guarded
<1>14. QED
  BY <1>5, <1>6, <1>7, <1>8, <1>9, <1>10, <1>11, <1>12, <1>13, Zenon DEF IInv

\* Edit: there will be a cycle for the new specification.
LEMMA EditKeeps ==
    ASSUME IInv, Edit
    PROVE  IInv'
<1>1. PICK spec \in Asked : cr' = [cr EXCEPT !.spec = spec, !.generation = @ + 1]
  BY Zenon DEF Edit
<1>2. /\ cr' \in Resources /\ cr.there /\ cr'.there /\ cr'.deleting = cr.deleting
      /\ cr'.finalizer = cr.finalizer /\ cr'.mine = cr.mine /\ cr'.auth = cr.auth
      /\ UNCHANGED <<secret, kafka, hash, pc, run, faults, moved, kept>>
  <2>1. cr \in Resources /\ cr.generation + 1 \in Nat /\ spec \in Kinds
    BY UserAssumption DEF IInv, TypeOK, Resources
  <2>2. cr' \in Resources
    BY <1>1, <2>1, Zenon DEF Resources
  <2>3. QED
    BY <1>1, <2>1, <2>2, Zenon DEF Edit, Resources
<1>3. edits' \in 0..MaxEdits
  BY UserAssumption DEF Edit, IInv, TypeOK
<1>4. queued' \in BOOLEAN /\ (cr.mine => queued')
  BY Zenon DEF Edit, IInv, TypeOK, kafkaHostFilterFunction
<1>5. TypeOK'
  BY <1>2, <1>3, <1>4 DEF IInv, TypeOK, Resources, Secrets, Labels
<1>6. Guarded'
  BY <1>2, <1>3, <1>4, Zenon DEF IInv, Guarded, TypeOK, Empty, Applying
<1>7. Emptied'
  BY <1>2, <1>3, <1>4, Zenon DEF IInv, Emptied, TypeOK, Empty
<1>8. Doomed'
  BY <1>2, <1>3, <1>4, Zenon DEF IInv, Doomed, TypeOK, Undoing
<1>9. Versions'
  BY <1>2, <1>3, <1>4, Zenon DEF IInv, Versions, TypeOK, Secrets, Resources
<1>10. RecordNotAhead'
  BY <1>2, <1>3, <1>4, Zenon DEF IInv, RecordNotAhead, TypeOK, Resources
<1>11. Progress'
  BY <1>2, <1>3, <1>4, Zenon DEF IInv, Progress, TypeOK, Applied, HasUser, Applying
<1>12. Hashes'
  BY <1>2, <1>3, <1>4, Zenon DEF IInv, Hashes, TypeOK, Clean, Applied, HasUser, Undoing, HashOf
<1>13. Latest'
  BY <1>2, <1>3, <1>4, Zenon DEF IInv, Latest, TypeOK, Clean, Guarded
<1>14. QED
  BY <1>5, <1>6, <1>7, <1>8, <1>9, <1>10, <1>11, <1>12, <1>13, Zenon DEF IInv

\* Delete: without a finalizer the resource is gone, and nothing is in Kafka.
LEMMA DeleteKeeps ==
    ASSUME IInv, Delete
    PROVE  IInv'
<1>1. /\ cr' \in Resources /\ (cr'.there => cr'.deleting) /\ ~cr.deleting
      /\ ~cr'.there => cr' = NoResource /\ cr'.auth = 0 /\ ~cr'.deleting
      /\ cr'.finalizer = cr.finalizer /\ cr'.deleting = cr.finalizer /\ (cr.mine => cr'.mine)
      /\ cr'.auth = cr.auth \/ cr'.auth = 0
      /\ UNCHANGED <<secret, kafka, hash, pc, run, faults, moved, kept>>
  <2>1. CASE cr.finalizer
    <3>1. cr' = [cr EXCEPT !.deleting = TRUE, !.generation = @ + 1]
      BY <2>1, Zenon DEF Delete
    <3>2. cr \in Resources /\ cr.generation + 1 \in Nat
      BY DEF IInv, TypeOK, Resources
    <3>3. cr' \in Resources
      BY <3>1, <3>2, Zenon DEF Resources
    <3>4. QED
      BY <2>1, <3>1, <3>3, Zenon DEF Delete, IInv, TypeOK, Resources
  <2>2. CASE ~cr.finalizer
    BY <2>2, Zenon DEF Delete, IInv, TypeOK, Resources, NoResource, Kinds, States
  <2>3. QED
    BY <2>1, <2>2, Zenon
<1>2. edits' \in 0..MaxEdits
  BY UserAssumption DEF Delete, IInv, TypeOK
<1>3. queued' \in BOOLEAN
  BY Zenon DEF Delete, IInv, TypeOK, kafkaHostFilterFunction
<1>4. TypeOK'
  BY <1>1, <1>2, <1>3 DEF IInv, TypeOK, Resources, Secrets, Labels
<1>5. Guarded'
  BY <1>1, <1>2, <1>3, Zenon DEF IInv, Guarded, TypeOK, Empty, Applying
<1>6. Emptied'
  BY <1>1, <1>2, <1>3, Zenon DEF IInv, Emptied, TypeOK, Empty
<1>7. Doomed'
  BY <1>1, <1>2, <1>3, Zenon DEF IInv, Doomed, TypeOK, Undoing
<1>8. Versions'
  BY <1>1, <1>2, <1>3 DEF IInv, Versions, TypeOK, Secrets, Resources
<1>9. RecordNotAhead'
  BY <1>1, <1>2, <1>3, Zenon DEF IInv, RecordNotAhead, TypeOK, Resources
<1>10. Progress'
  BY <1>1, <1>2, <1>3, Zenon DEF IInv, Progress, TypeOK, Applied, HasUser, Applying
<1>11. Hashes'
  BY <1>1, <1>2, <1>3, Zenon DEF IInv, Hashes, TypeOK, Clean, Applied, HasUser, Undoing, HashOf
<1>12. Latest'
  BY <1>1, <1>2, <1>3, Zenon DEF IInv, Latest, TypeOK, Clean, Guarded
<1>13. QED
  BY <1>4, <1>5, <1>6, <1>7, <1>8, <1>9, <1>10, <1>11, <1>12, Zenon DEF IInv

\* Move: from here on the resource may be with another operator.
LEMMA MoveKeeps ==
    ASSUME IInv, Move
    PROVE  IInv'
<1>1. /\ cr' \in Resources /\ cr.there /\ cr'.there /\ cr'.deleting = cr.deleting
      /\ cr'.finalizer = cr.finalizer /\ cr'.auth = cr.auth
      /\ moved' = TRUE /\ UNCHANGED <<secret, kafka, hash, queued, pc, run, faults, kept>>
  BY Zenon DEF Move, IInv, TypeOK, Resources
<1>2. edits' \in 0..MaxEdits
  BY UserAssumption DEF Move, IInv, TypeOK
<1>3. TypeOK'
  BY <1>1, <1>2 DEF IInv, TypeOK, Resources, Secrets, Labels
<1>4. Guarded'
  BY <1>1, <1>2, Zenon DEF IInv, Guarded, TypeOK, Empty, Applying
<1>5. Emptied'
  BY <1>1, <1>2, Zenon DEF IInv, Emptied, TypeOK, Empty
<1>6. Doomed'
  BY <1>1, <1>2, Zenon DEF IInv, Doomed, TypeOK, Undoing
<1>7. Versions'
  BY <1>1, <1>2, Zenon DEF IInv, Versions, TypeOK, Secrets, Resources
<1>8. RecordNotAhead'
  BY <1>1, <1>2, Zenon DEF IInv, RecordNotAhead, TypeOK, Resources
<1>9. Progress'
  BY <1>1, <1>2, Zenon DEF IInv, Progress, TypeOK, Applied, HasUser, Applying
<1>10. Hashes'
  BY <1>1, <1>2, Zenon DEF IInv, Hashes, TypeOK, Clean, Applied, HasUser, Undoing, HashOf
<1>11. Latest'
  BY <1>1, <1>2, Zenon DEF IInv, Latest, TypeOK, Clean, Guarded
<1>12. QED
  BY <1>3, <1>4, <1>5, <1>6, <1>7, <1>8, <1>9, <1>10, <1>11, Zenon DEF IInv

\* Only a resource that was moved is with another operator.
LEMMA OtherOperatorKeeps ==
    ASSUME IInv, OtherOperator
    PROVE  IInv'
<1>1. /\ cr' = NoResource /\ cr' \in Resources /\ moved
      /\ UNCHANGED <<secret, kafka, hash, queued, pc, run, edits, faults, moved, kept>>
  BY Zenon DEF OtherOperator, IInv, Guarded, TypeOK, Resources, NoResource, Kinds, States
<1>2. TypeOK'
  BY <1>1 DEF IInv, TypeOK, Resources, Secrets, Labels
<1>3. Guarded'
  BY <1>1, Zenon DEF IInv, Guarded, TypeOK, Empty, Applying
<1>4. Emptied'
  BY <1>1, Zenon DEF IInv, Emptied, TypeOK, Empty
<1>5. Doomed'
  BY <1>1, Zenon DEF IInv, Doomed, TypeOK, Undoing, NoResource
<1>6. Versions'
  BY <1>1 DEF IInv, Versions, TypeOK, Secrets, Resources, NoResource
<1>7. RecordNotAhead'
  BY <1>1, Zenon DEF IInv, RecordNotAhead, TypeOK, Resources, NoResource
<1>8. Progress'
  BY <1>1, Zenon DEF IInv, Progress, TypeOK, Applied, HasUser, Applying, NoResource
<1>9. Hashes'
  BY <1>1, Zenon DEF IInv, Hashes, TypeOK, Clean, Applied, HasUser, Undoing, HashOf
<1>10. Latest'
  BY <1>1, Zenon DEF IInv, Latest, TypeOK, Clean, Guarded
<1>11. QED
  BY <1>2, <1>3, <1>4, <1>5, <1>6, <1>7, <1>8, <1>9, <1>10, Zenon DEF IInv

\* The versions of the Secret grow.
LEMMA ChangeSecretKeeps ==
    ASSUME IInv, ChangeSecret
    PROVE  IInv'
<1>1. /\ secret' \in Secrets /\ secret'.version = secret.version + 1
      /\ UNCHANGED <<cr, kafka, hash, queued, pc, run, edits, faults, moved, kept>>
  BY DEF ChangeSecret, IInv, TypeOK, Secrets
<1>2. secret.version \in Nat /\ cr.auth \in Nat /\ run.secret \in Nat
  BY Zenon DEF IInv, TypeOK, Secrets, Resources
<1>3. TypeOK'
  BY <1>1, <1>2 DEF IInv, TypeOK, Resources, Secrets, Labels
<1>4. Guarded'
  BY <1>1, <1>2, Zenon DEF IInv, Guarded, TypeOK, Empty, Applying
<1>5. Emptied'
  BY <1>1, <1>2, Zenon DEF IInv, Emptied, TypeOK, Empty
<1>6. Doomed'
  BY <1>1, <1>2, Zenon DEF IInv, Doomed, TypeOK, Undoing
<1>7. Versions'
  BY <1>1, <1>2 DEF IInv, Versions, TypeOK, Secrets, Resources
<1>8. RecordNotAhead'
  BY <1>1, <1>2, Zenon DEF IInv, RecordNotAhead, TypeOK, Resources
<1>9. Progress'
  BY <1>1, <1>2 DEF IInv, Progress, TypeOK, Applied, HasUser, Applying
<1>10. Hashes'
  BY <1>1, <1>2, Zenon DEF IInv, Hashes, TypeOK, Clean, Applied, HasUser, Undoing, HashOf
<1>11. Latest'
  BY <1>1, <1>2, Zenon DEF IInv, Latest, TypeOK, Clean, Guarded
<1>12. QED
  BY <1>3, <1>4, <1>5, <1>6, <1>7, <1>8, <1>9, <1>10, <1>11, Zenon DEF IInv

-----------------------------------------------------------------------------
\* Get starts a cycle from the resource as it is, or none.
LEMMA GetKeeps ==
    ASSUME IInv, Get
    PROVE  IInv'
<1>1. CASE ~cr.there
  <2>1. /\ pc' = "idle" /\ run' = NoRun /\ queued' = FALSE /\ pc = "idle"
        /\ UNCHANGED <<cr, secret, kafka, hash, faults, kept, edits, moved>>
    BY <1>1, Zenon DEF Get, At, Return, world
  <2>2. QED
    BY <1>1, <2>1, EndKeeps, Zenon DEF IInv, TypeOK
<1>2. CASE cr.there
  <2> DEFINE changed == hash # HashOf(cr)
  <2>1. /\ run' = [cr |-> cr, changed |-> changed, secret |-> 0] /\ queued' = FALSE
        /\ pc' = IF changed THEN "processing" ELSE "client"
        /\ pc = "idle" /\ UNCHANGED <<cr, secret, kafka, hash, faults, kept, edits, moved>>
    BY <1>2, Zenon DEF Get, At, world
  <2>2. changed \in BOOLEAN /\ (~changed => hash = HashOf(cr))
    BY Zenon
  <2> HIDE DEF changed
  <2>3. /\ run' \in [cr : Resources, changed : BOOLEAN, secret : Nat]
        /\ run'.cr = cr /\ (~run'.changed => hash = HashOf(cr))
        /\ pc' \in {"processing", "client"}
    BY <2>1, <2>2, Zenon DEF IInv, TypeOK
  <2>4. TypeOK'
    BY <1>2, <2>1, <2>3, ZenonT(40) DEF IInv, TypeOK, Resources, Secrets, Labels
  <2>5. Guarded'
    BY <1>2, <2>1, <2>3, Zenon DEF IInv, Guarded, TypeOK, Empty, Applying
  <2>6. Emptied'
    BY <1>2, <2>1, <2>3, Zenon DEF IInv, Emptied, TypeOK, Empty
  <2>7. Doomed'
    BY <1>2, <2>1, <2>3, Zenon DEF IInv, Doomed, TypeOK, Undoing
  <2>8. Versions'
    BY <1>2, <2>1, <2>3, Zenon DEF IInv, Versions, TypeOK, Secrets, Resources, Empty
  <2>9. RecordNotAhead'
    BY <1>2, <2>1, <2>3, Zenon DEF IInv, RecordNotAhead, TypeOK, Resources
  <2>10. Progress'
    BY <1>2, <2>1, <2>3 DEF IInv, Progress, TypeOK, Applied, HasUser, Applying, RecordNotAhead, Resources
  <2>11. Hashes'
    BY <1>2, <2>1, <2>3, Zenon DEF IInv, Hashes, TypeOK, Clean, Applied, HasUser, Undoing, HashOf
  <2>12. Latest'
    BY <1>2, <2>1, <2>3, Zenon DEF IInv, Latest, TypeOK, Clean, Guarded
  <2>13. QED
    BY <2>4, <2>5, <2>6, <2>7, <2>8, <2>9, <2>10, <2>11, <2>12, Zenon DEF IInv
<1>3. QED
  BY <1>1, <1>2, Zenon

\* Processing writes a state.
LEMMA ProcessingKeeps ==
    ASSUME IInv, Processing
    PROVE  IInv'
<1>1. CASE ~cr.there
  BY <1>1, EndKeeps, Zenon DEF Processing, At, UpdateStatusWithRetry, Requeue, Return, world, IInv, TypeOK
<1>2. CASE cr.there
  <2>1. /\ cr' \in Resources /\ cr.there /\ cr'.there /\ cr'.deleting = cr.deleting /\ cr'.spec = cr.spec
        /\ cr'.finalizer = cr.finalizer /\ cr'.mine = cr.mine /\ cr'.auth = cr.auth
        /\ pc = "processing" /\ pc' = "client"
        /\ UNCHANGED <<run, queued, secret, kafka, hash, faults, kept, edits, moved>>
    BY <1>2 DEF Processing, At, UpdateStatusWithRetry, Continue, Goto, world, IInv, TypeOK, Resources,
             States
  <2>3. TypeOK'
    BY <2>1 DEF IInv, TypeOK, Resources, Secrets, Labels
  <2>4. Guarded'
    BY <2>1, Zenon DEF IInv, Guarded, TypeOK, Empty, Applying
  <2>5. Emptied'
    BY <2>1, Zenon DEF IInv, Emptied, TypeOK, Empty
  <2>6. Doomed'
    BY <2>1, Zenon DEF IInv, Doomed, TypeOK, Undoing
  <2>7. Versions'
    BY <2>1, Zenon DEF IInv, Versions, TypeOK, Secrets, Resources
  <2>8. RecordNotAhead'
    BY <2>1, Zenon DEF IInv, RecordNotAhead, TypeOK, Resources
  <2>9. Progress'
    BY <2>1, Zenon DEF IInv, Progress, TypeOK, Applied, HasUser, Applying
  <2>10. Hashes'
    BY <2>1, Zenon DEF IInv, Hashes, TypeOK, Clean, Applied, HasUser, Undoing, HashOf
  <2>11. Latest'
    BY <2>1, Zenon DEF IInv, Latest, TypeOK, Clean, Guarded
  <2>12. QED
    BY <2>3, <2>4, <2>5, <2>6, <2>7, <2>8, <2>9, <2>10, <2>11, Zenon DEF IInv
<1>3. QED
  BY <1>1, <1>2, Zenon

\* Client decides on the work of the cycle by the resource as it was read.
LEMMA ClientKeeps ==
    ASSUME IInv, Client
    PROVE  IInv'
<1>1. /\ pc = "client"
      /\ UNCHANGED <<run, queued, cr, secret, kafka, hash, faults, kept, edits, moved>>
      /\ pc' = CASE run.cr.deleting /\ run.cr.finalizer -> "deleteUser"
                 [] run.cr.deleting /\ ~run.cr.finalizer -> "forget"
                 [] ~run.cr.deleting /\ ~run.cr.finalizer -> "finalizer"
                 [] ~run.cr.deleting /\ run.cr.finalizer /\ run.changed -> "generate"
                 [] OTHER -> "success"
  BY Zenon DEF Client, At, Continue, Goto, world
<1>2. /\ run.cr.deleting \in BOOLEAN /\ run.cr.finalizer \in BOOLEAN /\ run.changed \in BOOLEAN
      /\ run.cr.deleting => run.cr.finalizer
  BY <1>1, Zenon DEF IInv, TypeOK, Resources, Progress
<1>3. \/ pc' = "deleteUser" /\ run.cr.deleting
      \/ pc' = "finalizer" /\ ~run.cr.deleting
      \/ pc' = "generate" /\ ~run.cr.deleting /\ run.cr.finalizer
      \/ pc' = "success" /\ ~run.changed
  BY <1>1, <1>2, Zenon
<1>4. UNCHANGED <<run, queued, cr, secret, kafka, hash, faults, kept, edits, moved>> /\ pc = "client"
  BY <1>1, Zenon
<1>5. TypeOK'
  BY <1>3, <1>4 DEF IInv, TypeOK, Resources, Secrets, Labels
<1>6. Guarded'
  BY <1>3, <1>4, Zenon DEF IInv, Guarded, TypeOK, Empty, Applying
<1>7. Emptied'
  BY <1>3, <1>4, Zenon DEF IInv, Emptied, TypeOK, Empty
<1>8. Doomed'
  BY <1>3, <1>4, Zenon DEF IInv, Doomed, TypeOK, Undoing
<1>9. Versions'
  BY <1>3, <1>4, Zenon DEF IInv, Versions, TypeOK, Secrets, Resources
<1>10. RecordNotAhead'
  BY <1>3, <1>4, Zenon DEF IInv, RecordNotAhead, TypeOK, Resources
<1>11. Progress'
  BY <1>3, <1>4, Zenon DEF IInv, Progress, TypeOK, Applied, HasUser, Applying
<1>12. Hashes'
  BY <1>3, <1>4, Zenon DEF IInv, Hashes, TypeOK, Clean, Applied, HasUser, Undoing, HashOf
<1>13. Latest'
  BY <1>3, <1>4, Zenon DEF IInv, Latest, TypeOK, Clean, Guarded
<1>14. QED
  BY <1>5, <1>6, <1>7, <1>8, <1>9, <1>10, <1>11, <1>12, <1>13, Zenon DEF IInv

\* deleteKafkaUser takes the password of what is being deleted.
LEMMA DeleteUserKeeps ==
    ASSUME IInv, deleteKafkaUser
    PROVE  IInv'
<1>1. /\ pc = "deleteUser" /\ pc' = "deleteACLs"
      /\ kafka' \in Kafkas /\ kafka'.acls = kafka.acls
      /\ kafka'.password = 0 \/ "deleteUser" \in kafka'.refused
      /\ "deleteACLs" \in kafka.refused => "deleteACLs" \in kafka'.refused
      /\ faults' \in 0..MaxFaults
      /\ UNCHANGED <<run, queued, cr, secret, hash, kept, edits, moved>>
  <2>1. [kafka EXCEPT !.password = 0] \in Kafkas
    BY DEF IInv, TypeOK, Kafkas
  <2>2. /\ pc = "deleteUser" /\ pc' = "deleteACLs"
        /\ Ask("deleteUser", [kafka EXCEPT !.password = 0])
        /\ UNCHANGED <<run, queued, cr, secret, hash, kept, edits, moved>>
    BY Zenon DEF deleteKafkaUser, At, Continue, Goto, world
  <2>3. QED
    BY <2>1, <2>2, AskKafka DEF IInv, TypeOK, Kafkas, Changes
<1>2. TypeOK'
  BY <1>1 DEF IInv, TypeOK, Resources, Secrets, Labels
<1>3. Guarded'
  BY <1>1, Zenon DEF IInv, Guarded, TypeOK, Empty, Applying
<1>4. Emptied'
  BY <1>1, Zenon DEF IInv, Emptied, TypeOK, Empty
<1>5. Doomed'
  BY <1>1, Zenon DEF IInv, Doomed, TypeOK, Undoing
<1>6. Versions'
  BY <1>1, Zenon DEF IInv, Versions, TypeOK, Secrets, Resources
<1>7. RecordNotAhead'
  BY <1>1 DEF IInv, RecordNotAhead, TypeOK, Resources, Kafkas, Doomed, Undoing
<1>8. Progress'
  BY <1>1, Zenon DEF IInv, Progress, TypeOK, Applied, HasUser, Applying
<1>9. Hashes'
  BY <1>1, Zenon DEF IInv, Hashes, TypeOK, Clean, Applied, HasUser, Undoing, HashOf
<1>10. Latest'
  BY <1>1, Zenon DEF IInv, Latest, TypeOK, Clean, Guarded
<1>11. QED
  BY <1>2, <1>3, <1>4, <1>5, <1>6, <1>7, <1>8, <1>9, <1>10, Zenon DEF IInv

\* deleteACLs leaves nothing in Kafka.
LEMMA DeleteACLsKeeps ==
    ASSUME IInv, deleteACLs
    PROVE  IInv'
<1>1. /\ pc = "deleteACLs" /\ pc' = "unfinalize" /\ kafka' \in Kafkas /\ Empty'
      /\ kafka'.password = kafka.password
      /\ "password" \in kafka'.refused <=> "password" \in kafka.refused
      /\ faults' \in 0..MaxFaults
      /\ UNCHANGED <<run, queued, cr, secret, hash, kept, edits, moved>>
  <2>1. [kafka EXCEPT !.acls = {}] \in Kafkas
    BY Zenon DEF IInv, TypeOK, Kafkas
  <2>2. /\ pc = "deleteACLs" /\ pc' = "unfinalize"
        /\ Ask("deleteACLs", [kafka EXCEPT !.acls = {}])
        /\ UNCHANGED <<run, queued, cr, secret, hash, kept, edits, moved>>
    BY Zenon DEF deleteACLs, At, Continue, Goto, world
  <2>3. QED
    BY <2>1, <2>2, AskKafka DEF IInv, TypeOK, Kafkas, Changes, Emptied, Empty
<1>2. TypeOK'
  BY <1>1 DEF IInv, TypeOK, Resources, Secrets, Labels
<1>3. Guarded'
  BY <1>1, Zenon DEF IInv, Guarded, TypeOK, Empty, Applying
<1>4. Emptied'
  BY <1>1, Zenon DEF IInv, Emptied, TypeOK, Empty
<1>5. Doomed'
  BY <1>1, Zenon DEF IInv, Doomed, TypeOK, Undoing
<1>6. Versions'
  BY <1>1, Zenon DEF IInv, Versions, TypeOK, Secrets, Resources
<1>7. RecordNotAhead'
  BY <1>1, Zenon DEF IInv, RecordNotAhead, TypeOK, Resources, Doomed, Undoing
<1>8. Progress'
  BY <1>1, Zenon DEF IInv, Progress, TypeOK, Applied, HasUser, Applying
<1>9. Hashes'
  BY <1>1, Zenon DEF IInv, Hashes, TypeOK, Clean, Applied, HasUser, Undoing, HashOf
<1>10. Latest'
  BY <1>1, Zenon DEF IInv, Latest, TypeOK, Clean, Guarded
<1>11. QED
  BY <1>2, <1>3, <1>4, <1>5, <1>6, <1>7, <1>8, <1>9, <1>10, Zenon DEF IInv

\* RemoveFinalizer: without the finalizer the resource is gone, and Kafka has
\* nothing of it.
LEMMA RemoveFinalizerKeeps ==
    ASSUME IInv, RemoveFinalizer
    PROVE  IInv'
<1>1. CASE ~cr.there
  <2>1. /\ pc' = "idle" /\ run' = NoRun /\ queued' = TRUE /\ kept' = TRUE
        /\ UNCHANGED <<cr, secret, kafka, hash, faults, edits, moved>>
    BY <1>1, Zenon DEF RemoveFinalizer, At, Requeue, Return, world
  <2>2. QED
    BY <2>1, EndKeeps, Zenon DEF IInv, TypeOK
<1>2. CASE cr.there
  <2>1. /\ pc = "unfinalize" /\ pc' = "forget" /\ Empty
        /\ UNCHANGED <<run, queued, secret, kafka, hash, faults, kept, edits, moved>>
    BY <1>2, Zenon DEF RemoveFinalizer, At, Continue, Goto, world, IInv, Emptied, Empty
  <2>2. /\ cr' \in Resources /\ ~cr'.finalizer /\ ~cr'.deleting
        /\ cr.mine => cr'.mine
        /\ cr.deleting => cr' = NoResource
        /\ ~cr'.there => cr' = NoResource
        /\ cr'.auth = 0
    <3>1. CASE cr.deleting
      <4>1. cr' = NoResource
        BY <1>2, <3>1, Zenon DEF RemoveFinalizer
      <4>2. QED
        BY <4>1, Zenon DEF NoResource, Resources, Kinds, States
    <3>2. CASE ~cr.deleting
      <4>1. cr' = [cr EXCEPT !.finalizer = FALSE] /\ cr \in Resources
        BY <1>2, <3>2, Zenon DEF RemoveFinalizer, IInv, TypeOK
      <4>2. cr.auth = 0
        BY <2>1, <3>2, Zenon DEF IInv, Doomed, Undoing
      <4>3. QED
        BY <1>2, <3>2, <4>1, <4>2, Zenon DEF Resources
    <3>3. QED
      BY <3>1, <3>2, Zenon
  <2>3. TypeOK'
    BY <2>1, <2>2 DEF IInv, TypeOK, Resources, Secrets, Labels
  <2>4. Guarded'
    BY <2>1, <2>2, Zenon DEF IInv, Guarded, TypeOK, Empty, Applying
  <2>5. Emptied'
    BY <2>1, <2>2, Zenon DEF IInv, Emptied, TypeOK, Empty
  <2>6. Doomed'
    BY <2>1, <2>2, Zenon DEF IInv, Doomed, TypeOK, Undoing
  <2>7. Versions'
    BY <2>1, <2>2 DEF IInv, Versions, TypeOK, Secrets, Resources
  <2>8. RecordNotAhead'
    BY <2>1, <2>2 DEF IInv, RecordNotAhead, TypeOK, Resources, Kafkas
  <2>9. Progress'
    BY <2>1, <2>2, Zenon DEF IInv, Progress, TypeOK, Applied, HasUser, Applying
  <2>10. Hashes'
    BY <2>1, <2>2, Zenon DEF IInv, Hashes, TypeOK, Clean, Applied, HasUser, Undoing, HashOf
  <2>11. Latest'
    BY <2>1, <2>2 DEF IInv, Latest, TypeOK, Clean, Guarded, Hashes, Undoing, NoResource
  <2>12. QED
    BY <2>3, <2>4, <2>5, <2>6, <2>7, <2>8, <2>9, <2>10, <2>11, Zenon DEF IInv
<1>3. QED
  BY <1>1, <1>2, Zenon

\* Forget: no resource is left that is not queued.
LEMMA ForgetKeeps ==
    ASSUME IInv, Forget
    PROVE  IInv'
<1>1. /\ pc = "forget" /\ pc' = "idle" /\ run' = NoRun /\ hash' = NoHash
      /\ UNCHANGED <<cr, secret, kafka, queued, faults, kept, edits, moved>>
  BY Zenon DEF Forget, At, Return, world
<1>2. run' \in [cr : Resources, changed : BOOLEAN, secret : Nat]
  BY <1>1, Zenon DEF NoRun, NoResource, Resources, Kinds, States
<1>3. TypeOK'
  BY <1>1, <1>2 DEF IInv, TypeOK, Resources, Secrets, Labels
<1>4. Guarded'
  BY <1>1, <1>2, Zenon DEF IInv, Guarded, TypeOK, Empty, Applying
<1>5. Emptied'
  BY <1>1, <1>2, Zenon DEF IInv, Emptied, TypeOK, Empty
<1>6. Doomed'
  BY <1>1, <1>2, Zenon DEF IInv, Doomed, TypeOK, Undoing
<1>7. Versions'
  BY <1>1, <1>2, Zenon DEF IInv, Versions, TypeOK, Secrets, Resources
<1>8. RecordNotAhead'
  BY <1>1, <1>2, Zenon DEF IInv, RecordNotAhead, TypeOK, Resources
<1>9. Progress'
  BY <1>1, <1>2, Zenon DEF IInv, Progress, TypeOK, Applied, HasUser, Applying
<1>10. Hashes'
  BY <1>1, <1>2, Zenon DEF IInv, Hashes, TypeOK, Clean, Applied, HasUser, Undoing, HashOf
<1>11. Latest'
  BY <1>1, <1>2, Zenon DEF IInv, Latest, TypeOK, Clean, Guarded
<1>12. QED
  BY <1>3, <1>4, <1>5, <1>6, <1>7, <1>8, <1>9, <1>10, <1>11, Zenon DEF IInv

\* AddFinalizer: the finalizer is there before the first call to Kafka.
LEMMA AddFinalizerKeeps ==
    ASSUME IInv, AddFinalizer
    PROVE  IInv'
<1>1. CASE ~cr.there
  BY <1>1, EndKeeps, Zenon DEF AddFinalizer, At, Requeue, Return, world, IInv, TypeOK
<1>2. CASE cr.there
  <2>1. /\ cr' \in Resources /\ cr'.there /\ cr'.deleting = cr.deleting /\ cr'.spec = cr.spec
        /\ cr'.finalizer = TRUE /\ cr'.mine = cr.mine /\ cr'.auth = cr.auth
        /\ pc = "finalizer" /\ (pc' = "generate" \/ (pc' = "success" /\ ~run.changed))
        /\ UNCHANGED <<run, queued, secret, kafka, hash, faults, kept, edits, moved>>
    BY <1>2, ZenonT(40) DEF AddFinalizer, At, Continue, Goto, world, IInv, TypeOK, Resources
  <2>3. TypeOK'
    BY <1>2, <2>1 DEF IInv, TypeOK, Resources, Secrets, Labels
  <2>4. Guarded'
    BY <1>2, <2>1, Zenon DEF IInv, Guarded, TypeOK, Empty, Applying
  <2>5. Emptied'
    BY <1>2, <2>1, Zenon DEF IInv, Emptied, TypeOK, Empty
  <2>6. Doomed'
    BY <1>2, <2>1, Zenon DEF IInv, Doomed, TypeOK, Undoing
  <2>7. Versions'
    BY <1>2, <2>1, Zenon DEF IInv, Versions, TypeOK, Secrets, Resources
  <2>8. RecordNotAhead'
    BY <1>2, <2>1, Zenon DEF IInv, RecordNotAhead, TypeOK, Resources
  <2>9. Progress'
    BY <1>2, <2>1, Zenon DEF IInv, Progress, TypeOK, Applied, HasUser, Applying
  <2>10. Hashes'
    BY <1>2, <2>1, Zenon DEF IInv, Hashes, TypeOK, Clean, Applied, HasUser, Undoing, HashOf
  <2>11. Latest'
    BY <1>2, <2>1, Zenon DEF IInv, Latest, TypeOK, Clean, Guarded
  <2>12. QED
    BY <2>3, <2>4, <2>5, <2>6, <2>7, <2>8, <2>9, <2>10, <2>11, Zenon DEF IInv
<1>3. QED
  BY <1>1, <1>2, Zenon

\* generateSecret makes at most a new version.
LEMMA GenerateSecretKeeps ==
    ASSUME IInv, generateSecret
    PROVE  IInv'
<1>1. /\ pc = "generate" /\ UNCHANGED <<kafka, hash, faults, kept, edits, moved>>
  BY Zenon DEF generateSecret, At, world
<1>2. CASE pc' = "idle"
  <2>1. /\ run' = NoRun /\ queued' = TRUE /\ secret' = secret
        /\ cr' = cr \/ (cr.there /\ cr' = [cr EXCEPT !.state = "failure"])
    BY <1>2, Zenon DEF generateSecret, Continue, Goto, Requeue, Return, processError
  <2>2. QED
    BY <1>1, <1>2, <2>1, EndKeeps, Zenon DEF IInv, TypeOK
<1>3. CASE pc' # "idle"
  <2>1. /\ pc' = "secret" /\ cr' = cr /\ run' = run /\ queued' = queued
        /\ secret' = IF Generate(run.cr.spec) /\ ~secret.there
                     THEN [version |-> secret.version + 1, there |-> TRUE, valid |-> TRUE]
                     ELSE secret
    BY <1>3, Zenon DEF generateSecret, Continue, Goto, Requeue, Return, processError
  <2>2. secret.version \in Nat /\ secret.version + 1 \in Nat
    BY DEF IInv, TypeOK, Secrets
  <2>3. /\ secret' \in Secrets /\ secret'.version >= secret.version
        /\ secret'.valid => secret'.version # 0
    BY <2>1, <2>2 DEF IInv, TypeOK, Secrets, Progress
  <2>4. pc' = "secret" /\ UNCHANGED <<cr, run, queued>>
    BY <2>1, Zenon
  <2>5. TypeOK'
    BY <1>1, <2>2, <2>3, <2>4 DEF IInv, TypeOK, Resources, Secrets, Labels
  <2>6. Guarded'
    BY <1>1, <2>2, <2>3, <2>4, Zenon DEF IInv, Guarded, TypeOK, Empty, Applying
  <2>7. Emptied'
    BY <1>1, <2>2, <2>3, <2>4, Zenon DEF IInv, Emptied, TypeOK, Empty
  <2>8. Doomed'
    BY <1>1, <2>2, <2>3, <2>4, Zenon DEF IInv, Doomed, TypeOK, Undoing
  <2>9. Versions'
    BY <1>1, <2>2, <2>3, <2>4 DEF IInv, Versions, TypeOK, Secrets, Resources
  <2>10. RecordNotAhead'
    BY <1>1, <2>2, <2>3, <2>4, Zenon DEF IInv, RecordNotAhead, TypeOK, Resources
  <2>11. Progress'
    BY <1>1, <2>2, <2>3, <2>4, Zenon DEF IInv, Progress, TypeOK, Applied, HasUser, Applying
  <2>12. Hashes'
    BY <1>1, <2>2, <2>3, <2>4, Zenon DEF IInv, Hashes, TypeOK, Clean, Applied, HasUser, Undoing, HashOf
  <2>13. Latest'
    BY <1>1, <2>2, <2>3, <2>4, Zenon DEF IInv, Latest, TypeOK, Clean, Guarded
  <2>14. QED
    BY <2>5, <2>6, <2>7, <2>8, <2>9, <2>10, <2>11, <2>12, <2>13, Zenon DEF IInv
<1>4. QED
  BY <1>2, <1>3, Zenon

\* FindSecret compares the version with the one that the cycle knows.
LEMMA FindSecretKeeps ==
    ASSUME IInv, FindSecret
    PROVE  IInv'
<1>1. /\ pc = "secret" /\ UNCHANGED <<secret, kafka, hash, faults, kept, edits, moved>>
  BY Zenon DEF FindSecret, At, world
<1>2. CASE ~WatchSecret(run.cr.spec)
  <2>1. pc' = "detach" /\ UNCHANGED <<cr, run, queued>>
    BY <1>2, Zenon DEF FindSecret, Continue, Goto
  <2>3. TypeOK'
    BY <1>1, <1>2, <2>1 DEF IInv, TypeOK, Resources, Secrets, Labels
  <2>4. Guarded'
    BY <1>1, <1>2, <2>1, Zenon DEF IInv, Guarded, TypeOK, Empty, Applying
  <2>5. Emptied'
    BY <1>1, <1>2, <2>1, Zenon DEF IInv, Emptied, TypeOK, Empty
  <2>6. Doomed'
    BY <1>1, <1>2, <2>1, Zenon DEF IInv, Doomed, TypeOK, Undoing
  <2>7. Versions'
    BY <1>1, <1>2, <2>1, Zenon DEF IInv, Versions, TypeOK, Secrets, Resources
  <2>8. RecordNotAhead'
    BY <1>1, <1>2, <2>1, Zenon DEF IInv, RecordNotAhead, TypeOK, Resources
  <2>9. Progress'
    BY <1>1, <1>2, <2>1, Zenon DEF IInv, Progress, TypeOK, Applied, HasUser, Applying
  <2>10. Hashes'
    BY <1>1, <1>2, <2>1, Zenon DEF IInv, Hashes, TypeOK, Clean, Applied, HasUser, Undoing, HashOf
  <2>11. Latest'
    BY <1>1, <1>2, <2>1, Zenon DEF IInv, Latest, TypeOK, Clean, Guarded
  <2>12. QED
    BY <2>3, <2>4, <2>5, <2>6, <2>7, <2>8, <2>9, <2>10, <2>11, Zenon DEF IInv
<1>3. CASE WatchSecret(run.cr.spec) /\ ~(secret.there /\ secret.valid)
  <2>1. /\ pc' = "idle" /\ run' = NoRun /\ queued' = TRUE
        /\ cr' = cr \/ (cr.there /\ cr' = [cr EXCEPT !.state = "failure"])
    BY <1>3, Zenon DEF FindSecret, Requeue, Return, processError
  <2>2. QED
    BY <1>1, <2>1, EndKeeps, Zenon DEF IInv, TypeOK
<1>4. CASE WatchSecret(run.cr.spec) /\ secret.there /\ secret.valid
  <2>1. /\ run' = [run EXCEPT !.secret = secret.version] /\ UNCHANGED <<cr, queued>>
        /\ pc' = IF secret.version # run.cr.auth THEN "upsert" ELSE "createACLs"
    BY <1>4, Zenon DEF FindSecret, Goto
  <2>2. secret.version \in Nat /\ secret.version # 0
    BY <1>4, Zenon DEF IInv, TypeOK, Secrets, Progress
  <2>3. /\ run' \in [cr : Resources, changed : BOOLEAN, secret : Nat]
        /\ run'.cr = run.cr /\ run'.secret = secret.version
    BY <2>1, <2>2, Zenon DEF IInv, TypeOK
  <2>4. pc' = "upsert" \/ (pc' = "createACLs" /\ HasUser)
    BY <1>1, <2>1, <2>2, Zenon DEF IInv, Progress, Applying
  <2>5. TypeOK'
    BY <1>1, <2>1, <2>2, <2>3, <2>4 DEF IInv, TypeOK, Resources, Secrets, Labels
  <2>6. Guarded'
    BY <1>1, <2>1, <2>2, <2>3, <2>4, Zenon DEF IInv, Guarded, TypeOK, Empty, Applying
  <2>7. Emptied'
    BY <1>1, <2>1, <2>2, <2>3, <2>4, Zenon DEF IInv, Emptied, TypeOK, Empty
  <2>8. Doomed'
    BY <1>1, <2>1, <2>2, <2>3, <2>4, Zenon DEF IInv, Doomed, TypeOK, Undoing
  <2>9. Versions'
    BY <1>1, <2>1, <2>2, <2>3, <2>4 DEF IInv, Versions, TypeOK, Secrets, Resources
  <2>10. RecordNotAhead'
    BY <1>1, <2>1, <2>2, <2>3, <2>4, Zenon DEF IInv, RecordNotAhead, TypeOK, Resources
  <2>11. Progress'
    BY <1>1, <2>1, <2>2, <2>3, <2>4, Zenon DEF IInv, Progress, TypeOK, Applied, HasUser, Applying
  <2>12. Hashes'
    BY <1>1, <2>1, <2>2, <2>3, <2>4, Zenon DEF IInv, Hashes, TypeOK, Clean, Applied, HasUser, Undoing, HashOf
  <2>13. Latest'
    BY <1>1, <2>1, <2>2, <2>3, <2>4, Zenon DEF IInv, Latest, TypeOK, Clean, Guarded
  <2>14. QED
    BY <2>5, <2>6, <2>7, <2>8, <2>9, <2>10, <2>11, <2>12, <2>13, Zenon DEF IInv
<1>5. QED
  BY <1>2, <1>3, <1>4, Zenon

\* upsertKafkaUser sets a password that is not older than the one recorded.
LEMMA UpsertKeeps ==
    ASSUME IInv, upsertKafkaUser
    PROVE  IInv'
<1>1. /\ pc = "upsert" /\ pc' = "record"
      /\ Ask("password", [kafka EXCEPT !.password = run.secret])
      /\ UNCHANGED <<run, queued, cr, secret, hash, kept, edits, moved>>
  BY Zenon DEF upsertKafkaUser, At, Continue, Goto, world
<1>2. /\ kafka' \in Kafkas /\ faults' \in 0..MaxFaults
      /\ kafka'.password = run.secret \/ "password" \in kafka'.refused
      /\ kafka'.acls = kafka.acls
      /\ \A c \in Changes \ {"password"} : c \in kafka.refused <=> c \in kafka'.refused
      /\ kafka.refused \in SUBSET Changes
  <2>1. [kafka EXCEPT !.password = run.secret] \in Kafkas
    BY Zenon DEF IInv, TypeOK, Kafkas
  <2>2. QED
    BY <1>1, <2>1, AskKafka DEF IInv, TypeOK, Kafkas, Changes
<1>3. TypeOK'
  BY <1>1, <1>2 DEF IInv, TypeOK, Resources, Secrets, Labels
<1>4. Guarded'
  BY <1>1, <1>2, Zenon DEF IInv, Guarded, TypeOK, Empty, Applying, Applying
<1>5. Emptied'
  BY <1>1, <1>2, Zenon DEF IInv, Emptied, TypeOK, Empty
<1>6. Doomed'
  BY <1>1, <1>2, Zenon DEF IInv, Doomed, TypeOK, Undoing
<1>7. Versions'
  BY <1>1, <1>2, Zenon DEF IInv, Versions, TypeOK, Secrets, Resources
<1>8. RecordNotAhead'
  BY <1>1, <1>2, Zenon DEF IInv, RecordNotAhead, TypeOK, Resources, Versions
<1>9. Progress'
  BY <1>1, <1>2, Zenon DEF IInv, Progress, TypeOK, Applied, HasUser, Applying
<1>10. Hashes'
  <2>1. HasUser'
    BY <1>1, <1>2, Zenon DEF IInv, Progress, HasUser
  <2>2. ASSUME NEW kind, Applied(kind)
        PROVE  Applied(kind)'
    <3>1. Role(kind) # "password"
      BY DEF Role
    <3>2. QED
      BY <1>2, <2>1, <2>2, <3>1, Zenon DEF Applied
  <2>3. QED
    BY <1>1, <2>2, Zenon DEF IInv, Hashes, Clean, Undoing
<1>11. Latest'
  BY <1>1, <1>2, Zenon DEF IInv, Latest, TypeOK, Clean, Guarded
<1>12. QED
  BY <1>3, <1>4, <1>5, <1>6, <1>7, <1>8, <1>9, <1>10, <1>11, Zenon DEF IInv

\* Record: the version is recorded after the password is set.
LEMMA RecordKeeps ==
    ASSUME IInv, Record
    PROVE  IInv'
<1>1. CASE ~cr.there
  BY <1>1, EndKeeps, Zenon DEF Record, At, UpdateStatusWithRetry, Requeue, Return, world, IInv, TypeOK
<1>2. CASE cr.there
  <2>1. /\ cr' = [cr EXCEPT !.auth = run.secret] /\ pc = "record" /\ pc' = "createACLs"
        /\ UNCHANGED <<run, queued, secret, kafka, hash, faults, kept, edits, moved>>
    BY <1>2, Zenon DEF Record, At, UpdateStatusWithRetry, Continue, Goto, world
  <2>2. /\ cr' \in Resources /\ cr'.there /\ cr'.deleting = cr.deleting /\ cr'.spec = cr.spec
        /\ cr'.finalizer = cr.finalizer /\ cr'.mine = cr.mine /\ cr'.auth = run.secret
    BY <1>2, <2>1, Zenon DEF IInv, TypeOK, Resources
  <2>3. TypeOK'
    BY <1>2, <2>1, <2>2 DEF IInv, TypeOK, Resources, Secrets, Labels
  <2>4. Guarded'
    BY <1>2, <2>1, <2>2, Zenon DEF IInv, Guarded, TypeOK, Empty, Applying
  <2>5. Emptied'
    BY <1>2, <2>1, <2>2, Zenon DEF IInv, Emptied, TypeOK, Empty
  <2>6. Doomed'
    BY <1>2, <2>1, <2>2, Zenon DEF IInv, Doomed, TypeOK, Undoing
  <2>7. Versions'
    BY <1>2, <2>1, <2>2, Zenon DEF IInv, Versions, TypeOK, Secrets, Resources
  <2>8. RecordNotAhead'
    BY <1>2, <2>1, <2>2 DEF IInv, RecordNotAhead, TypeOK, Resources, Versions
  <2>9. Progress'
    BY <1>2, <2>1, <2>2, Zenon DEF IInv, Progress, TypeOK, Applied, HasUser, Applying, Versions
  <2>10. Hashes'
    BY <1>2, <2>1, <2>2, Zenon DEF IInv, Hashes, TypeOK, Clean, Applied, HasUser, Undoing, HashOf
  <2>11. Latest'
    BY <1>2, <2>1, <2>2, Zenon DEF IInv, Latest, TypeOK, Clean, Guarded
  <2>12. QED
    BY <2>3, <2>4, <2>5, <2>6, <2>7, <2>8, <2>9, <2>10, <2>11, Zenon DEF IInv
<1>3. QED
  BY <1>1, <1>2, Zenon

\* Detach: without a Secret no version is recorded.
LEMMA DetachKeeps ==
    ASSUME IInv, Detach
    PROVE  IInv'
<1>1. CASE ~cr.there
  BY <1>1, EndKeeps, Zenon DEF Detach, At, UpdateStatusWithRetry, Requeue, Return, world, IInv, TypeOK
<1>2. CASE cr.there
  <2>1. /\ cr' = [cr EXCEPT !.auth = 0] /\ pc = "detach" /\ pc' = "createACLs"
        /\ UNCHANGED <<run, queued, secret, kafka, hash, faults, kept, edits, moved>>
    BY <1>2, Zenon DEF Detach, At, UpdateStatusWithRetry, Continue, Goto, world
  <2>2. /\ cr' \in Resources /\ cr'.there /\ cr'.deleting = cr.deleting /\ cr'.spec = cr.spec
        /\ cr'.finalizer = cr.finalizer /\ cr'.mine = cr.mine /\ cr'.auth = 0
    BY <1>2, <2>1, Zenon DEF IInv, TypeOK, Resources
  <2>3. TypeOK'
    BY <1>2, <2>1, <2>2 DEF IInv, TypeOK, Resources, Secrets, Labels
  <2>4. Guarded'
    BY <1>2, <2>1, <2>2, Zenon DEF IInv, Guarded, TypeOK, Empty, Applying
  <2>5. Emptied'
    BY <1>2, <2>1, <2>2, Zenon DEF IInv, Emptied, TypeOK, Empty
  <2>6. Doomed'
    BY <1>2, <2>1, <2>2, Zenon DEF IInv, Doomed, TypeOK, Undoing
  <2>7. Versions'
    BY <1>2, <2>1, <2>2 DEF IInv, Versions, TypeOK, Secrets, Resources
  <2>8. RecordNotAhead'
    BY <1>2, <2>1, <2>2 DEF IInv, RecordNotAhead, TypeOK, Resources, Kafkas
  <2>9. Progress'
    BY <1>2, <2>1, <2>2, Zenon DEF IInv, Progress, TypeOK, Applied, HasUser, Applying
  <2>10. Hashes'
    BY <1>2, <2>1, <2>2, Zenon DEF IInv, Hashes, TypeOK, Clean, Applied, HasUser, Undoing, HashOf
  <2>11. Latest'
    BY <1>2, <2>1, <2>2, Zenon DEF IInv, Latest, TypeOK, Clean, Guarded
  <2>12. QED
    BY <2>3, <2>4, <2>5, <2>6, <2>7, <2>8, <2>9, <2>10, <2>11, Zenon DEF IInv
<1>3. QED
  BY <1>1, <1>2, Zenon

\* createACLs: the entries of former roles stay.
LEMMA CreateACLsKeeps ==
    ASSUME IInv, createACLs
    PROVE  IInv'
<1>1. /\ pc = "createACLs" /\ UNCHANGED <<secret, hash, kept, edits, moved>>
  BY Zenon DEF createACLs, At, world
<1>2. CASE Role(run.cr.spec) \notin Roles
  <2>1. /\ pc' = "idle" /\ run' = NoRun /\ queued' = TRUE /\ UNCHANGED <<kafka, faults>>
        /\ cr' = cr \/ (cr.there /\ cr' = [cr EXCEPT !.state = "failure"])
    BY <1>2, Zenon DEF createACLs, Requeue, Return, processError
  <2>2. QED
    BY <1>1, <2>1, EndKeeps, Zenon DEF IInv, TypeOK
<1>3. CASE Role(run.cr.spec) \in Roles
  <2>1. /\ pc' = "authorized" /\ UNCHANGED <<cr, run, queued>>
        /\ Authorization =>
              Ask(Role(run.cr.spec), [kafka EXCEPT !.acls = @ \union {Role(run.cr.spec)}])
        /\ ~Authorization => UNCHANGED <<kafka, faults>>
    BY <1>3, Zenon DEF createACLs, Continue, Goto
  <2>2. /\ kafka' \in Kafkas /\ faults' \in 0..MaxFaults
        /\ kafka'.password = kafka.password
        /\ "password" \in kafka'.refused <=> "password" \in kafka.refused
        /\ kafka.acls \union kafka.refused \subseteq kafka'.acls \union kafka'.refused
        /\ Authorization => Role(run.cr.spec) \in kafka'.acls \union kafka'.refused
    <3>1. CASE ~Authorization
      BY <2>1, <3>1, Zenon DEF IInv, TypeOK
    <3>2. CASE Authorization
      <4>1. [kafka EXCEPT !.acls = @ \union {Role(run.cr.spec)}] \in Kafkas
        BY <1>3 DEF IInv, TypeOK, Kafkas
      <4>2. Role(run.cr.spec) \in Changes \ {"password"}
        BY <1>3 DEF Changes, Roles
      <4>3. QED
        BY <2>1, <3>2, <4>1, <4>2, AskKafka DEF IInv, TypeOK, Kafkas
    <3>3. QED
      BY <3>1, <3>2, Zenon
  <2>3. pc' = "authorized" /\ UNCHANGED <<cr, run, queued>>
    BY <2>1, Zenon
  <2>4. TypeOK'
    BY <1>1, <2>2, <2>3 DEF IInv, TypeOK, Resources, Secrets, Labels
  <2>5. Guarded'
    BY <1>1, <2>2, <2>3, Zenon DEF IInv, Guarded, TypeOK, Empty, Applying
  <2>6. Emptied'
    BY <1>1, <2>2, <2>3, Zenon DEF IInv, Emptied, TypeOK, Empty
  <2>7. Doomed'
    BY <1>1, <2>2, <2>3, Zenon DEF IInv, Doomed, TypeOK, Undoing
  <2>8. Versions'
    BY <1>1, <2>2, <2>3, Zenon DEF IInv, Versions, TypeOK, Secrets, Resources
  <2>9. RecordNotAhead'
    BY <1>1, <2>2, <2>3, Zenon DEF IInv, RecordNotAhead, TypeOK, Resources
  <2>10. Progress'
    BY <1>1, <2>2, <2>3, Zenon DEF IInv, Progress, TypeOK, Applied, HasUser, Applying
  <2>11. Hashes'
    BY <1>1, <2>2, <2>3, Zenon DEF IInv, Hashes, TypeOK, Clean, Applied, HasUser, Undoing, HashOf
  <2>12. Latest'
    BY <1>1, <2>2, <2>3, Zenon DEF IInv, Latest, TypeOK, Clean, Guarded
  <2>13. QED
    BY <2>4, <2>5, <2>6, <2>7, <2>8, <2>9, <2>10, <2>11, <2>12, Zenon DEF IInv
<1>4. QED
  BY <1>2, <1>3, Zenon

\* Authorized: the hashes are those of the specification that was applied.
LEMMA AuthorizedKeeps ==
    ASSUME IInv, Authorized
    PROVE  IInv'
<1>1. CASE ~cr.there
  BY <1>1, EndKeeps, Zenon DEF Authorized, At, Requeue, Return, world, IInv, TypeOK
<1>2. CASE cr.there
  <2>1. /\ pc = "authorized" /\ pc' = "success" /\ hash' = HashOf(run.cr)
        /\ UNCHANGED <<run, queued, cr, secret, kafka, faults, kept, edits, moved>>
    BY <1>2, Zenon DEF Authorized, At, Continue, Goto, world
  <2>2. hash' \in Kinds \X BOOLEAN /\ hash'[1] = run.cr.spec
    BY <2>1, Zenon DEF HashOf, IInv, TypeOK, Resources
  <2>3. Applied(run.cr.spec)' /\ (~moved => cr.finalizer)
    BY <2>1, Zenon DEF IInv, Progress, Applied, HasUser, Guarded, Applying
  <2>4. TypeOK'
    BY <1>2, <2>1, <2>2, <2>3 DEF IInv, TypeOK, Resources, Secrets, Labels
  <2>5. Guarded'
    BY <1>2, <2>1, <2>2, <2>3, Zenon DEF IInv, Guarded, TypeOK, Empty, Applying
  <2>6. Emptied'
    BY <1>2, <2>1, <2>2, <2>3, Zenon DEF IInv, Emptied, TypeOK, Empty
  <2>7. Doomed'
    BY <1>2, <2>1, <2>2, <2>3, Zenon DEF IInv, Doomed, TypeOK, Undoing
  <2>8. Versions'
    BY <1>2, <2>1, <2>2, <2>3, Zenon DEF IInv, Versions, TypeOK, Secrets, Resources
  <2>9. RecordNotAhead'
    BY <1>2, <2>1, <2>2, <2>3, Zenon DEF IInv, RecordNotAhead, TypeOK, Resources
  <2>10. Progress'
    BY <1>2, <2>1, <2>2, <2>3, Zenon DEF IInv, Progress, TypeOK, Applied, HasUser, Applying
  <2>11. Hashes'
    BY <1>2, <2>1, <2>2, <2>3, Zenon DEF IInv, Hashes, TypeOK, Clean, Applied, HasUser, Undoing, HashOf
  <2>12. Latest'
    BY <1>2, <2>1, <2>2, <2>3, Zenon DEF IInv, Latest, TypeOK, Clean, Guarded
  <2>13. QED
    BY <2>4, <2>5, <2>6, <2>7, <2>8, <2>9, <2>10, <2>11, <2>12, Zenon DEF IInv
<1>3. QED
  BY <1>1, <1>2, Zenon

\* Success is reported of the specification that the hashes are of.
LEMMA SuccessKeeps ==
    ASSUME IInv, Success
    PROVE  IInv'
<1>1. CASE ~cr.there
  BY <1>1, EndKeeps, Zenon DEF Success, At, Requeue, Return, world, IInv, TypeOK
<1>2. CASE cr.there
  <2>1. /\ cr' = [cr EXCEPT !.observed = run.cr.generation, !.state = "success"]
        /\ pc = "success" /\ pc' = "idle" /\ run' = NoRun
        /\ UNCHANGED <<queued, secret, kafka, hash, faults, kept, edits, moved>>
    BY <1>2, Zenon DEF Success, At, Return, world
  <2>2. run.cr.generation \in Nat /\ cr \in Resources
    BY Zenon DEF IInv, TypeOK, Resources
  <2>3. /\ cr' \in Resources /\ cr'.there /\ cr'.deleting = cr.deleting /\ cr'.spec = cr.spec
        /\ cr'.finalizer = cr.finalizer /\ cr'.mine = cr.mine /\ cr'.auth = cr.auth
    BY <1>2, <2>1, <2>2, Zenon DEF Resources, States
  <2>4. run' \in [cr : Resources, changed : BOOLEAN, secret : Nat]
    BY <2>1, Zenon DEF NoRun, NoResource, Resources, Kinds, States
  <2>5. TypeOK'
    BY <1>2, <2>1, <2>3, <2>4, Zenon DEF IInv, TypeOK, Resources, Secrets, Labels
  <2>6. Guarded'
    BY <1>2, <2>1, <2>3, <2>4, Zenon DEF IInv, Guarded, TypeOK, Empty, Applying
  <2>7. Emptied'
    BY <1>2, <2>1, <2>3, <2>4, Zenon DEF IInv, Emptied, TypeOK, Empty
  <2>8. Doomed'
    BY <1>2, <2>1, <2>3, <2>4, Zenon DEF IInv, Doomed, TypeOK, Undoing
  <2>9. Versions'
    BY <1>2, <2>1, <2>3, <2>4, Zenon DEF IInv, Versions, TypeOK, Secrets, Resources
  <2>10. RecordNotAhead'
    BY <1>2, <2>1, <2>3, <2>4, Zenon DEF IInv, RecordNotAhead, TypeOK, Resources
  <2>11. Progress'
    BY <1>2, <2>1, <2>3, <2>4, Zenon DEF IInv, Progress, TypeOK, Applied, HasUser, Applying
  <2>12. Hashes'
    BY <1>2, <2>1, <2>3, <2>4, Zenon DEF IInv, Hashes, TypeOK, Clean, Applied, HasUser, Undoing, HashOf
  <2>13. Latest'
    BY <1>2, <2>1, <2>3, <2>4, Zenon DEF IInv, Latest, TypeOK, Clean, Guarded, Hashes, HashOf
  <2>14. QED
    BY <2>5, <2>6, <2>7, <2>8, <2>9, <2>10, <2>11, <2>12, <2>13, Zenon DEF IInv
<1>3. QED
  BY <1>1, <1>2, Zenon

\* A fault ends the cycle.
LEMMA FaultKeeps ==
    ASSUME IInv, KafkaFails \/ ApiFails \/ Crash
    PROVE  IInv'
<1>1. faults' \in 0..MaxFaults
  BY UserAssumption DEF IInv, TypeOK, KafkaFails, ApiFails, Crash, Fault
<1>2. CASE KafkaFails
  <2>1. /\ pc' = "idle" /\ run' = NoRun /\ queued' = TRUE /\ pc # "forget"
        /\ cr' = cr \/ (cr.there /\ cr' = [cr EXCEPT !.state = "failure"])
        /\ UNCHANGED <<secret, kafka, hash, kept, edits, moved>>
    BY <1>2, Zenon DEF KafkaFails, processError, Requeue, Return, world
  <2>2. QED
    BY <1>1, <2>1, EndKeeps, Zenon DEF IInv, TypeOK
<1>3. CASE ApiFails
  <2>1. /\ pc' = "idle" /\ run' = NoRun /\ queued' = TRUE
        /\ UNCHANGED <<cr, secret, kafka, hash, edits, moved>>
    BY <1>3, Zenon DEF ApiFails, Requeue, Return, world
  <2>2. kept' \in BOOLEAN /\ (kept => kept') /\ (pc = "forget" => kept')
    BY <1>3, Zenon DEF ApiFails, IInv, TypeOK
  <2>3. QED
    BY <1>1, <2>1, <2>2, EndKeeps, Zenon DEF IInv, TypeOK
<1>4. CASE Crash
  <2>1. /\ pc' = "idle" /\ run' = NoRun /\ hash' = NoHash
        /\ UNCHANGED <<cr, secret, kafka, kept, edits, moved>>
    BY <1>4, Zenon DEF Crash, Return, world
  <2>2. cr.there \in BOOLEAN /\ cr.mine \in BOOLEAN /\ kept \in BOOLEAN
    BY Zenon DEF IInv, TypeOK, Resources
  <2>3. queued' \in BOOLEAN /\ (queued' \/ ~cr.there \/ ~cr.mine)
    BY <1>4, <2>2, Zenon DEF Crash, kafkaHostFilterFunction
  <2>4. QED
    BY <1>1, <2>1, <2>2, <2>3, EndKeeps, Zenon
<1>5. QED
  BY <1>2, <1>3, <1>4, Zenon

-----------------------------------------------------------------------------
\* At the start there is no resource and no user.
LEMMA InitIInv ==
    Init => IInv
<1> SUFFICES ASSUME Init PROVE IInv
  BY Zenon
<1>1. NoResource \in Resources
  BY Zenon DEF NoResource, Resources, Kinds, States
<1>2. TypeOK
  <2>1. secret \in Secrets /\ kafka \in Kafkas
    BY Zenon DEF Init, Secrets, Kafkas
  <2>2. run \in [cr : Resources, changed : BOOLEAN, secret : Nat]
    BY <1>1, Zenon DEF Init, NoRun
  <2>3. edits \in 0..MaxEdits /\ faults \in 0..MaxFaults
    BY UserAssumption DEF Init
  <2>4. QED
    BY <1>1, <2>1, <2>2, <2>3, Zenon DEF Init, TypeOK, Labels
<1>3. Guarded /\ Emptied /\ Doomed
  BY Zenon DEF Init, Guarded, Emptied, Doomed, NoResource, Empty, Applying, Undoing
<1>4. Versions /\ RecordNotAhead
  BY DEF Init, Versions, RecordNotAhead, NoResource
<1>5. Progress /\ Hashes /\ Latest
  BY Zenon DEF Init, Progress, Hashes, Latest, NoResource, Applying, Undoing, Applied, HasUser
<1>6. QED
  BY <1>2, <1>3, <1>4, <1>5, Zenon DEF IInv

\* The invariant is inductive.
LEMMA NextIInv ==
    IInv /\ [Next]_vars => IInv'
<1> SUFFICES ASSUME IInv, [Next]_vars PROVE IInv'
  BY Zenon
<1>1. CASE UNCHANGED vars
  <2>1. TypeOK' /\ Versions' /\ RecordNotAhead'
    BY <1>1, Zenon DEF vars, IInv, TypeOK, Versions, RecordNotAhead
  <2>2. Guarded' /\ Emptied' /\ Doomed'
    BY <1>1, Zenon DEF vars, IInv, Guarded, Empty, Emptied, Doomed
  <2>3. Progress' /\ Hashes' /\ Latest'
    BY <1>1 DEF vars, IInv, Progress, Applied, HasUser, Hashes, Clean, Latest
  <2>4. QED
    BY <2>1, <2>2, <2>3, Zenon DEF IInv
<1>2. QED
  BY <1>1, CreateKeeps, EditKeeps, DeleteKeeps, MoveKeeps, OtherOperatorKeeps, ChangeSecretKeeps,
     GetKeeps, ProcessingKeeps, ClientKeeps, DeleteUserKeeps, DeleteACLsKeeps, RemoveFinalizerKeeps,
     ForgetKeeps, AddFinalizerKeeps, GenerateSecretKeeps, FindSecretKeeps, UpsertKeeps, RecordKeeps,
     DetachKeeps, CreateACLsKeeps, AuthorizedKeeps, SuccessKeeps, FaultKeeps, Zenon
     DEF Next, Clients, Reconcile, Deletion, Application

\* The inductive invariant holds in every reachable state.
THEOREM Invariance ==
    Spec => []IInv
BY InitIInv, NextIInv, PTL DEF Spec

-----------------------------------------------------------------------------
(* The verdict of a resource at rest *)

\* The resource is still what the cycle has read, or there will be another
\* cycle; a cycle that is over without another to follow has reported success.
Reported ==
    /\ pc \in Undoing => run.cr.deleting
    /\ pc = "success" => ~run.cr.deleting
    /\ cr.there /\ cr.mine /\ ~queued =>
          /\ pc = "idle" => /\ ~cr.deleting /\ cr.state = "success"
                            /\ cr.observed = cr.generation
          /\ pc # "idle" => /\ pc # "forget" /\ run.cr.generation = cr.generation
                            /\ run.cr.deleting = cr.deleting

\* A cycle that ends for another one to follow.
LEMMA QueuedReported ==
    ASSUME pc' = "idle", queued' \/ ~cr'.there \/ ~cr'.mine
    PROVE  Reported'
BY Zenon DEF Reported, Undoing

\* A step of a cycle that goes on, and leaves what it has read of the resource.
LEMMA ContinueReported ==
    ASSUME Reported, pc # "idle", pc' # "idle", pc' # "forget", run'.cr = run.cr,
           queued' = queued,
           cr'.there = cr.there, cr'.mine = cr.mine, cr'.generation = cr.generation,
           cr'.deleting = cr.deleting,
           pc' \in Undoing => run.cr.deleting, pc' = "success" => ~run.cr.deleting
    PROVE  Reported'
BY Zenon DEF Reported

\* The clients queue what they change.
LEMMA ClientsReported ==
    ASSUME TypeOK, Reported, Create \/ Edit \/ Delete \/ Move \/ OtherOperator \/ ChangeSecret
    PROVE  Reported'
<1>1. CASE Create
  <2>1. queued' = TRUE /\ UNCHANGED <<pc, run>>
    BY <1>1, Zenon DEF Create
  <2>2. QED
    BY <2>1, Zenon DEF Reported
<1>2. CASE Edit
  <2>1. /\ queued' = (queued \/ cr.mine) /\ UNCHANGED <<pc, run>>
        /\ \E spec \in Asked : cr' = [cr EXCEPT !.spec = spec, !.generation = cr.generation + 1]
    BY <1>2, Zenon DEF Edit, kafkaHostFilterFunction
  <2>2. cr'.mine = cr.mine
    BY <2>1, Zenon DEF TypeOK, Resources
  <2>3. QED
    BY <2>1, <2>2, Zenon DEF Reported
<1>3. CASE Delete
  <2>1. /\ queued' = (queued \/ cr.mine) /\ UNCHANGED <<pc, run>>
        /\ \/ cr' = [cr EXCEPT !.deleting = TRUE, !.generation = cr.generation + 1]
           \/ cr' = NoResource
    BY <1>3, Zenon DEF Delete, kafkaHostFilterFunction
  <2>2. cr'.mine = cr.mine \/ ~cr'.there
    <3>1. ~NoResource.there
      BY Zenon DEF NoResource
    <3>2. CASE cr' = [cr EXCEPT !.deleting = TRUE, !.generation = cr.generation + 1]
      BY <3>2, Zenon DEF TypeOK, Resources
    <3>3. QED
      BY <2>1, <3>1, <3>2, Zenon
  <2>3. QED
    BY <2>1, <2>2, Zenon DEF Reported
<1>4. CASE Move
  <2>1. ~cr'.mine /\ UNCHANGED <<pc, run>>
    BY <1>4, Zenon DEF Move, TypeOK, Resources
  <2>2. QED
    BY <2>1, Zenon DEF Reported
<1>5. CASE OtherOperator
  <2>1. ~cr'.there /\ UNCHANGED <<pc, run>>
    BY <1>5, Zenon DEF OtherOperator, NoResource
  <2>2. QED
    BY <2>1, Zenon DEF Reported
<1>6. CASE ChangeSecret
  BY <1>6, Zenon DEF ChangeSecret, Reported
<1>7. QED
  BY <1>1, <1>2, <1>3, <1>4, <1>5, <1>6, Zenon

\* A cycle starts with the resource as it is.
LEMMA GetReported ==
    ASSUME TypeOK, Reported, Get
    PROVE  Reported'
<1>1. UNCHANGED cr
  BY Zenon DEF Get
<1>2. CASE ~cr.there
  BY <1>1, <1>2, QueuedReported, Zenon DEF Get, Return
<1>3. CASE cr.there
  <2>1. /\ pc' \in {"processing", "client"}
        /\ run' = [cr |-> cr, changed |-> hash # HashOf(cr), secret |-> 0]
    BY <1>3, Zenon DEF Get
  <2>2. run'.cr = cr
    BY <2>1, Zenon
  <2>3. QED
    BY <1>1, <2>1, <2>2, Zenon DEF Reported, Undoing
<1>4. QED
  BY <1>2, <1>3, Zenon

\* A status is written, or there will be another cycle.
LEMMA StatusReported ==
    ASSUME TypeOK, Reported, Processing \/ Record \/ Detach
    PROVE  Reported'
<1>1. CASE ~cr.there
  BY <1>1, QueuedReported, Zenon DEF Processing, Record, Detach, UpdateStatusWithRetry, Requeue, Return
<1>2. CASE cr.there
  <2>1. /\ pc # "idle" /\ pc' \in {"client", "createACLs"} /\ UNCHANGED <<run, queued>>
        /\ \/ cr' = [cr EXCEPT !.state = "processing"]
           \/ cr' = [cr EXCEPT !.auth = run.secret]
           \/ cr' = [cr EXCEPT !.auth = 0]
    BY <1>2, Zenon DEF At, Processing, Record, Detach, UpdateStatusWithRetry, Continue, Goto
  <2>2. /\ cr'.there = cr.there /\ cr'.mine = cr.mine /\ cr'.generation = cr.generation
        /\ cr'.deleting = cr.deleting
    BY <2>1, Zenon DEF TypeOK, Resources
  <2>3. QED
    BY <2>1, <2>2, ContinueReported, Zenon DEF Undoing
<1>3. QED
  BY <1>1, <1>2, Zenon

\* The cycle undoes what is being deleted, and is over when the resource is gone.
LEMMA DeletionReported ==
    ASSUME TypeOK, Progress, Reported, Client \/ Deletion
    PROVE  Reported'
<1>1. CASE Client
  <2>1. /\ pc = "client" /\ UNCHANGED <<cr, run, queued>>
        /\ \/ pc' = "deleteUser" /\ run.cr.deleting
           \/ pc' = "forget" /\ run.cr.deleting /\ ~run.cr.finalizer
           \/ pc' \in {"finalizer", "generate", "success"} /\ ~run.cr.deleting
    BY <1>1, Zenon DEF Client, At, Continue, Goto, TypeOK, Resources
  <2>2. run.cr.deleting => run.cr.finalizer
    BY <2>1, Zenon DEF Progress
  <2>3. QED
    BY <2>1, <2>2, ContinueReported, Zenon DEF Undoing
<1>2. CASE deleteKafkaUser \/ deleteACLs
  <2>1. /\ pc \in Undoing /\ pc' \in Undoing /\ UNCHANGED <<cr, run, queued>>
    BY <1>2, Zenon DEF deleteKafkaUser, deleteACLs, At, Continue, Goto, Undoing
  <2>2. QED
    BY <2>1, ContinueReported, Zenon DEF Reported, Undoing
<1>3. CASE RemoveFinalizer
  <2>1. CASE ~cr.there
    BY <1>3, <2>1, QueuedReported, Zenon DEF RemoveFinalizer, Requeue, Return
  <2>2. CASE cr.there /\ cr.deleting
    <3>1. cr' = NoResource /\ pc' = "forget" /\ ~NoResource.there
      BY <1>3, <2>2, Zenon DEF RemoveFinalizer, Continue, Goto, NoResource
    <3>2. QED
      BY <3>1, Zenon DEF Reported, Undoing
  <2>3. CASE cr.there /\ ~cr.deleting
    <3>1. /\ pc = "unfinalize" /\ pc' = "forget" /\ UNCHANGED queued
          /\ cr' = [cr EXCEPT !.finalizer = FALSE]
      BY <1>3, <2>3, Zenon DEF RemoveFinalizer, At, Continue, Goto
    <3>2. cr'.mine = cr.mine
      BY <3>1, Zenon DEF TypeOK, Resources
    <3>3. run.cr.deleting
      BY <3>1, Zenon DEF Reported, Undoing
    <3>4. ~cr.mine \/ queued
      BY <2>3, <3>1, <3>3, Zenon DEF Reported
    <3>5. QED
      BY <3>1, <3>2, <3>4, Zenon DEF Reported, Undoing
  <2>4. QED
    BY <2>1, <2>2, <2>3, Zenon
<1>4. CASE Forget
  <2>1. pc = "forget" /\ pc' = "idle" /\ UNCHANGED <<cr, queued>>
    BY <1>4, Zenon DEF Forget, At, Return
  <2>2. queued \/ ~cr.there \/ ~cr.mine
    BY <2>1, Zenon DEF Reported
  <2>3. QED
    BY <2>1, <2>2, QueuedReported, Zenon
<1>5. QED
  BY <1>1, <1>2, <1>3, <1>4, Zenon DEF Deletion

\* The cycle applies the specification, or there will be another one.
LEMMA ApplicationReported ==
    ASSUME TypeOK, Progress, Reported,
           \/ AddFinalizer \/ generateSecret \/ FindSecret \/ upsertKafkaUser
           \/ createACLs \/ Authorized
    PROVE  Reported'
<1>1. CASE pc' = "idle" /\ queued' = TRUE
  BY <1>1, QueuedReported, Zenon
<1>2. CASE ~(pc' = "idle" /\ queued' = TRUE)
  <2>1. CASE AddFinalizer
    <3>1. /\ pc = "finalizer" /\ pc' \in {"generate", "success"} /\ UNCHANGED <<run, queued>>
          /\ cr' = [cr EXCEPT !.finalizer = TRUE]
      BY <1>2, <2>1, Zenon DEF AddFinalizer, At, Continue, Goto, Requeue, Return
    <3>2. /\ cr'.there = cr.there /\ cr'.mine = cr.mine /\ cr'.generation = cr.generation
          /\ cr'.deleting = cr.deleting
      BY <3>1, Zenon DEF TypeOK, Resources
    <3>3. ~run.cr.deleting
      BY <3>1, Zenon DEF Progress
    <3>4. QED
      BY <3>1, <3>2, <3>3, ContinueReported, Zenon DEF Undoing
  <2>2. CASE generateSecret \/ upsertKafkaUser \/ createACLs
    <3>1. /\ pc # "idle" /\ pc' \in {"secret", "record", "authorized"}
          /\ UNCHANGED <<cr, run, queued>>
      BY <1>2, <2>2, Zenon DEF generateSecret, upsertKafkaUser, createACLs, processError,
            At, Continue, Goto, Requeue, Return
    <3>2. QED
      BY <3>1, ContinueReported, Zenon DEF Undoing
  <2>3. CASE FindSecret
    <3>1. /\ pc = "secret" /\ pc' \in {"detach", "upsert", "createACLs"} /\ UNCHANGED <<cr, queued>>
          /\ run' = run \/ run' = [run EXCEPT !.secret = secret.version]
      BY <1>2, <2>3, Zenon DEF FindSecret, processError, At, Continue, Goto, Requeue, Return
    <3>2. run'.cr = run.cr
      BY <3>1, Zenon DEF TypeOK
    <3>3. QED
      BY <3>1, <3>2, ContinueReported, Zenon DEF Undoing
  <2>4. CASE Authorized
    <3>1. pc = "authorized" /\ pc' = "success" /\ UNCHANGED <<cr, run, queued>>
      BY <1>2, <2>4, Zenon DEF Authorized, At, Continue, Goto, Requeue, Return
    <3>2. ~run.cr.deleting
      BY <3>1, Zenon DEF Progress, Applying
    <3>3. QED
      BY <3>1, <3>2, ContinueReported, Zenon DEF Undoing
  <2>5. QED
    BY <2>1, <2>2, <2>3, <2>4, Zenon
<1>3. QED
  BY <1>1, <1>2, Zenon

\* The generation in the status is the one the cycle has read.
LEMMA SuccessReported ==
    ASSUME TypeOK, Reported, Success
    PROVE  Reported'
<1>1. CASE ~cr.there
  BY <1>1, QueuedReported, Zenon DEF Success, Requeue, Return
<1>2. CASE cr.there
  <2>1. /\ pc = "success" /\ pc' = "idle" /\ UNCHANGED queued
        /\ cr' = [cr EXCEPT !.observed = run.cr.generation, !.state = "success"]
    BY <1>2, Zenon DEF Success, At, Return
  <2>2. /\ cr'.mine = cr.mine /\ cr'.generation = cr.generation /\ cr'.deleting = cr.deleting
        /\ cr'.observed = run.cr.generation /\ cr'.state = "success"
    BY <2>1, Zenon DEF TypeOK, Resources
  <2>3. QED
    BY <1>2, <2>1, <2>2, Zenon DEF Reported, Undoing
<1>3. QED
  BY <1>1, <1>2, Zenon

\* After an error there is another cycle, and a new process looks at every
\* resource of its Kafka.
LEMMA FaultReported ==
    ASSUME KafkaFails \/ ApiFails \/ Crash
    PROVE  Reported'
<1>1. CASE KafkaFails \/ ApiFails
  BY <1>1, QueuedReported, Zenon DEF KafkaFails, ApiFails, processError, Requeue, Return
<1>2. CASE Crash
  <2>1. pc' = "idle" /\ UNCHANGED cr /\ queued' = (cr.there /\ cr.mine)
    BY <1>2, Zenon DEF Crash, Return, kafkaHostFilterFunction
  <2>2. QED
    BY <2>1, QueuedReported, Zenon
<1>3. QED
  BY <1>1, <1>2, Zenon

\* A resource at rest has its verdict in every reachable state.
LEMMA ReportedInvariant ==
    Spec => []Reported
<1>1. Init => Reported
  <2>1. ~NoResource.there
    BY Zenon DEF NoResource
  <2>2. QED
    BY <2>1, Zenon DEF Init, Reported, Undoing
<1>2. IInv /\ Reported /\ [Next]_vars => Reported'
  <2> SUFFICES ASSUME IInv, Reported, [Next]_vars PROVE Reported'
    BY Zenon
  <2>1. TypeOK /\ Progress
    BY Zenon DEF IInv
  <2>2. CASE UNCHANGED vars
    BY <2>2, Zenon DEF vars, Reported
  <2>3. CASE Clients \/ OtherOperator
    BY <2>1, <2>3, ClientsReported, Zenon DEF Clients
  <2>4. CASE Reconcile
    BY <2>1, <2>4, GetReported, StatusReported, DeletionReported, ApplicationReported,
       SuccessReported, Zenon DEF Reconcile, Application
  <2>5. CASE KafkaFails \/ ApiFails \/ Crash
    BY <2>5, FaultReported, Zenon
  <2>6. QED
    BY <2>2, <2>3, <2>4, <2>5, Zenon DEF Next
<1>3. QED
  BY <1>1, <1>2, Invariance, PTL DEF Spec

\* The variables keep their types, and a resource that is gone has no status.
THEOREM TypeCorrect ==
    Spec => []TypeOK
<1>1. IInv => TypeOK
  BY Zenon DEF IInv
<1>2. QED
  BY <1>1, Invariance, PTL

\* RemoveFinalizer comes after the last call to Kafka and AddFinalizer before
\* the first: Kafka keeps nothing of a resource that is gone, but what it
\* refused to delete in an answer that deleteKafkaUser and deleteACLs drop.
THEOREM NoOrphanThm ==
    Spec => []NoOrphan
<1>1. IInv => NoOrphan
  BY DEF IInv, TypeOK, Guarded, NoOrphan, NoResource, Empty
<1>2. QED
  BY <1>1, Invariance, PTL

\* A version is recorded in the status after Kafka has the password of it, or
\* refused it in an answer that upsertKafkaUser drops.
THEOREM RecordNotAheadThm ==
    Spec => []RecordNotAhead
<1>1. IInv => RecordNotAhead
  BY Zenon DEF IInv
<1>2. QED
  BY <1>1, Invariance, PTL

\* A resource at rest was reported as applied in its present generation, and a
\* cycle that skips its work because the hashes agree reports a success that is
\* one, but for what Kafka refused in an answer the provider drops.
THEOREM SuccessMeansAppliedThm ==
    Spec => []SuccessMeansApplied
<1>1. ASSUME IInv, Reported, AtRest, cr.there, cr.mine
      PROVE  ~cr.deleting /\ cr.state = "success" /\ cr.observed = cr.generation
  BY <1>1, Zenon DEF Reported, AtRest
<1>2. ASSUME IInv, Reported, AtRest, cr.there, cr.mine, ~kept, ~moved
      PROVE  Applied(cr.spec)
  <2>1. hash = HashOf(cr)
    BY <1>1, <1>2, Zenon DEF IInv, Latest, Clean, AtRest
  <2>2. hash # NoHash /\ hash[1] = cr.spec
    BY <2>1, Zenon DEF HashOf, NoHash
  <2>3. QED
    BY <1>1, <1>2, <2>2, Zenon DEF IInv, Hashes, Clean, AtRest
<1>3. IInv /\ Reported => SuccessMeansApplied
  BY <1>1, <1>2, Zenon DEF SuccessMeansApplied, Applied, HasUser
<1>4. QED
  BY <1>3, Invariance, ReportedInvariant, PTL

=============================================================================
