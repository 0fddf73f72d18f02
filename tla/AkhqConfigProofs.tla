-------------------------- MODULE AkhqConfigProofs --------------------------
(* Proofs about AkhqConfig for any number of resources, each with a worker of *)
(* its own, and of expressions, edits and faults.                             *)
EXTENDS AkhqConfig, TLAPS

-----------------------------------------------------------------------------
(* The inductive invariant *)

Applying(c) == pc[c] \in {"create", "binary", "gzip", "read"}

\* A cycle works on a resource that cannot go before it, ...
Guarded(c) ==
    /\ ~akhq[c].there => ~akhq[c].finalizer
    /\ akhq[c].deleting => akhq[c].finalizer
    /\ run[c].unchanged => akhq[c].there /\ ~akhq[c].deleting
    /\ pc[c] = "apply" \/ Applying(c) => akhq[c].finalizer
    /\ pc[c] \in {"delete", "unbinary", "unfinalize"} => akhq[c].deleting

\* ... which has entries only while it has the finalizer.
Finalized(c) ==
    /\ ~akhq[c].finalizer => cm.entries[c] = NoEntries
    /\ pc[c] = "unfinalize" => cm.entries[c] = NoEntries
    /\ pc[c] = "unbinary" => run[c].entries[c] = NoEntries

\* The descriptor of an entry is there before the entry.
Described(c) ==
    /\ ~akhq[c].deleting =>
           \A r \in Regexes : cm.entries[c][r] # 0 => desc[c][r] # NoContent
    /\ Applying(c) =>
           \A r \in Regexes :
               run[c].entries[c][r] # 0 => r \in run[c].todo \/ desc[c][r] # NoContent

\* A cycle with the current version has the entries of the others as they are.
Read(c) ==
    (Applying(c) \/ pc[c] = "unbinary") /\ c \in current =>
        \A d \in Configs \ {c} : run[c].entries[d] = cm.entries[d]

\* The maps that the KafkaService cycle has found are those of the mapping.
Found ==
    spc = "deploy" /\ "cycle" \in current =>
        \A c \in Configs, r \in Regexes :
            cm.entries[c][r] # 0 /\ ~akhq[c].deleting => <<c, r>> \in found

IInv ==
    /\ TypeOK /\ Found /\ Mounted
    /\ \A c \in Configs : Guarded(c) /\ Finalized(c) /\ Described(c) /\ Read(c)

-----------------------------------------------------------------------------
(* Steps of one resource *)

\* Nothing changes for resource d: its cycle keeps the version it holds only
\* when no entry changes at all.
Same(d) ==
    /\ pc'[d] = pc[d] /\ run'[d] = run[d] /\ akhq'[d] = akhq[d] /\ desc'[d] = desc[d]
    /\ cm'.entries[d] = cm.entries[d]
    /\ d \in current' => d \in current /\ cm'.entries = cm.entries

\* Nothing changes for the KafkaService cycle and for AKHQ.
ServiceSame ==
    /\ spc' = spc /\ found' = found /\ mounted' = mounted
    /\ \A h \in {"cycle", "deployed"} :
           h \in current' => h \in current /\ cm'.entries = cm.entries
    /\ \A d \in Configs :
           ~akhq'[d].deleting => ~akhq[d].deleting \/ cm.entries[d] = NoEntries

Own(c) == Guarded(c) /\ Finalized(c) /\ Described(c) /\ Read(c)

\* What holds of a resource holds after a step that changes nothing for it.
LEMMA SameKeeps ==
    ASSUME NEW d \in Configs, Own(d), Same(d)
    PROVE  Own(d)'
<1>1. Guarded(d)' /\ Finalized(d)' /\ Described(d)'
  BY Zenon DEF Own, Same, Guarded, Finalized, Described, Applying
<1>2. Read(d)'
  BY Zenon DEF Own, Same, Read, Applying
<1>3. QED
  BY <1>1, <1>2, Zenon DEF Own

\* What the KafkaService cycle has found, and what AKHQ has mounted, stays what
\* the mapping asks for.
LEMMA ServiceSameKeeps ==
    ASSUME TypeOK, Found, Mounted, ServiceSame
    PROVE  Found' /\ Mounted'
<1>1. \A c \in Configs, r \in Regexes :
          cm.entries[c] = NoEntries => cm.entries[c][r] = 0
  BY Zenon DEF NoEntries
<1>2. Found'
  BY <1>1, Zenon DEF Found, ServiceSame
<1>3. Mounted'
  BY <1>1, Zenon DEF Mounted, ServiceSame
<1>4. QED
  BY <1>2, <1>3, Zenon

\* A step of one resource has to be looked at only for that resource.
LEMMA OwnStep ==
    ASSUME IInv, TypeOK', NEW c \in Configs, Own(c)', ServiceSame,
           \A d \in Configs \ {c} : Same(d)
    PROVE  IInv'
<1>1. ASSUME NEW d \in Configs PROVE Own(d)'
  <2>1. CASE d = c
    BY <2>1, Zenon
  <2>2. CASE d # c
    BY <2>2, SameKeeps, Zenon DEF IInv, Own
  <2>3. QED
    BY <2>1, <2>2, Zenon
<1>2. Found' /\ Mounted'
  BY ServiceSameKeeps, Zenon DEF IInv
<1>3. QED
  BY <1>1, <1>2, Zenon DEF IInv, Own

-----------------------------------------------------------------------------
(* TypeOK *)

\* Constants of the right types.
LEMMA ConstantTypes ==
    /\ NoEntries \in Entries /\ NoMapping \in Mappings /\ NoResource \in Resources
    /\ NoRegex \in Regexes /\ NoRun \in Runs /\ NoContent \in Contents
<1>1. NoEntries \in Entries
  BY AkhqAssumption DEF NoEntries, Entries
<1>2. NoMapping \in Mappings
  BY <1>1, Zenon DEF NoMapping, Mappings
<1>3. NoResource \in Resources
  BY <1>1, Zenon DEF NoResource, Resources, Statuses
<1>4. NoRegex \in Regexes
  BY AkhqAssumption, Zenon DEF NoRegex
<1>5. NoMapping.entries \in [Configs -> Entries]
  BY <1>1, Zenon DEF NoMapping
<1>6. NoRun \in Runs
  BY <1>1, <1>4, <1>5, Zenon DEF NoRun, Runs
<1>7. QED
  BY <1>1, <1>2, <1>3, <1>4, <1>6, Zenon DEF Contents

\* The end of a cycle keeps the types.
LEMMA EndTypes ==
    ASSUME TypeOK, NEW c \in Configs, NEW requeue \in BOOLEAN, Ends(c, requeue)
    PROVE  /\ pc' \in [Configs -> Labels] /\ run' \in [Configs -> Runs]
           /\ pc'[c] = "idle" /\ run'[c] = NoRun
           /\ \A d \in Configs \ {c} : pc'[d] = pc[d] /\ run'[d] = run[d]
BY ConstantTypes, Zenon DEF TypeOK, Ends, Labels

\* So does a status of a resource.
LEMMA StatusTypes ==
    ASSUME TypeOK, NEW c \in Configs, NEW status \in Statuses, updateCrStatus(c, status)
    PROVE  /\ akhq' \in [Configs -> Resources]
           /\ \A d \in Configs :
                 /\ akhq'[d].there = akhq[d].there /\ akhq'[d].deleting = akhq[d].deleting
                 /\ akhq'[d].finalizer = akhq[d].finalizer
           /\ \A d \in Configs \ {c} : akhq'[d] = akhq[d]
<1>1. [akhq[c] EXCEPT !.status = status] \in Resources
  BY Zenon DEF TypeOK, Resources
<1>2. CASE akhq[c].there
  BY <1>1, <1>2, Zenon DEF TypeOK, updateCrStatus, Resources
<1>3. CASE ~akhq[c].there
  BY <1>3, Zenon DEF TypeOK, updateCrStatus
<1>4. QED
  BY <1>2, <1>3, Zenon

-----------------------------------------------------------------------------
(* Steps that end a cycle and leave the mapping *)

\* The end of a cycle, with an error or without, disturbs nothing.
LEMMA EndKeeps ==
    ASSUME IInv, NEW c \in Configs, NEW requeue \in BOOLEAN, Ends(c, requeue),
           akhq' = akhq \/ \E status \in Statuses : updateCrStatus(c, status),
           cm' = cm, current' = current, desc' = desc, tmp' \in Contents, gz' \in Contents,
           UNCHANGED serviceVars
    PROVE  IInv'
<1>1. /\ akhq' \in [Configs -> Resources]
      /\ \A d \in Configs :
            /\ akhq'[d].there = akhq[d].there /\ akhq'[d].deleting = akhq[d].deleting
            /\ akhq'[d].finalizer = akhq[d].finalizer
      /\ \A d \in Configs \ {c} : akhq'[d] = akhq[d]
  BY StatusTypes, Zenon DEF IInv, TypeOK
<1>2. /\ pc' \in [Configs -> Labels] /\ run' \in [Configs -> Runs]
      /\ pc'[c] = "idle" /\ run'[c] = NoRun
      /\ \A d \in Configs \ {c} : pc'[d] = pc[d] /\ run'[d] = run[d]
  BY EndTypes, Zenon DEF IInv
<1>3. TypeOK'
  BY <1>1, <1>2, Zenon DEF IInv, TypeOK
<1>4. Own(c)'
  <2>1. Guarded(c)'
    BY <1>1, <1>2 DEF IInv, Guarded, Applying, NoRun
  <2>2. Finalized(c)' /\ Described(c)' /\ Read(c)'
    BY <1>1, <1>2, Zenon DEF IInv, Finalized, Described, Read, Applying
  <2>3. QED
    BY <2>1, <2>2, Zenon DEF Own
<1>5. ServiceSame
  BY <1>1, Zenon DEF ServiceSame, serviceVars
<1>6. \A d \in Configs \ {c} : Same(d)
  BY <1>1, <1>2, Zenon DEF Same
<1>7. QED
  BY <1>3, <1>4, <1>5, <1>6, OwnStep, Zenon

\* So do errors.
LEMMA ErrorKeeps ==
    ASSUME IInv, NEW c \in Configs, Requeue(c) \/ Failed(c),
           cm' = cm, current' = current, desc' = desc, tmp' \in Contents, gz' \in Contents,
           UNCHANGED serviceVars
    PROVE  IInv'
<1>1. CASE Requeue(c)
  <2>1. Ends(c, TRUE) /\ akhq' = akhq /\ TRUE \in BOOLEAN
    BY <1>1, Zenon DEF Requeue
  <2>2. QED
    BY <2>1, EndKeeps, Zenon
<1>2. CASE Failed(c)
  <2>1. Ends(c, TRUE) /\ updateCrStatus(c, "problem") /\ "problem" \in Statuses
      /\ TRUE \in BOOLEAN
    BY <1>2, Zenon DEF Failed, Statuses
  <2>2. QED
    BY <2>1, EndKeeps, Zenon
<1>3. QED
  BY <1>1, <1>2, Zenon

-----------------------------------------------------------------------------
(* Clients *)

\* A cycle that has read another version keeps what else it has read.
LEMMA ChangedTypes ==
    ASSUME TypeOK, NEW c \in Configs, Changed(c)
    PROVE  /\ run' \in [Configs -> Runs] /\ ~run'[c].unchanged
           /\ run'[c].entries = run[c].entries /\ run'[c].todo = run[c].todo
           /\ \A d \in Configs \ {c} : run'[d] = run[d]
<1>1. run \in [Configs -> Runs] /\ run' = [run EXCEPT ![c].unchanged = FALSE]
  BY Zenon DEF TypeOK, Changed
<1>2. [run[c] EXCEPT !.unchanged = FALSE] \in Runs
  BY <1>1, Zenon DEF Runs
<1>3. QED
  BY <1>1, <1>2, Zenon DEF Runs

\* A new specification does not touch what was applied.
LEMMA EditKeeps ==
    ASSUME IInv, NEW c \in Configs, EditResource(c)
    PROVE  IInv'
<1>1. PICK spec \in Entries, valid \in BOOLEAN :
          akhq' = [akhq EXCEPT ![c].there = TRUE, ![c].spec = spec, ![c].valid = valid]
  BY Zenon DEF EditResource
<1>2. /\ akhq' \in [Configs -> Resources] /\ akhq'[c].there
      /\ akhq'[c].deleting = akhq[c].deleting /\ akhq'[c].finalizer = akhq[c].finalizer
      /\ \A d \in Configs \ {c} : akhq'[d] = akhq[d]
  <2>1. akhq \in [Configs -> Resources]
    BY Zenon DEF IInv, TypeOK
  <2>2. [akhq[c] EXCEPT !.there = TRUE, !.spec = spec, !.valid = valid] \in Resources
    BY <2>1, Zenon DEF Resources
  <2>3. akhq' = [akhq EXCEPT ![c] =
                    [akhq[c] EXCEPT !.there = TRUE, !.spec = spec, !.valid = valid]]
    BY <1>1, <2>1, Zenon
  <2>4. QED
    BY <2>1, <2>2, <2>3, Zenon DEF Resources
<1>3. /\ run' \in [Configs -> Runs] /\ ~run'[c].unchanged
      /\ run'[c].entries = run[c].entries /\ run'[c].todo = run[c].todo
      /\ \A d \in Configs \ {c} : run'[d] = run[d]
  BY ChangedTypes, Zenon DEF EditResource, IInv
<1>4. cm' = cm /\ current' = current /\ desc' = desc /\ tmp' = tmp /\ gz' = gz /\ pc' = pc
      /\ UNCHANGED serviceVars
  BY Zenon DEF EditResource
<1>5. TypeOK'
  BY <1>2, <1>3, <1>4, Zenon DEF IInv, TypeOK
<1>6. Own(c)'
  <2>1. Guarded(c)'
    BY <1>2, <1>3, <1>4, Zenon DEF IInv, Guarded, Applying
  <2>2. Finalized(c)' /\ Described(c)' /\ Read(c)'
    BY <1>2, <1>3, <1>4 DEF IInv, Finalized, Described, Read, Applying
  <2>3. QED
    BY <2>1, <2>2, Zenon DEF Own
<1>7. ServiceSame
  BY <1>2, <1>4, Zenon DEF ServiceSame, serviceVars
<1>8. \A d \in Configs \ {c} : Same(d)
  BY <1>2, <1>3, <1>4, Zenon DEF Same
<1>9. QED
  BY <1>5, <1>6, <1>7, <1>8, OwnStep, Zenon

\* A resource with entries has the finalizer, and stays when it is deleted.
LEMMA DeleteKeeps ==
    ASSUME IInv, NEW c \in Configs, DeleteResource(c)
    PROVE  IInv'
<1>1. /\ akhq' \in [Configs -> Resources]
      /\ akhq[c].finalizer => akhq'[c] = [akhq[c] EXCEPT !.deleting = TRUE]
      /\ ~akhq[c].finalizer => akhq'[c] = NoResource
      /\ \A d \in Configs \ {c} : akhq'[d] = akhq[d]
  BY ConstantTypes, Zenon DEF DeleteResource, IInv, TypeOK, Resources
<1>2. /\ akhq'[c].finalizer = akhq[c].finalizer
      /\ akhq'[c].deleting = akhq[c].finalizer
      /\ akhq[c].there
      /\ akhq'[c].finalizer => akhq'[c].there
  BY <1>1, Zenon DEF NoResource, IInv, TypeOK, Resources, DeleteResource
<1>3. /\ run' \in [Configs -> Runs] /\ ~run'[c].unchanged
      /\ run'[c].entries = run[c].entries /\ run'[c].todo = run[c].todo
      /\ \A d \in Configs \ {c} : run'[d] = run[d]
  BY ChangedTypes, Zenon DEF DeleteResource, IInv
<1>4. cm' = cm /\ current' = current /\ desc' = desc /\ tmp' = tmp /\ gz' = gz /\ pc' = pc
      /\ UNCHANGED serviceVars /\ ~akhq[c].deleting
  BY Zenon DEF DeleteResource
<1>5. TypeOK'
  BY <1>1, <1>3, <1>4, Zenon DEF IInv, TypeOK
<1>6. Own(c)'
  <2>1. Guarded(c)'
    BY <1>2, <1>3, <1>4, Zenon DEF IInv, Guarded, Applying
  <2>2. Finalized(c)' /\ Described(c)' /\ Read(c)'
    BY <1>2, <1>3, <1>4 DEF IInv, Finalized, Described, Read, Applying
  <2>3. QED
    BY <2>1, <2>2, Zenon DEF Own
<1>7. ServiceSame
  BY <1>1, <1>2, <1>4, Zenon DEF ServiceSame, serviceVars
<1>8. \A d \in Configs \ {c} : Same(d)
  BY <1>1, <1>3, <1>4, Zenon DEF Same
<1>9. QED
  BY <1>5, <1>6, <1>7, <1>8, OwnStep, Zenon

\* Without the mapping there are no entries, and nobody has its version.
LEMMA DeleteMappingKeeps ==
    ASSUME IInv, DeleteMapping
    PROVE  IInv'
<1>1. /\ cm' = NoMapping /\ current' = {} /\ akhq' = akhq /\ desc' = desc /\ tmp' = tmp
      /\ gz' = gz /\ pc' = pc /\ run' = run
  BY Zenon DEF DeleteMapping, Write, configVars
<1>2. TypeOK'
  BY <1>1, ConstantTypes, Zenon DEF IInv, TypeOK
<1>3. \A c \in Configs : /\ cm'.entries[c] = NoEntries
                        /\ \A r \in Regexes : cm'.entries[c][r] = 0
  BY <1>1, Zenon DEF NoMapping, NoEntries
<1>4. Found' /\ Mounted'
  BY <1>1, Zenon DEF Found, Mounted
<1>5. ASSUME NEW c \in Configs PROVE (Guarded(c) /\ Finalized(c) /\ Described(c) /\ Read(c))'
  BY <1>1, <1>3, Zenon DEF IInv, Guarded, Finalized, Described, Read, Applying
<1>6. QED
  BY <1>2, <1>4, <1>5, Zenon DEF IInv

\* A step that changes only queues and the history.
LEMMA StutterKeeps ==
    ASSUME IInv, UNCHANGED <<akhq, cm, current, desc, tmp, gz, pc, run, serviceVars>>
    PROVE  IInv'
<1>1. TypeOK'
  BY Zenon DEF IInv, TypeOK
<1>2. ServiceSame
  BY Zenon DEF ServiceSame, serviceVars
<1>3. \A d \in Configs : Same(d)
  BY Zenon DEF Same
<1>4. \A d \in Configs : Own(d)'
  BY <1>3, SameKeeps, Zenon DEF IInv, Own
<1>5. Found' /\ Mounted'
  BY <1>2, ServiceSameKeeps, Zenon DEF IInv
<1>6. QED
  BY <1>1, <1>4, <1>5, Zenon DEF IInv, Own

-----------------------------------------------------------------------------
(* The reconciler *)

\* A step to another label, with what was read, that leaves everything else.
LEMMA StepKeeps ==
    ASSUME IInv, NEW c \in Configs, NEW label \in Labels, NEW new \in Runs,
           pc' = [pc EXCEPT ![c] = label], run' = [run EXCEPT ![c] = new],
           akhq' = akhq, cm' = cm, current' \subseteq current \union {c}, desc' = desc,
           current \subseteq current',
           tmp' \in Contents, gz' \in Contents, UNCHANGED serviceVars,
           Own(c)'
    PROVE  IInv'
<1>1. /\ pc' \in [Configs -> Labels] /\ run' \in [Configs -> Runs]
      /\ \A d \in Configs \ {c} : pc'[d] = pc[d] /\ run'[d] = run[d]
  BY Zenon DEF IInv, TypeOK
<1>2. TypeOK'
  BY <1>1, Zenon DEF IInv, TypeOK
<1>3. ServiceSame
  BY AkhqAssumption, Zenon DEF ServiceSame, serviceVars
<1>4. \A d \in Configs \ {c} : Same(d)
  BY <1>1, Zenon DEF Same
<1>5. QED
  BY <1>2, <1>3, <1>4, OwnStep, Zenon

\* The cycle starts with a resource that exists.
LEMMA GetKeeps ==
    ASSUME IInv, NEW c \in Configs, Get(c)
    PROVE  IInv'
<1>1. /\ cm' = cm /\ current' = current /\ desc' = desc /\ tmp' = tmp /\ gz' = gz
      /\ UNCHANGED serviceVars /\ pc[c] = "idle"
  BY Zenon DEF Get
<1>2. CASE ~akhq[c].there /\ UNCHANGED <<akhq, pc, run>>
  BY <1>1, <1>2, StutterKeeps, Zenon
<1>3. CASE akhq[c].deleting /\ pc' = [pc EXCEPT ![c] = "delete"] /\ UNCHANGED <<akhq, run>>
  <2>1. /\ run' = [run EXCEPT ![c] = run[c]] /\ run[c] \in Runs /\ "delete" \in Labels
        /\ pc'[c] = "delete" /\ run'[c] = run[c]
    BY <1>3, Zenon DEF IInv, TypeOK, Labels
  <2>2. Own(c)'
    BY <1>1, <1>3, <2>1, Zenon DEF IInv, Own, Guarded, Finalized, Described, Read, Applying
  <2>3. tmp' \in Contents /\ gz' \in Contents
    BY <1>1, Zenon DEF IInv, TypeOK
  <2>4. QED
    BY <1>1, <1>3, <2>1, <2>2, <2>3, StepKeeps, Zenon
<1>4. CASE updateCrStatus(c, "invalid") /\ UNCHANGED <<pc, run>>
  <2>1. /\ akhq' \in [Configs -> Resources]
        /\ \A d \in Configs :
              /\ akhq'[d].there = akhq[d].there /\ akhq'[d].deleting = akhq[d].deleting
              /\ akhq'[d].finalizer = akhq[d].finalizer
        /\ \A d \in Configs \ {c} : akhq'[d] = akhq[d]
    BY <1>4, StatusTypes, Zenon DEF IInv, Statuses
  <2>2. TypeOK'
    BY <1>1, <1>4, <2>1, Zenon DEF IInv, TypeOK
  <2>3. Own(c)'
    BY <1>1, <1>4, <2>1, Zenon DEF IInv, Own, Guarded, Finalized, Described, Read, Applying
  <2>4. ServiceSame /\ \A d \in Configs \ {c} : Same(d)
    BY <1>1, <1>4, <2>1, Zenon DEF ServiceSame, serviceVars, Same
  <2>5. QED
    BY <2>2, <2>3, <2>4, OwnStep, Zenon
<1>5. CASE /\ akhq[c].there /\ ~akhq[c].deleting /\ UNCHANGED akhq
           /\ pc' = [pc EXCEPT ![c] = IF akhq[c].finalizer THEN "apply" ELSE "finalizer"]
           /\ run' = [run EXCEPT ![c].spec = akhq[c].spec,
                                 ![c].unchanged = ~akhq[c].finalizer]
  <2> DEFINE label == IF akhq[c].finalizer THEN "apply" ELSE "finalizer"
             new == [run[c] EXCEPT !.spec = akhq[c].spec, !.unchanged = ~akhq[c].finalizer]
  <2>1. run \in [Configs -> Runs] /\ akhq[c] \in Resources /\ run[c] \in Runs
    BY Zenon DEF IInv, TypeOK
  <2>2. new \in Runs
    BY <2>1, Zenon DEF Runs, Resources
  <2>3. run' = [run EXCEPT ![c] = new]
    BY <1>5, <2>1, Zenon
  <2>4. label \in Labels /\ pc'[c] = label /\ run'[c] = new
    BY <1>5, <2>1, <2>3, Zenon DEF IInv, TypeOK, Labels
  <2>5. Own(c)'
    BY <1>1, <1>5, <2>1, <2>4
      DEF IInv, Own, Guarded, Finalized, Described, Read, Applying, Runs
  <2>6. tmp' \in Contents /\ gz' \in Contents
    BY <1>1, Zenon DEF IInv, TypeOK
  <2>7. pc' = [pc EXCEPT ![c] = label]
    BY <1>5, Zenon
  <2> HIDE DEF label, new
  <2>8. QED
    BY <1>1, <1>5, <2>2, <2>3, <2>4, <2>5, <2>6, <2>7, StepKeeps, Zenon
<1>6. QED
  BY <1>2, <1>3, <1>4, <1>5, Zenon DEF Get

\* The finalizer comes before the first entry.
LEMMA AddFinalizerKeeps ==
    ASSUME IInv, NEW c \in Configs, AddFinalizer(c)
    PROVE  IInv'
<1>1. /\ cm' = cm /\ current' = current /\ desc' = desc /\ tmp' = tmp /\ gz' = gz
      /\ UNCHANGED serviceVars /\ pc[c] = "finalizer"
  BY Zenon DEF AddFinalizer
<1>2. tmp' \in Contents /\ gz' \in Contents
  BY <1>1, Zenon DEF IInv, TypeOK
<1>3. CASE ~run[c].unchanged
  <2>1. Requeue(c)
    BY <1>3, Zenon DEF AddFinalizer
  <2>2. QED
    BY <1>1, <1>2, <2>1, ErrorKeeps, Zenon
<1>4. CASE run[c].unchanged
  <2>1. /\ akhq' = [akhq EXCEPT ![c].finalizer = TRUE]
        /\ pc' = [pc EXCEPT ![c] = "apply"]
        /\ run' = [run EXCEPT ![c].unchanged = FALSE]
    BY <1>4, Zenon DEF AddFinalizer, Step
  <2>2. /\ akhq \in [Configs -> Resources] /\ pc \in [Configs -> Labels]
        /\ run \in [Configs -> Runs]
    BY Zenon DEF IInv, TypeOK
  <2>3. [akhq[c] EXCEPT !.finalizer = TRUE] \in Resources
    BY <2>2, Zenon DEF Resources
  <2>4. /\ akhq' \in [Configs -> Resources]
        /\ akhq'[c].there = akhq[c].there /\ akhq'[c].deleting = akhq[c].deleting
        /\ akhq'[c].finalizer /\ \A d \in Configs \ {c} : akhq'[d] = akhq[d]
    BY <2>1, <2>2, <2>3, Zenon DEF Resources
  <2>5. [run[c] EXCEPT !.unchanged = FALSE] \in Runs
    BY <2>2, Zenon DEF Runs
  <2>6. /\ run' \in [Configs -> Runs] /\ ~run'[c].unchanged
        /\ \A d \in Configs \ {c} : run'[d] = run[d]
    BY <2>1, <2>2, <2>5, Zenon DEF Runs
  <2>7. /\ pc' \in [Configs -> Labels] /\ pc'[c] = "apply"
        /\ \A d \in Configs \ {c} : pc'[d] = pc[d]
    BY <2>1, <2>2, Zenon DEF Labels
  <2>8. TypeOK'
    BY <1>1, <1>2, <2>4, <2>6, <2>7, Zenon DEF IInv, TypeOK
  <2>9. Own(c)'
    BY <1>1, <1>4, <2>4, <2>6, <2>7
      DEF IInv, Own, Guarded, Finalized, Described, Read, Applying
  <2>10. ServiceSame /\ \A d \in Configs \ {c} : Same(d)
    BY <1>1, <2>4, <2>6, <2>7, Zenon DEF ServiceSame, serviceVars, Same
  <2>11. QED
    BY <2>8, <2>9, <2>10, OwnStep, Zenon
<1>5. QED
  BY <1>3, <1>4, Zenon

\* Whoever creates or updates the mapping leaves the entries as they are.
LEMMA MappingKeepsEntries ==
    ASSUME cm \in Mappings, NEW labelled \in BOOLEAN, NEW controller \in BOOLEAN
    PROVE  LET mapping == ProtobufConfigMap(labelled, controller)
           IN  mapping \in Mappings /\ mapping.entries = cm.entries
  BY Zenon DEF ProtobufConfigMap, Mappings

\* The entries to write are those of the specification, whose descriptors are
\* still to be written, and those of the others as they are in the mapping.
LEMMA ApplyKeeps ==
    ASSUME IInv, NEW c \in Configs, applyConfig(c)
    PROVE  IInv'
<1> DEFINE spec == run[c].spec
           entries == [cm.entries EXCEPT ![c] = spec]
           todo == {r \in Regexes : spec[r] # 0 \/ cm.entries[c][r] # 0}
           new == [run[c] EXCEPT !.entries = entries, !.todo = todo]
<1>1. /\ pc[c] = "apply" /\ pc' = [pc EXCEPT ![c] = "create"] /\ cm' = cm
      /\ current' = current \union {c}
      /\ run' = [run EXCEPT ![c].entries = entries, ![c].todo = todo]
      /\ akhq' = akhq /\ desc' = desc /\ tmp' = tmp /\ gz' = gz /\ UNCHANGED serviceVars
  BY Zenon DEF applyConfig, Step, fullUpdateDeserializationConfig
<1>2. /\ pc \in [Configs -> Labels] /\ run \in [Configs -> Runs] /\ run[c] \in Runs
      /\ cm \in Mappings
  BY Zenon DEF IInv, TypeOK
<1>3. spec \in Entries /\ cm.entries \in [Configs -> Entries]
  BY <1>2, Zenon DEF Runs, Mappings
<1>4. entries \in [Configs -> Entries] /\ todo \in SUBSET Regexes
  BY <1>3, Zenon
<1>5. new \in Runs /\ new.entries = entries /\ new.todo = todo /\ new.unchanged = run[c].unchanged
  BY <1>2, <1>4, Zenon DEF Runs
<1>6. run' = [run EXCEPT ![c] = new]
  BY <1>1, <1>2, Zenon
<1>7. "create" \in Labels
  BY Zenon DEF Labels
<1>8. /\ pc'[c] = "create" /\ run'[c] = new
      /\ tmp' \in Contents /\ gz' \in Contents
  BY <1>1, <1>2, <1>6, Zenon DEF IInv, TypeOK
<1>9. \A d \in Configs \ {c} : entries[d] = cm.entries[d]
  BY <1>3, Zenon
<1>10. \A r \in Regexes : entries[c][r] # 0 => r \in todo
  BY <1>3, Zenon
<1> HIDE DEF entries, todo, new, spec
<1>11. Own(c)'
  <2>1. Guarded(c)' /\ Finalized(c)'
    BY <1>1, <1>5, <1>8, Zenon DEF IInv, Guarded, Finalized, Applying
  <2>2. Described(c)'
    BY <1>1, <1>5, <1>8, <1>10, Zenon DEF IInv, Described
  <2>3. Read(c)'
    BY <1>1, <1>5, <1>8, <1>9, Zenon DEF Read
  <2>4. QED
    BY <2>1, <2>2, <2>3, Zenon DEF Own
<1>12. current' \subseteq current \union {c} /\ current \subseteq current'
  BY <1>1, Zenon
<1>13. QED
  BY <1>1, <1>5, <1>6, <1>7, <1>8, <1>11, <1>12, StepKeeps, Zenon

\* The mapping is created or updated with the entries it has.
LEMMA CreateMappingKeeps ==
    ASSUME IInv, NEW c \in Configs, CreateMapping(c)
    PROVE  IInv'
<1> DEFINE mapping == ProtobufConfigMap(FALSE, FALSE)
<1>1. /\ pc[c] = "create" /\ desc' = desc /\ tmp' = tmp /\ gz' = gz /\ UNCHANGED serviceVars
      /\ tmp' \in Contents /\ gz' \in Contents
  BY Zenon DEF CreateMapping, IInv, TypeOK
<1>2. CASE c \notin current /\ Failed(c) /\ UNCHANGED <<cm, current>>
  BY <1>1, <1>2, ErrorKeeps, Zenon
<1>3. CASE /\ CreateProtobufConfigMapIfNotExist(c, mapping) /\ Step(c, "create", "binary")
           /\ UNCHANGED <<akhq, run>>
  <2>1. /\ cm' = mapping /\ c \in current /\ current' \subseteq current \union {c}
        /\ pc' = [pc EXCEPT ![c] = "binary"] /\ akhq' = akhq /\ run' = run
    BY <1>3, Zenon DEF CreateProtobufConfigMapIfNotExist, Step, Write, Kept
  <2>2. cm' \in Mappings /\ cm'.entries = cm.entries
    BY <2>1, MappingKeepsEntries, Zenon DEF IInv, TypeOK
  <2>3. /\ pc' \in [Configs -> Labels] /\ pc'[c] = "binary"
        /\ \A d \in Configs \ {c} : pc'[d] = pc[d]
    BY <2>1, Zenon DEF IInv, TypeOK, Labels
  <2>4. TypeOK'
    BY <1>1, <2>1, <2>2, <2>3, Zenon DEF IInv, TypeOK
  <2>5. Own(c)'
    <3>1. Guarded(c)' /\ Finalized(c)'
      BY <1>1, <2>1, <2>2, <2>3, Zenon DEF IInv, Guarded, Finalized, Applying
    <3>2. Described(c) /\ Read(c)
      BY Zenon DEF IInv
    <3>3. Described(c)'
      BY <1>1, <2>1, <2>2, <2>3, <3>2, Zenon DEF Described, Applying
    <3>4. Read(c)'
      BY <1>1, <2>1, <2>2, <2>3, <3>2, Zenon DEF Read, Applying
    <3>5. QED
      BY <3>1, <3>3, <3>4, Zenon DEF Own
  <2>6. ServiceSame
    BY <1>1, <2>1, <2>2, AkhqAssumption, Zenon DEF ServiceSame, serviceVars
  <2>7. \A d \in Configs \ {c} : Same(d)
    BY <1>1, <2>1, <2>2, <2>3, Zenon DEF Same
  <2>8. QED
    BY <2>4, <2>5, <2>6, <2>7, OwnStep, Zenon
<1>4. QED
  BY <1>2, <1>3, Zenon DEF CreateMapping

\* What is stored to be compressed is a descriptor of the specification.
LEMMA StoreKeeps ==
    ASSUME IInv, NEW c \in Configs, storeBytesToTmpFile(c)
    PROVE  IInv'
<1>1. PICK r \in run[c].todo : tmp' = <<c, run[c].spec[r]>> /\ run' = [run EXCEPT ![c].regex = r]
  BY Zenon DEF storeBytesToTmpFile
<1>2. /\ pc[c] = "binary" /\ pc' = [pc EXCEPT ![c] = "gzip"] /\ akhq' = akhq /\ cm' = cm
      /\ current' = current /\ desc' = desc /\ gz' = gz /\ UNCHANGED serviceVars
  BY Zenon DEF storeBytesToTmpFile, Step
<1> DEFINE new == [run[c] EXCEPT !.regex = r]
<1>3. run \in [Configs -> Runs] /\ run[c] \in Runs /\ r \in Regexes /\ gz \in Contents
  BY <1>1, Zenon DEF IInv, TypeOK, Runs
<1>4. /\ new \in Runs /\ new.entries = run[c].entries /\ new.todo = run[c].todo
      /\ new.unchanged = run[c].unchanged
  BY <1>3, Zenon DEF Runs
<1>5. run' = [run EXCEPT ![c] = new]
  BY <1>1, <1>3, Zenon
<1>6. tmp' \in Contents /\ gz' \in Contents
  BY <1>1, <1>2, <1>3, Zenon DEF Contents, Runs, Entries
<1>7. "gzip" \in Labels /\ pc'[c] = "gzip" /\ run'[c] = new
  BY <1>2, <1>3, <1>5, Zenon DEF IInv, TypeOK, Labels
<1> HIDE DEF new
<1>8. Own(c)'
  BY <1>2, <1>4, <1>7 DEF IInv, Own, Guarded, Finalized, Described, Read, Applying
<1>9. QED
  BY <1>2, <1>4, <1>5, <1>6, <1>7, <1>8, StepKeeps, Zenon

\* Without the file there is an error.
LEMMA CompressKeeps ==
    ASSUME IInv, NEW c \in Configs, compressBytesFromTmpFile(c)
    PROVE  IInv'
<1>1. /\ pc[c] = "gzip" /\ cm' = cm /\ current' = current /\ desc' = desc /\ tmp' = tmp
      /\ UNCHANGED serviceVars
  BY Zenon DEF compressBytesFromTmpFile
<1>2. CASE tmp = NoContent
  <2>1. Failed(c) /\ gz' = gz
    BY <1>2, Zenon DEF compressBytesFromTmpFile
  <2>2. tmp' \in Contents /\ gz' \in Contents
    BY <1>1, <2>1, Zenon DEF IInv, TypeOK
  <2>3. QED
    BY <1>1, <2>1, <2>2, ErrorKeeps, Zenon
<1>3. CASE tmp # NoContent
  <2>1. pc' = [pc EXCEPT ![c] = "read"] /\ gz' = tmp /\ akhq' = akhq /\ run' = run
    BY <1>3, Zenon DEF compressBytesFromTmpFile, Step
  <2>2. tmp' \in Contents /\ gz' \in Contents
    BY <1>1, <2>1, Zenon DEF IInv, TypeOK
  <2>3. /\ run' = [run EXCEPT ![c] = run[c]] /\ run[c] \in Runs /\ "read" \in Labels
        /\ pc'[c] = "read" /\ run'[c] = run[c]
    BY <2>1, Zenon DEF IInv, TypeOK, Labels
  <2>4. Own(c)'
    <3>1. Own(c)
      BY Zenon DEF IInv, Own
    <3>2. Guarded(c)' /\ Finalized(c)' /\ Read(c)'
      BY <1>1, <2>1, <2>3, <3>1, Zenon DEF Own, Guarded, Finalized, Read, Applying
    <3>3. Described(c)'
      BY <1>1, <2>1, <2>3, <3>1, Zenon DEF Own, Described, Applying
    <3>4. QED
      BY <3>2, <3>3, Zenon DEF Own
  <2>5. QED
    BY <1>1, <2>1, <2>2, <2>3, <2>4, StepKeeps, Zenon
<1>4. QED
  BY <1>2, <1>3, Zenon

\* A descriptor that is written, whosever it is, is one less to write.
LEMMA BinaryKeeps ==
    ASSUME IInv, NEW c \in Configs, applyBinaryConfigMap(c)
    PROVE  IInv'
<1>1. /\ pc[c] = "read" /\ cm' = cm /\ current' = current /\ tmp' = NoContent
      /\ gz' = NoContent /\ UNCHANGED serviceVars
  BY Zenon DEF applyBinaryConfigMap
<1>2. tmp' \in Contents /\ gz' \in Contents
  BY <1>1, ConstantTypes, Zenon
<1>3. CASE gz = NoContent
  <2>1. Failed(c) /\ desc' = desc
    BY <1>3, Zenon DEF applyBinaryConfigMap
  <2>2. QED
    BY <1>1, <1>2, <2>1, ErrorKeeps, Zenon
<1>4. CASE gz # NoContent
  <2> DEFINE regex == run[c].regex
             new == [run[c] EXCEPT !.todo = @ \ {regex}, !.regex = NoRegex]
  <2>1. /\ desc' = [desc EXCEPT ![c][regex] = gz] /\ pc' = [pc EXCEPT ![c] = "binary"]
        /\ run' = [run EXCEPT ![c].todo = @ \ {regex}, ![c].regex = NoRegex]
        /\ akhq' = akhq
    BY <1>4, Zenon DEF applyBinaryConfigMap, Step
  <2>2. /\ run \in [Configs -> Runs] /\ run[c] \in Runs /\ regex \in Regexes
        /\ gz \in Contents /\ desc \in [Configs -> [Regexes -> Contents]]
        /\ pc \in [Configs -> Labels]
    BY Zenon DEF IInv, TypeOK, Runs
  <2>3. /\ new \in Runs /\ new.entries = run[c].entries
        /\ new.todo = run[c].todo \ {regex} /\ new.unchanged = run[c].unchanged
    BY <2>2, ConstantTypes, Zenon DEF Runs
  <2>4. run' = [run EXCEPT ![c] = new]
    BY <2>1, <2>2, Zenon
  <2>5. /\ run' \in [Configs -> Runs] /\ run'[c] = new
        /\ \A d \in Configs \ {c} : run'[d] = run[d]
    BY <2>2, <2>3, <2>4, Zenon
  <2>6. /\ pc' \in [Configs -> Labels] /\ pc'[c] = "binary"
        /\ \A d \in Configs \ {c} : pc'[d] = pc[d]
    BY <2>1, <2>2, Zenon DEF Labels
  <2>7. /\ desc' \in [Configs -> [Regexes -> Contents]] /\ desc'[c][regex] = gz
        /\ \A r \in Regexes \ {regex} : desc'[c][r] = desc[c][r]
        /\ \A d \in Configs \ {c} : desc'[d] = desc[d]
    BY <2>1, <2>2, Zenon
  <2> HIDE DEF regex, new
  <2>8. TypeOK'
    BY <1>1, <1>2, <2>1, <2>5, <2>6, <2>7, Zenon DEF IInv, TypeOK
  <2>9. Own(c)'
    <3>1. Guarded(c)' /\ Finalized(c)' /\ Read(c)'
      BY <1>1, <2>1, <2>3, <2>5, <2>6 DEF IInv, Guarded, Finalized, Read, Applying
    <3>2. Described(c)'
      BY <1>1, <1>4, <2>1, <2>3, <2>5, <2>6, <2>7 DEF IInv, Described, Applying
    <3>3. QED
      BY <3>1, <3>2, Zenon DEF Own
  <2>10. ServiceSame /\ \A d \in Configs \ {c} : Same(d)
    BY <1>1, <2>1, <2>5, <2>6, <2>7, Zenon DEF ServiceSame, serviceVars, Same
  <2>11. QED
    BY <2>8, <2>9, <2>10, OwnStep, Zenon
<1>5. QED
  BY <1>3, <1>4, Zenon

-----------------------------------------------------------------------------
(* Steps that write the mapping *)

\* Under the version it was read with, the mapping is written with the entries
\* of the others unchanged.  If it changes at all, nobody has its version.
LEMMA WriteTypes ==
    ASSUME IInv, NEW c \in Configs, Applying(c) \/ pc[c] = "unbinary", c \in current,
           WriteEntries(c)
    PROVE  /\ cm' \in Mappings /\ cm'.entries = run[c].entries
           /\ \A d \in Configs \ {c} : cm'.entries[d] = cm.entries[d]
           /\ current' \subseteq current \ {c}
           /\ current' # {} => cm'.entries = cm.entries
<1> DEFINE mapping == [cm EXCEPT !.entries = run[c].entries]
<1>1. cm' = mapping /\ current' = Kept(mapping) \ {c}
  BY Zenon DEF WriteEntries, Write
<1>2. cm \in Mappings /\ run[c].entries \in [Configs -> Entries]
  BY Zenon DEF IInv, TypeOK, Runs
<1>3. mapping \in Mappings /\ mapping.entries = run[c].entries
  BY <1>2, Zenon DEF Mappings
<1>4. \A d \in Configs \ {c} : run[c].entries[d] = cm.entries[d]
  BY Zenon DEF IInv, Read
<1> HIDE DEF mapping
<1>5. QED
  BY <1>1, <1>3, <1>4, Zenon DEF Kept

\* The entries are written when their descriptors are.
LEMMA UpdateMappingKeeps ==
    ASSUME IInv, NEW c \in Configs, UpdateMapping(c)
    PROVE  IInv'
<1>1. /\ pc[c] = "binary" /\ run[c].todo = {} /\ desc' = desc /\ tmp' = tmp /\ gz' = gz
      /\ UNCHANGED serviceVars
  BY Zenon DEF UpdateMapping
<1>2. tmp' \in Contents /\ gz' \in Contents
  BY <1>1, Zenon DEF IInv, TypeOK
<1>3. CASE c \notin current
  <2>1. Failed(c) /\ cm' = cm /\ current' = current
    BY <1>3, Zenon DEF UpdateMapping
  <2>2. QED
    BY <1>1, <1>2, <2>1, ErrorKeeps, Zenon
<1>4. CASE c \in current
  <2>1. WriteEntries(c) /\ Ends(c, ~akhq[c].there) /\ updateCrStatus(c, "processed")
    BY <1>4, Zenon DEF UpdateMapping, Processed
  <2>2. /\ cm' \in Mappings /\ cm'.entries = run[c].entries
        /\ \A d \in Configs \ {c} : cm'.entries[d] = cm.entries[d]
        /\ current' \subseteq current \ {c}
        /\ current' # {} => cm'.entries = cm.entries
    BY <1>1, <1>4, <2>1, WriteTypes, Zenon DEF Applying
  <2>3. /\ pc' \in [Configs -> Labels] /\ run' \in [Configs -> Runs]
        /\ pc'[c] = "idle" /\ run'[c] = NoRun
        /\ \A d \in Configs \ {c} : pc'[d] = pc[d] /\ run'[d] = run[d]
    BY <2>1, EndTypes, Zenon DEF IInv
  <2>4. /\ akhq' \in [Configs -> Resources]
        /\ \A d \in Configs :
              /\ akhq'[d].there = akhq[d].there /\ akhq'[d].deleting = akhq[d].deleting
              /\ akhq'[d].finalizer = akhq[d].finalizer
        /\ \A d \in Configs \ {c} : akhq'[d] = akhq[d]
    BY <2>1, StatusTypes, Zenon DEF IInv, Statuses
  <2>5. TypeOK'
    BY <1>1, <1>2, <2>2, <2>3, <2>4, Zenon DEF IInv, TypeOK
  <2>6. Own(c)'
    <3>1. Own(c)
      BY Zenon DEF IInv, Own
    <3>2. Guarded(c)'
      <4>1. ~run'[c].unchanged
        BY <2>3 DEF NoRun
      <4>2. /\ ~akhq[c].there => ~akhq[c].finalizer
            /\ akhq[c].deleting => akhq[c].finalizer
        BY <3>1, Zenon DEF Own, Guarded
      <4>3. QED
        BY <2>3, <2>4, <4>1, <4>2, Zenon DEF Guarded, Applying
    <3>3. Finalized(c)' /\ Read(c)'
      <4>1. akhq'[c].finalizer
        BY <1>1, <2>4, <3>1, Zenon DEF Own, Guarded, Applying
      <4>2. QED
        BY <2>3, <4>1, Zenon DEF Finalized, Read, Applying
    <3>4. \A r \in Regexes : run[c].entries[c][r] # 0 => desc[c][r] # NoContent
      BY <1>1, <3>1, Zenon DEF Own, Described, Applying
    <3>5. Described(c)'
      BY <1>1, <2>2, <2>3, <3>4, Zenon DEF Described, Applying
    <3>6. QED
      BY <3>2, <3>3, <3>5, Zenon DEF Own
  <2>7. ServiceSame /\ \A d \in Configs \ {c} : Same(d)
    BY <1>1, <2>2, <2>3, <2>4, Zenon DEF ServiceSame, serviceVars, Same
  <2>8. QED
    BY <2>5, <2>6, <2>7, OwnStep, Zenon
<1>5. QED
  BY <1>3, <1>4, Zenon

\* The entries to write are those of the others.
LEMMA DeleteConfigKeeps ==
    ASSUME IInv, NEW c \in Configs, deleteConfig(c)
    PROVE  IInv'
<1>1. /\ pc[c] = "delete" /\ cm' = cm /\ desc' = desc /\ tmp' = tmp /\ gz' = gz
      /\ UNCHANGED serviceVars
  BY Zenon DEF deleteConfig
<1>2. tmp' \in Contents /\ gz' \in Contents
  BY <1>1, Zenon DEF IInv, TypeOK
<1>3. CASE ~cm.there
  <2>1. Requeue(c) /\ current' = current
    BY <1>3, Zenon DEF deleteConfig
  <2>2. QED
    BY <1>1, <1>2, <2>1, ErrorKeeps, Zenon
<1>4. CASE cm.there
  <2> DEFINE entries == [cm.entries EXCEPT ![c] = NoEntries]
             todo == {r \in Regexes : cm.entries[c][r] # 0}
             new == [run[c] EXCEPT !.entries = entries, !.todo = todo]
  <2>1. /\ pc' = [pc EXCEPT ![c] = "unbinary"] /\ akhq' = akhq
        /\ run' = [run EXCEPT ![c].entries = entries, ![c].todo = todo]
        /\ current' = current \union {c}
    BY <1>4, Zenon DEF deleteConfig, Step
  <2>2. /\ run \in [Configs -> Runs] /\ run[c] \in Runs
        /\ cm.entries \in [Configs -> Entries]
    BY Zenon DEF IInv, TypeOK, Mappings
  <2>3. entries \in [Configs -> Entries] /\ todo \in SUBSET Regexes
    BY <2>2, ConstantTypes, Zenon
  <2>4. new \in Runs /\ new.entries = entries /\ new.unchanged = run[c].unchanged
    BY <2>2, <2>3, Zenon DEF Runs
  <2>5. run' = [run EXCEPT ![c] = new]
    BY <2>1, <2>2, Zenon
  <2>6. "unbinary" \in Labels /\ pc'[c] = "unbinary" /\ run'[c] = new
    BY <2>1, <2>2, <2>5, Zenon DEF IInv, TypeOK, Labels
  <2>7. entries[c] = NoEntries /\ \A d \in Configs \ {c} : entries[d] = cm.entries[d]
    BY <2>2, Zenon
  <2> HIDE DEF new, entries, todo
  <2>8. Own(c)'
    <3>1. Own(c)
      BY Zenon DEF IInv, Own
    <3>2. Guarded(c)' /\ Finalized(c)'
      BY <1>1, <2>1, <2>4, <2>6, <2>7, <3>1, Zenon DEF Own, Guarded, Finalized, Applying
    <3>3. Described(c)' /\ Read(c)'
      BY <1>1, <2>1, <2>4, <2>6, <2>7, <3>1, Zenon DEF Own, Guarded, Described, Read, Applying
    <3>4. QED
      BY <3>2, <3>3, Zenon DEF Own
  <2>9. QED
    BY <1>1, <1>2, <2>1, <2>4, <2>5, <2>6, <2>8, StepKeeps, Zenon
<1>5. QED
  BY <1>3, <1>4, Zenon

\* Descriptors are deleted only for a resource that is being deleted.
LEMMA DeleteBinaryKeeps ==
    ASSUME IInv, NEW c \in Configs, deleteBinaryConfigMap(c)
    PROVE  IInv'
<1>1. PICK r \in run[c].todo : /\ desc' = [desc EXCEPT ![c][r] = NoContent]
                              /\ run' = [run EXCEPT ![c].todo = @ \ {r}]
  BY Zenon DEF deleteBinaryConfigMap
<1>2. /\ pc[c] = "unbinary" /\ pc' = pc /\ akhq' = akhq /\ cm' = cm /\ current' = current
      /\ tmp' = tmp /\ gz' = gz /\ UNCHANGED serviceVars
  BY Zenon DEF deleteBinaryConfigMap
<1>3. /\ run \in [Configs -> Runs] /\ desc \in [Configs -> [Regexes -> Contents]]
      /\ r \in Regexes
  BY <1>1, Zenon DEF IInv, TypeOK, Runs
<1>4. [run[c] EXCEPT !.todo = @ \ {r}] \in Runs
  BY <1>3, Zenon DEF Runs
<1>5. /\ run' \in [Configs -> Runs] /\ run'[c].entries = run[c].entries
      /\ run'[c].unchanged = run[c].unchanged
      /\ \A d \in Configs \ {c} : run'[d] = run[d]
  BY <1>1, <1>3, <1>4, Zenon DEF Runs
<1>6. /\ desc' \in [Configs -> [Regexes -> Contents]]
      /\ \A d \in Configs \ {c} : desc'[d] = desc[d]
  BY <1>1, <1>3, ConstantTypes, Zenon
<1>7. TypeOK'
  BY <1>2, <1>5, <1>6, Zenon DEF IInv, TypeOK
<1>8. Own(c)'
  <2>1. Own(c)
    BY Zenon DEF IInv, Own
  <2>2. Guarded(c)' /\ Finalized(c)'
    BY <1>2, <1>5, <2>1, Zenon DEF Own, Guarded, Finalized, Applying
  <2>3. Described(c)' /\ Read(c)'
    BY <1>2, <1>5, <2>1, Zenon DEF Own, Guarded, Described, Read, Applying
  <2>4. QED
    BY <2>2, <2>3, Zenon DEF Own
<1>9. ServiceSame /\ \A d \in Configs \ {c} : Same(d)
  BY <1>2, <1>5, <1>6, Zenon DEF ServiceSame, serviceVars, Same
<1>10. QED
  BY <1>7, <1>8, <1>9, OwnStep, Zenon

\* No entry is left of a resource whose finalizer goes.
LEMMA DeleteEntriesKeeps ==
    ASSUME IInv, NEW c \in Configs, DeleteEntries(c)
    PROVE  IInv'
<1>1. /\ pc[c] = "unbinary" /\ desc' = desc /\ tmp' = tmp /\ gz' = gz
      /\ UNCHANGED serviceVars
  BY Zenon DEF DeleteEntries
<1>2. tmp' \in Contents /\ gz' \in Contents
  BY <1>1, Zenon DEF IInv, TypeOK
<1>3. CASE c \notin current
  <2>1. Requeue(c) /\ cm' = cm /\ current' = current
    BY <1>3, Zenon DEF DeleteEntries
  <2>2. QED
    BY <1>1, <1>2, <2>1, ErrorKeeps, Zenon
<1>4. CASE c \in current
  <2>1. WriteEntries(c) /\ pc' = [pc EXCEPT ![c] = "unfinalize"] /\ akhq' = akhq /\ run' = run
    BY <1>4, Zenon DEF DeleteEntries, Step
  <2>2. /\ cm' \in Mappings /\ cm'.entries = run[c].entries
        /\ \A d \in Configs \ {c} : cm'.entries[d] = cm.entries[d]
        /\ current' \subseteq current \ {c}
        /\ current' # {} => cm'.entries = cm.entries
    BY <1>1, <1>4, <2>1, WriteTypes, Zenon
  <2>3. /\ pc' \in [Configs -> Labels] /\ pc'[c] = "unfinalize"
        /\ \A d \in Configs \ {c} : pc'[d] = pc[d]
    BY <2>1, Zenon DEF IInv, TypeOK, Labels
  <2>4. TypeOK'
    BY <1>1, <1>2, <2>1, <2>2, <2>3, Zenon DEF IInv, TypeOK
  <2>5. Own(c)'
    BY <1>1, <2>1, <2>2, <2>3, Zenon
      DEF IInv, Own, Guarded, Finalized, Described, Read, Applying
  <2>6. ServiceSame /\ \A d \in Configs \ {c} : Same(d)
    BY <1>1, <2>1, <2>2, <2>3, Zenon DEF ServiceSame, serviceVars, Same
  <2>7. QED
    BY <2>4, <2>5, <2>6, OwnStep, Zenon
<1>5. QED
  BY <1>3, <1>4, Zenon

\* The finalizer goes after the entries.
LEMMA RemoveFinalizerKeeps ==
    ASSUME IInv, NEW c \in Configs, RemoveFinalizer(c)
    PROVE  IInv'
<1>1. /\ pc[c] = "unfinalize" /\ pc' = [pc EXCEPT ![c] = "idle"]
      /\ run' = [run EXCEPT ![c] = NoRun] /\ akhq' = [akhq EXCEPT ![c] = NoResource]
      /\ cm' = cm /\ current' = current /\ desc' = desc /\ tmp' = tmp /\ gz' = gz
      /\ UNCHANGED serviceVars
  BY Zenon DEF RemoveFinalizer, Step
<1>2. /\ pc' \in [Configs -> Labels] /\ pc'[c] = "idle"
      /\ run' \in [Configs -> Runs] /\ run'[c] = NoRun
      /\ akhq' \in [Configs -> Resources] /\ akhq'[c] = NoResource
      /\ \A d \in Configs \ {c} : pc'[d] = pc[d] /\ run'[d] = run[d] /\ akhq'[d] = akhq[d]
  BY <1>1, ConstantTypes, Zenon DEF IInv, TypeOK, Labels
<1>3. TypeOK'
  BY <1>1, <1>2, Zenon DEF IInv, TypeOK
<1>4. Own(c)'
  <2>1. cm.entries[c] = NoEntries /\ \A r \in Regexes : cm.entries[c][r] = 0
    BY <1>1 DEF IInv, Finalized, NoEntries
  <2>2. ~run'[c].unchanged /\ ~akhq'[c].finalizer /\ ~akhq'[c].deleting
    BY <1>2 DEF NoRun, NoResource
  <2>3. QED
    BY <1>1, <1>2, <2>1, <2>2, Zenon DEF Own, Guarded, Finalized, Described, Read, Applying
<1>5. ServiceSame
  BY <1>1, <1>2 DEF ServiceSame, serviceVars, IInv, Finalized
<1>6. \A d \in Configs \ {c} : Same(d)
  BY <1>1, <1>2, Zenon DEF Same
<1>7. QED
  BY <1>3, <1>4, <1>5, <1>6, OwnStep, Zenon

-----------------------------------------------------------------------------
(* The KafkaService cycle *)

\* Its steps leave the entries, the resources and their cycles.
LEMMA ServiceStep ==
    ASSUME IInv, UNCHANGED configVars, cm' \in Mappings, cm'.entries = cm.entries,
           current' \intersect Configs \subseteq current
    PROVE  TypeOK' /\ \A c \in Configs : Own(c)'
<1>1. TypeOK'
  BY Zenon DEF IInv, TypeOK, configVars
<1>2. \A c \in Configs : Same(c)
  BY Zenon DEF Same, configVars
<1>3. QED
  BY <1>1, <1>2, SameKeeps, Zenon DEF IInv, Own

\* Descriptor maps are listed after the mapping is read and before AKHQ is
\* deployed with its version.
LEMMA ServiceKeeps ==
    ASSUME IInv, Service
    PROVE  IInv'
<1>1. CASE ServiceStarts \/ WriteProtobufConfigMap
  <2>1. /\ UNCHANGED configVars /\ (cm' = cm \/ cm' = getProtobufConfigMap) /\ spc' # "deploy"
        /\ current' \subseteq current \union {"cycle"} /\ mounted' = mounted
    BY <1>1, Zenon DEF ServiceStarts, WriteProtobufConfigMap, Kept, Write,
                CreateProtobufConfigMapIfNotExist
  <2>2. cm' \in Mappings /\ cm'.entries = cm.entries
    BY <2>1, Zenon DEF IInv, TypeOK, Mappings, getProtobufConfigMap, ProtobufConfigMap
  <2>3. TypeOK' /\ \A c \in Configs : Own(c)'
    BY <2>1, <2>2, ServiceStep, AkhqAssumption, Zenon
  <2>4. Found' /\ Mounted'
    BY <2>1, <2>2, Zenon DEF IInv, Found, Mounted, configVars
  <2>5. QED
    BY <2>3, <2>4, Zenon DEF IInv, Own
<1>2. CASE findDeserializationConfigMaps
  <2>1. /\ UNCHANGED configVars /\ cm' = cm /\ current' = current /\ mounted' = mounted
        /\ found' = {d \in Configs \X Regexes : desc[d[1]][d[2]] # NoContent}
    BY <1>2, Zenon DEF findDeserializationConfigMaps
  <2>2. TypeOK' /\ \A c \in Configs : Own(c)'
    BY <2>1, ServiceStep, Zenon DEF IInv, TypeOK
  <2>3. ASSUME NEW c \in Configs, NEW r \in Regexes, cm.entries[c][r] # 0, ~akhq[c].deleting
        PROVE  <<c, r>> \in found'
    BY <2>1, <2>3, Zenon DEF IInv, Described
  <2>4. Found'
    BY <2>1, <2>3, Zenon DEF Found, configVars
  <2>5. Mounted'
    BY <2>1, Zenon DEF IInv, Mounted, configVars
  <2>6. QED
    BY <2>2, <2>4, <2>5, Zenon DEF IInv, Own
<1>3. CASE NewAkhqDeployment
  <2>1. /\ UNCHANGED configVars /\ cm' = cm /\ current' = Passed("deployed")
        /\ mounted' = found /\ spc = "deploy" /\ spc' = "store"
    BY <1>3, Zenon DEF NewAkhqDeployment
  <2>2. current' \intersect Configs \subseteq current
    BY <2>1, AkhqAssumption, Zenon DEF Passed
  <2>3. TypeOK' /\ \A c \in Configs : Own(c)'
    BY <2>1, <2>2, ServiceStep, Zenon DEF IInv, TypeOK
  <2>4. "deployed" \in current' => "cycle" \in current
    BY <2>1, Zenon DEF Passed
  <2>5. Found' /\ Mounted'
    BY <2>1, <2>4, Zenon DEF IInv, Found, Mounted, configVars
  <2>6. QED
    BY <2>3, <2>5, Zenon DEF IInv, Own
<1>4. CASE StoreVersion
  <2>1. /\ UNCHANGED configVars /\ cm' = cm /\ mounted' = mounted /\ spc' = "idle"
        /\ current' = Passed("seen") \ {"cycle"}
    BY <1>4, Zenon DEF StoreVersion
  <2>2. current' \intersect Configs \subseteq current
    BY <2>1, AkhqAssumption, Zenon DEF Passed
  <2>3. TypeOK' /\ \A c \in Configs : Own(c)'
    BY <2>1, <2>2, ServiceStep, Zenon DEF IInv, TypeOK
  <2>4. "deployed" \in current' => "deployed" \in current
    BY <2>1, Zenon DEF Passed
  <2>5. Found' /\ Mounted'
    BY <2>1, <2>4, Zenon DEF IInv, Found, Mounted, configVars
  <2>6. QED
    BY <2>3, <2>5, Zenon DEF IInv, Own
<1>5. QED
  BY <1>1, <1>2, <1>3, <1>4, Zenon DEF Service

-----------------------------------------------------------------------------
(* Faults *)

\* A cycle that fails ends.
LEMMA ConfigFailsKeeps ==
    ASSUME IInv, NEW c \in Configs, ConfigFails(c)
    PROVE  IInv'
<1>1. Requeue(c) \/ Failed(c)
  BY Zenon DEF ConfigFails
<1>2. cm' = cm /\ current' = current /\ desc' = desc /\ UNCHANGED serviceVars
  BY Zenon DEF ConfigFails
<1>3. tmp' \in Contents /\ gz' \in Contents
  BY Zenon DEF ConfigFails, IInv, TypeOK
<1>4. QED
  BY <1>1, <1>2, <1>3, ErrorKeeps, Zenon

\* A cycle of the KafkaService that fails gives up the version it has read.
LEMMA ServiceFailsKeeps ==
    ASSUME IInv, ServiceFails
    PROVE  IInv'
<1>1. /\ UNCHANGED configVars /\ cm' = cm /\ mounted' = mounted /\ spc' = "idle"
      /\ current' = current \ {"cycle"}
  BY Zenon DEF ServiceFails
<1>2. TypeOK' /\ \A c \in Configs : Own(c)'
  BY <1>1, ServiceStep, Zenon DEF IInv, TypeOK
<1>3. Found' /\ Mounted'
  BY <1>1, Zenon DEF IInv, Found, Mounted, configVars
<1>4. QED
  BY <1>2, <1>3, Zenon DEF IInv, Own

\* After a crash no cycle is under way.
LEMMA CrashKeeps ==
    ASSUME IInv, Crash
    PROVE  IInv'
<1>1. /\ pc' = [c \in Configs |-> "idle"] /\ run' = [c \in Configs |-> NoRun]
      /\ tmp' = NoContent /\ gz' = NoContent /\ spc' = "idle" /\ akhq' = akhq /\ cm' = cm
      /\ desc' = desc /\ mounted' = mounted /\ current' \subseteq current
  BY Zenon DEF Crash
<1>2. TypeOK'
  BY <1>1, ConstantTypes, Zenon DEF IInv, TypeOK, Labels
<1>3. \A c \in Configs : pc'[c] = "idle" /\ ~run'[c].unchanged
  BY <1>1, Zenon DEF NoRun
<1>4. \A c \in Configs : (Guarded(c) /\ Finalized(c) /\ Described(c) /\ Read(c))'
  BY <1>1, <1>3, Zenon DEF IInv, Guarded, Finalized, Described, Read, Applying
<1>5. Found' /\ Mounted'
  BY <1>1, Zenon DEF IInv, Found, Mounted
<1>6. QED
  BY <1>2, <1>4, <1>5, Zenon DEF IInv

-----------------------------------------------------------------------------
(* The theorems *)

\* What an earlier process applied has its finalizer and its descriptors.
LEMMA InitIInv ==
    Init => IInv
<1> SUFFICES ASSUME Init PROVE IInv
  BY Zenon
<1>1. \A c \in Configs : First(c) \in Entries
  BY AkhqAssumption DEF First, Entries
<1>2. /\ pc = [c \in Configs |-> "idle"] /\ run = [c \in Configs |-> NoRun]
      /\ tmp = NoContent /\ gz = NoContent /\ spc = "idle" /\ mounted = Applied \X Regexes
  BY Zenon DEF Init
<1>3. \A c \in Configs :
          /\ akhq[c] \in Resources /\ ~akhq[c].deleting
          /\ c \in Applied => akhq[c].there /\ akhq[c].finalizer
          /\ c \notin Applied => ~akhq[c].there /\ ~akhq[c].finalizer
  <2> SUFFICES ASSUME NEW c \in Configs
               PROVE  /\ akhq[c] \in Resources /\ ~akhq[c].deleting
                      /\ c \in Applied => akhq[c].there /\ akhq[c].finalizer
                      /\ c \notin Applied => ~akhq[c].there /\ ~akhq[c].finalizer
    BY Zenon
  <2>1. CASE c \in Applied
    <3>1. akhq[c] = [NoResource EXCEPT !.there = TRUE, !.spec = First(c),
                                       !.finalizer = TRUE, !.status = "processed"]
      BY <2>1, Zenon DEF Init
    <3>2. QED
      BY <1>1, <2>1, <3>1, ConstantTypes, Zenon DEF NoResource, Resources, Statuses
  <2>2. CASE c \notin Applied
    <3>1. akhq[c] = NoResource
      BY <2>2, Zenon DEF Init
    <3>2. QED
      BY <2>2, <3>1, ConstantTypes DEF NoResource
  <2>3. QED
    BY <2>1, <2>2, Zenon
<1>4. akhq \in [Configs -> Resources]
  BY <1>3, Zenon DEF Init
<1>5. cm \in Mappings /\ \A c \in Configs : cm.entries[c] = First(c)
  <2>1. CASE Applied = {}
    BY <2>1, ConstantTypes, Zenon DEF Init, NoMapping, First, NoEntries
  <2>2. CASE Applied # {}
    <3>1. cm = [there |-> TRUE, labelled |-> TRUE, owned |-> TRUE,
                entries |-> [c \in Configs |-> First(c)]]
      BY <2>2, Zenon DEF Init
    <3>2. QED
      BY <1>1, <3>1, Zenon DEF Mappings
  <2>3. QED
    BY <2>1, <2>2, Zenon
<1>6. /\ desc \in [Configs -> [Regexes -> Contents]]
      /\ \A c \in Applied, r \in Regexes : desc[c][r] # NoContent
  <2>1. \A c \in Configs : <<c, 1>> \in Contents /\ NoContent \in Contents
    BY AkhqAssumption DEF Contents
  <2>2. \A c \in Configs : <<c, 1>> # NoContent
    BY Zenon DEF NoContent
  <2>3. desc = [c \in Configs |->
                  [r \in Regexes |-> IF c \in Applied THEN <<c, 1>> ELSE NoContent]]
    BY Zenon DEF Init
  <2>4. ASSUME NEW c \in Configs
        PROVE  [r \in Regexes |-> IF c \in Applied THEN <<c, 1>> ELSE NoContent]
                   \in [Regexes -> Contents]
    BY <2>1, Zenon
  <2>5. desc \in [Configs -> [Regexes -> Contents]]
    BY <2>3, <2>4, Zenon
  <2>6. ASSUME NEW c \in Applied, NEW r \in Regexes PROVE desc[c][r] = <<c, 1>>
    BY <2>3, AkhqAssumption, Zenon
  <2>7. QED
    BY <2>2, <2>5, <2>6, AkhqAssumption, Zenon
<1>7. TypeOK
  BY <1>2, <1>4, <1>5, <1>6, ConstantTypes, Zenon DEF TypeOK, Labels
<1>8. \A c \in Configs, r \in Regexes : First(c)[r] # 0 => c \in Applied
  BY Zenon DEF First
<1>9. \A c \in Configs : c \notin Applied => First(c) = NoEntries
  BY Zenon DEF First, NoEntries
<1>10. \A c \in Configs : Guarded(c) /\ Finalized(c) /\ Described(c) /\ Read(c)
  BY <1>2, <1>3, <1>5, <1>6, <1>8, <1>9, Zenon
    DEF Guarded, Finalized, Described, Read, Applying, NoRun
<1>11. Found /\ Mounted
  BY <1>2, <1>5, <1>8, Zenon DEF Found, Mounted
<1>12. QED
  BY <1>7, <1>10, <1>11, Zenon DEF IInv

\* The invariant is inductive.
LEMMA NextIInv ==
    IInv /\ [Next]_vars => IInv'
<1> SUFFICES ASSUME IInv, [Next]_vars PROVE IInv'
  BY Zenon
<1>1. CASE Clients
  <2>1. CASE \E c \in Configs : EditResource(c) \/ DeleteResource(c)
    BY <2>1, EditKeeps, DeleteKeeps, Zenon
  <2>2. CASE DeleteMapping
    BY <2>2, DeleteMappingKeeps, Zenon
  <2>3. CASE Touch
    <3>1. UNCHANGED <<akhq, cm, current, desc, tmp, gz, pc, run, serviceVars>>
      BY <2>3, Zenon DEF Touch, configVars
    <3>2. QED
      BY <3>1, StutterKeeps, Zenon
  <2>4. QED
    BY <1>1, <2>1, <2>2, <2>3, Zenon DEF Clients
<1>2. CASE Service
  BY <1>2, ServiceKeeps, Zenon
<1>3. ASSUME NEW c \in Configs, Reconcile(c) PROVE IInv'
  <2>1. CASE Get(c)
    BY <2>1, GetKeeps, Zenon
  <2>2. CASE Apply(c)
    BY <2>2, AddFinalizerKeeps, ApplyKeeps, CreateMappingKeeps, StoreKeeps, CompressKeeps, BinaryKeeps,
       UpdateMappingKeeps, Zenon DEF Apply
  <2>3. CASE Remove(c)
    BY <2>3, DeleteConfigKeeps, DeleteBinaryKeeps, DeleteEntriesKeeps,
       RemoveFinalizerKeeps, Zenon DEF Remove
  <2>4. QED
    BY <1>3, <2>1, <2>2, <2>3, Zenon DEF Reconcile
<1>4. CASE \E c \in Configs : ConfigFails(c)
  BY <1>4, ConfigFailsKeeps, Zenon
<1>5. CASE ServiceFails \/ Crash
  BY <1>5, ServiceFailsKeeps, CrashKeeps, Zenon
<1>6. CASE UNCHANGED vars
  <2>1. UNCHANGED <<akhq, cm, current, desc, tmp, gz, pc, run, serviceVars>>
    BY <1>6, Zenon DEF vars, configVars
  <2>2. QED
    BY <2>1, StutterKeeps, Zenon
<1>7. QED
  BY <1>1, <1>2, <1>3, <1>4, <1>5, <1>6, Zenon DEF Next

\* The inductive invariant holds in every reachable state.
THEOREM Invariance ==
    Spec => []IInv
BY InitIInv, NextIInv, PTL DEF Spec

\* Resources, mapping, descriptors and cycles keep their types.
THEOREM TypeCorrect ==
    Spec => []TypeOK
<1>1. IInv => TypeOK
  BY Zenon DEF IInv
<1>2. QED
  BY <1>1, Invariance, PTL

\* No entry of the mapping outlives its AkhqConfig, however often the cycles of
\* Reconcile fail, collide or are cut short by a restart.
THEOREM NoEntryWithoutResourceThm ==
    Spec => []NoEntryWithoutResource
<1>1. IInv => NoEntryWithoutResource
  BY Zenon DEF IInv, Guarded, Finalized, NoEntryWithoutResource
<1>2. QED
  BY <1>1, Invariance, PTL

-----------------------------------------------------------------------------
(* AKHQ follows the mapping *)

Holders == {"cycle", "seen", "deployed"}

\* The mapping is as the KafkaService cycle leaves it.
Labelled == referenced /\ cm.there /\ cm.labelled

\* Without another cycle to come, the present one has read the mapping, and the
\* last one has deployed AKHQ for it.
Followed ==
    /\ "seen" \in current => spc = "idle" /\ "deployed" \in current /\ Labelled
    /\ spc \in {"find", "deploy", "store"} /\ "cycle" \in current => Labelled
    /\ spc = "store" /\ "cycle" \in current => "deployed" \in current
    /\ cm.owned /\ ~squeued =>
          /\ spc = "idle" => cm.there /\ cm.labelled /\ "deployed" \in current
          /\ spc # "idle" => "cycle" \in current

\* A change of the mapping by another writer is an event for the KafkaService.
LEMMA WriteFollowed ==
    ASSUME Followed, UNCHANGED <<spc, referenced>>, NEW mapping, Write(mapping),
           \A h \in Holders : h \in current' <=> h \in Kept(mapping)
    PROVE  Followed'
<1>1. cm' = mapping /\ (squeued' <=> (squeued \/ Notifies(mapping)))
  BY Zenon DEF Write
<1>2. CASE mapping = cm
  <2>1. \A h \in Holders : h \in current' <=> h \in current
    BY <1>2, Zenon DEF Kept
  <2>2. QED
    BY <1>1, <1>2, <2>1, Zenon DEF Followed, Holders, Labelled
<1>3. CASE mapping # cm
  <2>1. \A h \in Holders : h \notin current'
    BY <1>3, Zenon DEF Kept
  <2>2. cm'.owned => squeued'
    BY <1>1, <1>3, Zenon DEF Notifies
  <2>3. QED
    BY <2>1, <2>2, Zenon DEF Followed, Holders
<1>4. QED
  BY <1>2, <1>3, Zenon

\* Steps that leave the mapping and the cycle alone.
LEMMA SameFollowed ==
    ASSUME Followed, UNCHANGED <<cm, spc, referenced>>, squeued => squeued',
           \A h \in Holders : h \in current' <=> h \in current
    PROVE  Followed'
BY Zenon DEF Followed, Holders, Labelled

\* So it is for the cycles of the resources, whose steps hold the version under
\* names of their own.
LEMMA ReconcileFollowed ==
    ASSUME Followed, NEW c \in Configs, Reconcile(c)
    PROVE  Followed'
<1>1. c \notin Holders
  BY AkhqAssumption, Zenon DEF Holders
<1>2. UNCHANGED <<spc, referenced>>
  BY Zenon DEF Reconcile, Get, Apply, Remove, AddFinalizer, applyConfig, CreateMapping,
               storeBytesToTmpFile, compressBytesFromTmpFile, applyBinaryConfigMap,
               UpdateMapping, deleteConfig, deleteBinaryConfigMap, DeleteEntries,
               RemoveFinalizer, serviceVars
<1>3. CASE CreateProtobufConfigMapIfNotExist(c, ProtobufConfigMap(FALSE, FALSE))
  <2>1. /\ Write(ProtobufConfigMap(FALSE, FALSE))
        /\ current' = Kept(ProtobufConfigMap(FALSE, FALSE)) \union {c}
    BY <1>3, Zenon DEF CreateProtobufConfigMapIfNotExist
  <2>2. QED
    BY <1>1, <1>2, <2>1, WriteFollowed, Zenon
<1>4. CASE WriteEntries(c)
  <2> DEFINE mapping == [cm EXCEPT !.entries = run[c].entries]
  <2>1. Write(mapping) /\ current' = Kept(mapping) \ {c}
    BY <1>4, Zenon DEF WriteEntries
  <2>2. QED
    BY <1>1, <1>2, <2>1, WriteFollowed, Zenon
<1>5. CASE UNCHANGED <<cm, squeued>> /\ (current' = current \/ current' = current \union {c})
  BY <1>1, <1>2, <1>5, SameFollowed, Zenon
<1>6. QED
  BY <1>3, <1>4, <1>5, Zenon
     DEF Reconcile, Get, Apply, Remove, AddFinalizer, applyConfig, CreateMapping,
         storeBytesToTmpFile, compressBytesFromTmpFile, applyBinaryConfigMap, UpdateMapping,
         deleteConfig, deleteBinaryConfigMap, DeleteEntries, RemoveFinalizer

\* The cycle compares the mapping with the one it has seen.
LEMMA StartFollowed ==
    ASSUME cm \in Mappings, Followed, ServiceStarts
    PROVE  Followed'
<1>1. /\ spc = "idle" /\ UNCHANGED <<cm, referenced>>
      /\ current' = current \union (IF Deployed THEN {} ELSE {"cycle"})
      /\ spc' = IF Writes THEN "write" ELSE IF Deployed THEN "idle" ELSE "find"
  BY Zenon DEF ServiceStarts
<1>2. ~Writes <=> Labelled
  <2>1. getProtobufConfigMap.there /\ getProtobufConfigMap.labelled
    BY Zenon DEF getProtobufConfigMap, ProtobufConfigMap, Mappings
  <2>2. ASSUME Labelled PROVE getProtobufConfigMap = cm
    BY <2>2 DEF getProtobufConfigMap, ProtobufConfigMap, Mappings, Labelled
  <2>3. QED
    BY <2>1, <2>2, Zenon DEF Writes, Labelled
<1>3. CASE Deployed
  <2>1. /\ "seen" \in current /\ ~Writes /\ current' = current /\ spc' = "idle"
    BY <1>1, <1>3, Zenon DEF Deployed
  <2>2. QED
    BY <1>1, <1>2, <2>1, Zenon DEF Followed, Labelled
<1>4. CASE ~Deployed
  <2>1. "seen" \notin current
    BY <1>2, <1>4, Zenon DEF Followed, Deployed
  <2>2. "seen" \notin current' /\ "cycle" \in current' /\ spc' \in {"write", "find"}
    BY <1>1, <1>4, <2>1, Zenon
  <2>3. spc' = "find" => Labelled'
    BY <1>1, <1>2, Zenon DEF Labelled
  <2>4. QED
    BY <2>2, <2>3, Zenon DEF Followed
<1>5. QED
  BY <1>3, <1>4, Zenon

\* It writes the mapping only as it has read it, and has the version it gets.
LEMMA LabelFollowed ==
    ASSUME cm \in Mappings, Followed, WriteProtobufConfigMap
    PROVE  Followed'
<1>1. spc = "write" /\ "seen" \notin current
  BY Zenon DEF WriteProtobufConfigMap, Followed
<1>2. CASE /\ CreateProtobufConfigMapIfNotExist("cycle", getProtobufConfigMap)
           /\ spc' = "find" /\ referenced' = TRUE
  <2>1. cm' = getProtobufConfigMap /\ "cycle" \in current' /\ "seen" \notin current'
    BY <1>1, <1>2, Zenon DEF CreateProtobufConfigMapIfNotExist, Write, Kept
  <2>2. cm'.there /\ cm'.labelled
    BY <2>1, Zenon DEF getProtobufConfigMap, ProtobufConfigMap, Mappings
  <2>3. referenced'
    BY <1>2
  <2>4. QED
    BY <1>2, <2>1, <2>2, <2>3, Zenon DEF Followed, Labelled
<1>3. CASE spc' = "idle" /\ squeued' = TRUE /\ UNCHANGED current
  <2>1. squeued'
    BY <1>3
  <2>2. QED
    BY <1>1, <1>3, <2>1, Zenon DEF Followed
<1>4. QED
  BY <1>2, <1>3, Zenon DEF WriteProtobufConfigMap

\* The version that is stored is the one AKHQ was deployed for.
LEMMA ServiceFollowed ==
    ASSUME cm \in Mappings, Followed, Service
    PROVE  Followed'
<1>1. CASE findDeserializationConfigMaps
  BY <1>1, Zenon DEF findDeserializationConfigMaps, Followed, Labelled
<1>2. CASE NewAkhqDeployment
  <2>1. /\ spc = "deploy" /\ spc' = "store" /\ current' = Passed("deployed")
        /\ UNCHANGED <<cm, squeued, referenced>>
    BY <1>2, Zenon DEF NewAkhqDeployment
  <2>2. "seen" \notin current' /\ ("cycle" \in current' <=> "cycle" \in current)
    BY <2>1, Zenon DEF Passed, Followed
  <2>3. "cycle" \in current => "deployed" \in current'
    BY <2>1, Zenon DEF Passed
  <2>4. QED
    BY <2>1, <2>2, <2>3, Zenon DEF Followed, Labelled
<1>3. CASE StoreVersion
  <2>1. /\ spc = "store" /\ spc' = "idle" /\ current' = Passed("seen") \ {"cycle"}
        /\ UNCHANGED <<cm, squeued, referenced>>
    BY <1>3, Zenon DEF StoreVersion
  <2>2. /\ "deployed" \in current' <=> "deployed" \in current
        /\ "seen" \in current' => "cycle" \in current
    BY <2>1, Zenon DEF Passed
  <2>3. QED
    BY <2>1, <2>2, Zenon DEF Followed, Labelled
<1>4. QED
  BY <1>1, <1>2, <1>3, StartFollowed, LabelFollowed, Zenon DEF Service

\* Every step keeps AKHQ after the mapping, faults included.
LEMMA NextFollowed ==
    IInv /\ Followed /\ [Next]_vars => Followed'
<1> SUFFICES ASSUME IInv, Followed, [Next]_vars PROVE Followed'
  BY Zenon
<1>1. CASE Clients
  <2>1. CASE DeleteMapping
    <3>1. Write(NoMapping) /\ current' = {} /\ spc' = spc
      BY <2>1, Zenon DEF DeleteMapping, serviceVars
    <3>2. ~cm'.owned
      BY <3>1, Zenon DEF Write, NoMapping
    <3>3. QED
      BY <3>1, <3>2, Zenon DEF Followed
  <2>2. CASE ~DeleteMapping
    <3>1. UNCHANGED <<cm, spc, current, referenced>>
      BY <1>1, <2>2, Zenon DEF Clients, EditResource, DeleteResource, Touch, serviceVars
    <3>2. CASE squeued' = squeued
      BY <3>1, <3>2, SameFollowed, Zenon
    <3>3. CASE squeued' = TRUE
      <4>1. squeued'
        BY <3>3
      <4>2. QED
        BY <3>1, <4>1, SameFollowed, Zenon
    <3>4. QED
      BY <1>1, <2>2, <3>2, <3>3, Zenon DEF Clients, EditResource, DeleteResource, Touch
  <2>3. QED
    BY <2>1, <2>2, Zenon
<1>2. CASE Service
  BY <1>2, ServiceFollowed, Zenon DEF IInv, TypeOK
<1>3. CASE \E c \in Configs : Reconcile(c)
  BY <1>3, ReconcileFollowed, Zenon
<1>4. CASE \E c \in Configs : ConfigFails(c)
  <2>1. UNCHANGED <<cm, spc, current, squeued, referenced>>
    BY <1>4, Zenon DEF ConfigFails, serviceVars
  <2>2. QED
    BY <2>1, SameFollowed, Zenon
<1>5. CASE ServiceFails
  BY <1>5, Zenon DEF ServiceFails, Followed
<1>6. CASE Crash
  BY <1>6, Zenon DEF Crash, Followed
<1>7. CASE UNCHANGED vars
  BY <1>7, SameFollowed, Zenon DEF vars, serviceVars
<1>8. QED
  BY <1>1, <1>2, <1>3, <1>4, <1>5, <1>6, <1>7, Zenon DEF Next

\* AKHQ that is deployed for the current version of the mapping has the
\* descriptor maps of its entries mounted, whatever the order in which the
\* reconcilers write and the KafkaService cycle reads them; and it is deployed
\* for the current version whenever the KafkaService worker has nothing to do
\* and the mapping has an owner.
THEOREM DeployedWithDescriptorsThm ==
    Spec => []DeployedWithDescriptors
<1>1. Init => Followed
  <2>1. Init => squeued /\ "seen" \notin current /\ spc = "idle"
    BY Zenon DEF Init
  <2>2. QED
    BY <2>1, Zenon DEF Followed
<1>2. IInv /\ Followed => DeployedWithDescriptors
  BY Zenon DEF IInv, Followed, DeployedWithDescriptors
<1>3. QED
  BY <1>1, <1>2, NextFollowed, Invariance, PTL DEF Spec

-----------------------------------------------------------------------------
(* No update is lost *)

\* The cycle of one resource writes the mapping only with the entries of the
\* others as they are: applyConfig and deleteConfig lose no update.
THEOREM OthersKeptThm ==
    Spec => OthersKept
<1> DEFINE Kind ==
        \A c \in Configs : cm'.entries[c] # cm.entries[c] => pc'[c] # pc[c] \/ ~cm'.there
<1>1. IInv /\ [Next]_vars => [Kind]_vars
  <2> SUFFICES ASSUME IInv, Next PROVE Kind
    BY Zenon
  <2>1. cm \in Mappings
    BY Zenon DEF IInv, TypeOK
  <2>2. ASSUME cm'.entries = cm.entries PROVE Kind
    BY <2>2, Zenon
  <2>3. CASE Clients
    <3>1. CASE DeleteMapping
      BY <3>1, Zenon DEF DeleteMapping, Write, NoMapping
    <3>2. CASE ~DeleteMapping
      <4>1. cm' = cm
        BY <2>3, <3>2, Zenon DEF Clients, EditResource, DeleteResource, Touch
      <4>2. QED
        BY <2>2, <4>1, Zenon
    <3>3. QED
      BY <3>1, <3>2, Zenon
  <2>4. CASE Service
    <3>1. cm' = cm \/ cm' = getProtobufConfigMap
      BY <2>4, Zenon DEF Service, ServiceStarts, WriteProtobufConfigMap, Write,
                  CreateProtobufConfigMapIfNotExist, findDeserializationConfigMaps,
                  NewAkhqDeployment, StoreVersion
    <3>2. cm'.entries = cm.entries
      BY <2>1, <3>1, Zenon DEF getProtobufConfigMap, ProtobufConfigMap, Mappings
    <3>3. QED
      BY <2>2, <3>2, Zenon
  <2>5. ASSUME NEW c \in Configs, Reconcile(c) PROVE Kind
    <3>1. CASE UpdateMapping(c) /\ c \in current
      <4>1. pc[c] = "binary" /\ WriteEntries(c) /\ Ends(c, ~akhq[c].there)
        BY <3>1, Zenon DEF UpdateMapping, Processed
      <4>2. \A d \in Configs \ {c} : cm'.entries[d] = cm.entries[d]
        BY <3>1, <4>1, WriteTypes, Zenon DEF Applying
      <4>3. pc'[c] # pc[c]
        BY <4>1, Zenon DEF Ends, IInv, TypeOK
      <4>4. QED
        BY <4>2, <4>3, Zenon
    <3>2. CASE DeleteEntries(c) /\ c \in current
      <4>1. pc[c] = "unbinary" /\ WriteEntries(c) /\ pc' = [pc EXCEPT ![c] = "unfinalize"]
        BY <3>2, Zenon DEF DeleteEntries, Step
      <4>2. \A d \in Configs \ {c} : cm'.entries[d] = cm.entries[d]
        BY <3>2, <4>1, WriteTypes, Zenon
      <4>3. pc'[c] # pc[c]
        BY <4>1, Zenon DEF IInv, TypeOK
      <4>4. QED
        BY <4>2, <4>3, Zenon
    <3>3. CASE CreateProtobufConfigMapIfNotExist(c, ProtobufConfigMap(FALSE, FALSE))
      <4>1. cm' = ProtobufConfigMap(FALSE, FALSE)
        BY <3>3, Zenon DEF CreateProtobufConfigMapIfNotExist, Write
      <4>2. cm'.entries = cm.entries
        BY <2>1, <4>1, MappingKeepsEntries, Zenon
      <4>3. QED
        BY <2>2, <4>2, Zenon
    <3>4. CASE /\ ~CreateProtobufConfigMapIfNotExist(c, ProtobufConfigMap(FALSE, FALSE))
               /\ UpdateMapping(c) \/ DeleteEntries(c) => c \notin current
      <4>1. cm' = cm
        BY <2>5, <3>4, Zenon DEF Reconcile, Apply, Remove, Get, AddFinalizer, applyConfig,
             CreateMapping, storeBytesToTmpFile, compressBytesFromTmpFile, applyBinaryConfigMap, UpdateMapping, deleteConfig,
             deleteBinaryConfigMap, DeleteEntries, RemoveFinalizer
      <4>2. QED
        BY <2>2, <4>1, Zenon
    <3>5. QED
      BY <3>1, <3>2, <3>3, <3>4, Zenon
  <2>6. CASE (\E c \in Configs : ConfigFails(c)) \/ ServiceFails \/ Crash
    <3>1. cm' = cm
      BY <2>6, Zenon DEF ConfigFails, ServiceFails, Crash
    <3>2. QED
      BY <2>2, <3>1, Zenon
  <2>7. QED
    BY <2>3, <2>4, <2>5, <2>6, Zenon DEF Next
<1>2. QED
  BY <1>1, Invariance, PTL DEF Spec, OthersKept

-----------------------------------------------------------------------------
(* What "processed" promises *)

\* A cycle works for the present specification, or there is another one.
Fresh(c) ==
    /\ ~akhq[c].there => akhq[c].status # "processed"
    /\ (pc[c] \in {"finalizer", "apply"} \/ Applying(c)) /\ ~queued[c]
           /\ ~akhq[c].deleting => run[c].spec = akhq[c].spec

\* The descriptor maps of c have the descriptors of spec, those to be written excepted.
Descriptors(c, spec, todo) ==
    \A r \in Regexes \ todo : spec[r] # 0 => desc[c][r] = <<c, spec[r]>>

\* What the cycle is going to write, and what it has written so far.
Worked(c) ==
    Applying(c) =>
        /\ run[c].entries[c] = run[c].spec
        /\ ~mixed => Descriptors(c, run[c].spec, run[c].todo)

Settles(c) ==
    akhq[c].status = "processed" /\ Idle(c) /\ ~akhq[c].deleting /\ ~lost =>
        /\ cm.entries[c] = akhq[c].spec
        /\ ~mixed => Descriptors(c, akhq[c].spec, {})

Mapped(c) == Fresh(c) /\ Worked(c) /\ Settles(c)

\* Until two compressions overlap, at most one cycle uses the files, and what
\* it finds in them is its own.
Files ==
    ~mixed => \A c \in Configs :
        /\ pc[c] = "gzip" => tmp = <<c, run[c].spec[run[c].regex]>>
        /\ pc[c] = "read" => gz = <<c, run[c].spec[run[c].regex]>>
        /\ \A d \in Configs :
               {pc[c], pc[d]} \subseteq {"gzip", "read"} => c = d

MInv ==
    /\ queued \in [Configs -> BOOLEAN] /\ Files
    /\ \A c \in Configs : Mapped(c)

\* A step of another resource; one that is lost promises nothing any more.
Untouched(d) ==
    /\ pc'[d] = pc[d] /\ run'[d] = run[d] /\ akhq'[d] = akhq[d] /\ desc'[d] = desc[d]
    /\ queued'[d] = queued[d] /\ (cm'.entries[d] = cm.entries[d] \/ lost')

\* What happened stays so.
Remembered == (lost => lost') /\ (mixed => mixed')

\* A step that leaves a resource and its worker leaves what they promise.
LEMMA UntouchedKeeps ==
    ASSUME NEW d \in Configs, Mapped(d), Untouched(d), Remembered
    PROVE  Mapped(d)'
<1>1. Fresh(d)'
  BY Zenon DEF Mapped, Fresh, Untouched, Applying
<1>2. Worked(d)'
  BY Zenon DEF Mapped, Worked, Untouched, Remembered, Applying, Descriptors
<1>3. Settles(d)'
  BY Zenon DEF Mapped, Settles, Untouched, Remembered, Idle, Descriptors
<1>4. QED
  BY <1>1, <1>2, <1>3, Zenon DEF Mapped

\* A step of one resource has to be looked at only for that resource.
LEMMA MappedStep ==
    ASSUME MInv, NEW c \in Configs, queued' \in [Configs -> BOOLEAN], Mapped(c)', Files',
           Remembered, \A d \in Configs \ {c} : Untouched(d)
    PROVE  MInv'
<1>1. ASSUME NEW d \in Configs PROVE Mapped(d)'
  <2>1. CASE d = c
    BY <2>1, Zenon
  <2>2. CASE d # c
    BY <2>2, UntouchedKeeps, Zenon DEF MInv
  <2>3. QED
    BY <2>1, <2>2, Zenon
<1>2. QED
  BY <1>1, Zenon DEF MInv

\* A step to a label at which the files are not used.
LEMMA FilesKept ==
    ASSUME Files, NEW c \in Configs, Remembered, tmp' = tmp, gz' = gz,
           pc'[c] \notin {"gzip", "read"},
           \A d \in Configs \ {c} : pc'[d] = pc[d] /\ run'[d] = run[d]
    PROVE  Files'
<1>1. SUFFICES ASSUME ~mixed', NEW d \in Configs, pc'[d] \in {"gzip", "read"}
               PROVE  /\ pc'[d] = "gzip" => tmp' = <<d, run'[d].spec[run'[d].regex]>>
                      /\ pc'[d] = "read" => gz' = <<d, run'[d].spec[run'[d].regex]>>
                      /\ \A e \in Configs : pc'[e] \in {"gzip", "read"} => d = e
  BY Zenon DEF Files
<1>2. d # c /\ pc'[d] = pc[d] /\ run'[d] = run[d] /\ ~mixed
  BY <1>1, Zenon DEF Remembered
<1>3. \A e \in Configs : pc'[e] \in {"gzip", "read"} => pc[e] \in {"gzip", "read"}
  BY Zenon
<1>4. QED
  BY <1>1, <1>2, <1>3 DEF Files

\* A status is all that its update changes.
LEMMA StatusFields ==
    ASSUME TypeOK, NEW c \in Configs, NEW status \in Statuses, updateCrStatus(c, status)
    PROVE  /\ akhq'[c].spec = akhq[c].spec /\ akhq'[c].there = akhq[c].there
           /\ akhq'[c].deleting = akhq[c].deleting
           /\ akhq[c].there => akhq'[c].status = status
           /\ ~akhq[c].there => akhq'[c].status = akhq[c].status
           /\ \A d \in Configs \ {c} : akhq'[d] = akhq[d]
<1>1. CASE akhq[c].there
  BY <1>1, Zenon DEF TypeOK, updateCrStatus, Resources
<1>2. CASE ~akhq[c].there
  BY <1>2, Zenon DEF TypeOK, updateCrStatus
<1>3. QED
  BY <1>1, <1>2, Zenon

\* The end of a cycle.
LEMMA EndQueued ==
    ASSUME MInv, NEW c \in Configs, NEW requeue \in BOOLEAN, Ends(c, requeue)
    PROVE  /\ queued' \in [Configs -> BOOLEAN] /\ queued'[c] = (queued[c] \/ requeue)
           /\ \A d \in Configs \ {c} : queued'[d] = queued[d]
BY Zenon DEF MInv, Ends

\* A cycle that ends with an error is followed by another one.
LEMMA ErrorMapped ==
    ASSUME IInv, MInv, NEW c \in Configs, Requeue(c) \/ Failed(c),
           UNCHANGED <<cm, desc, lost, mixed>>, Files'
    PROVE  MInv'
<1>1. /\ Ends(c, TRUE) /\ TRUE \in BOOLEAN
      /\ akhq' = akhq \/ updateCrStatus(c, "problem")
  BY Zenon DEF Requeue, Failed
<1>2. /\ pc'[c] = "idle" /\ \A d \in Configs \ {c} : pc'[d] = pc[d] /\ run'[d] = run[d]
  BY <1>1, EndTypes, Zenon DEF IInv
<1>3. /\ queued' \in [Configs -> BOOLEAN] /\ queued'[c]
      /\ \A d \in Configs \ {c} : queued'[d] = queued[d]
  <2>1. queued' = [queued EXCEPT ![c] = queued[c] \/ TRUE]
    BY <1>1, Zenon DEF Ends
  <2>2. queued \in [Configs -> BOOLEAN]
    BY Zenon DEF MInv
  <2>3. QED
    BY <2>1, <2>2, Zenon
<1>4. /\ akhq'[c].there = akhq[c].there
      /\ ~akhq[c].there => akhq'[c].status = akhq[c].status
      /\ \A d \in Configs \ {c} : akhq'[d] = akhq[d]
  BY <1>1, StatusFields, Zenon DEF IInv, Statuses
<1>5. Mapped(c)'
  BY <1>2, <1>3, <1>4, Zenon DEF MInv, Mapped, Fresh, Worked, Settles, Applying, Idle
<1>6. Remembered /\ \A d \in Configs \ {c} : Untouched(d)
  BY <1>2, <1>3, <1>4, Zenon DEF Remembered, Untouched
<1>7. QED
  BY <1>3, <1>5, <1>6, MappedStep, Zenon

\* So is one that ends where the files are not used.
LEMMA ErrorKeepsFiles ==
    ASSUME IInv, MInv, NEW c \in Configs, Requeue(c) \/ Failed(c),
           UNCHANGED <<cm, desc, tmp, gz, lost, mixed>>
    PROVE  MInv'
<1>1. /\ Ends(c, TRUE) /\ TRUE \in BOOLEAN
  BY Zenon DEF Requeue, Failed
<1>2. /\ pc'[c] = "idle" /\ \A d \in Configs \ {c} : pc'[d] = pc[d] /\ run'[d] = run[d]
  BY <1>1, EndTypes, Zenon DEF IInv
<1>3. Files'
  BY <1>2, FilesKept, Zenon DEF MInv, Remembered
<1>4. QED
  BY <1>3, ErrorMapped, Zenon

\* A resource that is changed or deleted by its clients has a cycle to come.
LEMMA ClientMapped ==
    ASSUME IInv, MInv, NEW c \in Configs, EditResource(c) \/ DeleteResource(c)
    PROVE  MInv'
<1>1. /\ UNCHANGED <<cm, desc, tmp, gz, pc, lost, mixed>> /\ Changed(c)
  BY Zenon DEF EditResource, DeleteResource
<1>2. /\ queued' \in [Configs -> BOOLEAN] /\ queued'[c]
      /\ \A d \in Configs \ {c} : queued'[d] = queued[d]
  BY <1>1, Zenon DEF MInv, Changed
<1>3. /\ run'[c].spec = run[c].spec /\ run'[c].regex = run[c].regex
      /\ run'[c].entries = run[c].entries /\ run'[c].todo = run[c].todo
      /\ \A d \in Configs \ {c} : run'[d] = run[d]
  BY <1>1, Zenon DEF IInv, TypeOK, Changed, Runs
<1>4. akhq \in [Configs -> Resources]
  BY Zenon DEF IInv, TypeOK
<1>5. /\ ~akhq'[c].there => akhq'[c].status # "processed"
      /\ \A d \in Configs \ {c} : akhq'[d] = akhq[d]
  <2>1. CASE EditResource(c)
    <3>1. PICK spec \in Entries, valid \in BOOLEAN :
              akhq' = [akhq EXCEPT ![c].there = TRUE, ![c].spec = spec, ![c].valid = valid]
      BY <2>1, Zenon DEF EditResource
    <3>2. QED
      BY <1>4, <3>1, Zenon DEF Resources
  <2>2. CASE DeleteResource(c)
    BY <1>4, <2>2, Zenon DEF DeleteResource, Resources, NoResource
  <2>3. QED
    BY <2>1, <2>2, Zenon
<1>6. Mapped(c)'
  <2>1. Fresh(c)'
    BY <1>2, <1>5, Zenon DEF Fresh
  <2>2. Worked(c)
    BY Zenon DEF MInv, Mapped
  <2>3. Worked(c)'
    BY <1>1, <1>3, <2>2, Zenon DEF Worked, Applying, Descriptors
  <2>4. Settles(c)'
    BY <1>2, Zenon DEF Settles, Idle
  <2>5. QED
    BY <2>1, <2>3, <2>4, Zenon DEF Mapped
<1>7. Files'
  BY <1>1, <1>3, ZenonT(40) DEF MInv, Files
<1>8. Remembered /\ \A d \in Configs \ {c} : Untouched(d)
  BY <1>1, <1>2, <1>3, <1>5, Zenon DEF Remembered, Untouched
<1>9. QED
  BY <1>2, <1>6, <1>7, <1>8, MappedStep, Zenon

\* Steps that leave the resources, their cycles and their descriptors alone, and
\* the entries unless the mapping is lost.
LEMMA ElsewhereMapped ==
    ASSUME MInv, UNCHANGED <<akhq, desc, tmp, gz, queued, pc, run, mixed>>,
           (cm'.entries = cm.entries /\ lost' = lost) \/ lost' = TRUE
    PROVE  MInv'
<1>1. Remembered /\ \A d \in Configs : Untouched(d)
  BY DEF Remembered, Untouched
<1>2. ASSUME NEW d \in Configs PROVE Mapped(d)'
  <2>1. Mapped(d) /\ Untouched(d)
    BY <1>1, Zenon DEF MInv
  <2>2. QED
    BY <1>1, <2>1, UntouchedKeeps, Zenon
<1>3. Files'
  BY Zenon DEF MInv, Files
<1>4. QED
  BY <1>2, <1>3, Zenon DEF MInv

\* A cycle starts with the present specification.
LEMMA GetMapped ==
    ASSUME IInv, MInv, NEW c \in Configs, Get(c)
    PROVE  MInv'
<1>1. /\ pc[c] = "idle" /\ queued' = [queued EXCEPT ![c] = FALSE]
      /\ UNCHANGED <<cm, desc, tmp, gz, lost, mixed>>
  BY Zenon DEF Get, rest
<1>2. /\ queued' \in [Configs -> BOOLEAN]
      /\ \A d \in Configs \ {c} : queued'[d] = queued[d]
  BY <1>1, Zenon DEF MInv
<1>3. /\ akhq \in [Configs -> Resources] /\ pc \in [Configs -> Labels]
      /\ run \in [Configs -> Runs]
  BY Zenon DEF IInv, TypeOK
<1>4. /\ pc'[c] \in {"idle", "delete", "apply", "finalizer"}
      /\ ~akhq'[c].there => akhq'[c].status # "processed"
      /\ pc'[c] \in {"apply", "finalizer"} => run'[c].spec = akhq'[c].spec
      /\ pc'[c] = "idle" => akhq'[c].status # "processed"
      /\ \A d \in Configs \ {c} :
            pc'[d] = pc[d] /\ run'[d] = run[d] /\ akhq'[d] = akhq[d]
  <2>1. ~akhq[c].there => akhq[c].status # "processed"
    BY Zenon DEF MInv, Mapped, Fresh
  <2>2. CASE ~akhq[c].there /\ UNCHANGED <<akhq, pc, run>>
    BY <1>1, <2>1, <2>2, Zenon
  <2>3. CASE pc' = [pc EXCEPT ![c] = "delete"] /\ UNCHANGED <<akhq, run>>
    BY <1>3, <2>1, <2>3, Zenon
  <2>4. CASE /\ akhq[c].there /\ updateCrStatus(c, "invalid")
             /\ UNCHANGED <<pc, run>>
    BY <1>1, <2>4, StatusFields, Zenon DEF IInv, Statuses
  <2>5. CASE /\ UNCHANGED akhq
             /\ pc' = [pc EXCEPT ![c] = IF akhq[c].finalizer THEN "apply" ELSE "finalizer"]
             /\ run' = [run EXCEPT ![c].spec = akhq[c].spec,
                                   ![c].unchanged = ~akhq[c].finalizer]
    <3>1. /\ run'[c].spec = akhq[c].spec
          /\ \A d \in Configs \ {c} : run'[d] = run[d]
      BY <1>3, <2>5, Zenon DEF Runs
    <3>2. /\ pc'[c] \in {"apply", "finalizer"}
          /\ \A d \in Configs \ {c} : pc'[d] = pc[d]
      BY <1>3, <2>5, Zenon
    <3>3. QED
      BY <2>1, <2>5, <3>1, <3>2, Zenon
  <2>6. QED
    BY <2>2, <2>3, <2>4, <2>5, Zenon DEF Get
<1>5. Mapped(c)'
  BY <1>4, Zenon DEF Mapped, Fresh, Worked, Settles, Applying, Idle
<1>6. Remembered /\ \A d \in Configs \ {c} : Untouched(d)
  BY <1>1, <1>2, <1>4, Zenon DEF Remembered, Untouched
<1>7. Files'
  BY <1>1, <1>4, <1>6, FilesKept, Zenon DEF MInv
<1>8. QED
  BY <1>2, <1>5, <1>6, <1>7, MappedStep, Zenon

\* The finalizer is written only to the resource that was read.
LEMMA AddFinalizerMapped ==
    ASSUME IInv, MInv, NEW c \in Configs, AddFinalizer(c)
    PROVE  MInv'
<1>1. pc[c] = "finalizer" /\ UNCHANGED <<cm, desc, tmp, gz, lost, mixed>>
  BY Zenon DEF AddFinalizer, rest
<1>2. CASE ~run[c].unchanged
  BY <1>1, <1>2, ErrorKeepsFiles, Zenon DEF AddFinalizer
<1>3. CASE run[c].unchanged
  <2>1. /\ akhq' = [akhq EXCEPT ![c].finalizer = TRUE] /\ queued' = queued
        /\ pc' = [pc EXCEPT ![c] = "apply"]
        /\ run' = [run EXCEPT ![c].unchanged = FALSE]
    BY <1>3, Zenon DEF AddFinalizer, Step
  <2>2. /\ akhq'[c].there = akhq[c].there /\ akhq'[c].deleting = akhq[c].deleting
        /\ akhq'[c].spec = akhq[c].spec /\ akhq'[c].status = akhq[c].status
        /\ \A d \in Configs \ {c} : akhq'[d] = akhq[d]
    BY <2>1, Zenon DEF IInv, TypeOK, Resources
  <2>3. run'[c].spec = run[c].spec /\ \A d \in Configs \ {c} : run'[d] = run[d]
    BY <2>1, Zenon DEF IInv, TypeOK, Runs
  <2>4. pc'[c] = "apply" /\ \A d \in Configs \ {c} : pc'[d] = pc[d]
    BY <2>1, Zenon DEF IInv, TypeOK
  <2>5. Mapped(c)'
    BY <1>1, <2>1, <2>2, <2>3, <2>4, Zenon
    DEF MInv, Mapped, Fresh, Worked, Settles, Applying, Idle
  <2>6. Remembered /\ \A d \in Configs \ {c} : Untouched(d)
    <3>1. Remembered
      BY <1>1, <2>1, Zenon DEF Remembered
    <3>2. ASSUME NEW d \in Configs \ {c} PROVE Untouched(d)
      BY <1>1, <2>1, <2>2, <2>3, <2>4, Zenon DEF Untouched
    <3>3. QED
      BY <3>1, <3>2, Zenon
  <2>7. Files'
    BY <1>1, <2>3, <2>4, <2>6, FilesKept, Zenon DEF MInv
  <2>8. QED
    BY <2>1, <2>5, <2>6, <2>7, MappedStep, Zenon DEF MInv
<1>4. QED
  BY <1>2, <1>3, Zenon

\* applyConfig starts with all descriptors of the specification to be written.
LEMMA ApplyMapped ==
    ASSUME IInv, MInv, NEW c \in Configs, applyConfig(c)
    PROVE  MInv'
<1> DEFINE entries == [cm.entries EXCEPT ![c] = run[c].spec]
           todo == {r \in Regexes : run[c].spec[r] # 0 \/ cm.entries[c][r] # 0}
<1>1. /\ pc[c] = "apply" /\ pc' = [pc EXCEPT ![c] = "create"]
      /\ run' = [run EXCEPT ![c].entries = entries, ![c].todo = todo]
      /\ UNCHANGED <<akhq, queued, desc, tmp, gz, lost, mixed>>
  BY Zenon DEF applyConfig, Step, rest, fullUpdateDeserializationConfig
<1>2. cm' = cm
  BY Zenon DEF applyConfig
<1>3. /\ run'[c].spec = run[c].spec /\ run'[c].entries = entries
      /\ run'[c].todo = todo
      /\ \A d \in Configs \ {c} : run'[d] = run[d]
  BY <1>1, Zenon DEF IInv, TypeOK, Runs
<1>4. entries[c] = run[c].spec
  BY Zenon DEF IInv, TypeOK, Mappings
<1>5. \A r \in Regexes \ todo : run[c].spec[r] = 0
  BY Zenon
<1>6. pc'[c] = "create" /\ \A d \in Configs \ {c} : pc'[d] = pc[d]
  BY <1>1, Zenon DEF IInv, TypeOK
<1> HIDE DEF entries, todo
<1>7. Mapped(c)'
  BY <1>1, <1>3, <1>4, <1>5, <1>6, Zenon
  DEF MInv, Mapped, Fresh, Worked, Settles, Applying, Idle, Descriptors
<1>8. Remembered /\ \A d \in Configs \ {c} : Untouched(d)
  BY <1>1, <1>2, <1>3, <1>6, Zenon DEF Remembered, Untouched
<1>9. Files'
  BY <1>1, <1>6, <1>8, FilesKept, Zenon DEF MInv, Untouched
<1>10. QED
  BY <1>1, <1>7, <1>8, <1>9, MappedStep, Zenon DEF MInv

\* Creating or updating the mapping touches no entry and no descriptor.
LEMMA CreateMapped ==
    ASSUME IInv, MInv, NEW c \in Configs, CreateMapping(c)
    PROVE  MInv'
<1>1. /\ pc[c] = "create" /\ UNCHANGED <<desc, tmp, gz, lost, mixed>>
  BY Zenon DEF CreateMapping, rest
<1>2. CASE Failed(c) /\ UNCHANGED cm
  BY <1>1, <1>2, ErrorKeepsFiles, Zenon
<1>3. CASE /\ CreateProtobufConfigMapIfNotExist(c, ProtobufConfigMap(FALSE, FALSE))
           /\ Step(c, "create", "binary") /\ UNCHANGED <<akhq, queued, run>>
  <2>1. cm' = ProtobufConfigMap(FALSE, FALSE)
    BY <1>3, Zenon DEF CreateProtobufConfigMapIfNotExist, Write
  <2>2. cm'.entries = cm.entries
    BY <2>1, MappingKeepsEntries, Zenon DEF IInv, TypeOK
  <2>3. pc'[c] = "binary" /\ \A d \in Configs \ {c} : pc'[d] = pc[d]
    BY <1>3, Zenon DEF Step, IInv, TypeOK
  <2>4. Mapped(c)'
    BY <1>1, <1>3, <2>3, Zenon
    DEF MInv, Mapped, Fresh, Worked, Settles, Applying, Idle, Descriptors
  <2>5. Remembered /\ \A d \in Configs \ {c} : Untouched(d)
    BY <1>1, <1>3, <2>2, <2>3, Zenon DEF Remembered, Untouched
  <2>6. Files'
    BY <1>1, <1>3, <2>3, <2>5, FilesKept, Zenon DEF MInv, Untouched
  <2>7. QED
    BY <1>3, <2>4, <2>5, <2>6, MappedStep, Zenon DEF MInv
<1>4. QED
  BY <1>2, <1>3, Zenon DEF CreateMapping

\* While another cycle uses the files they are not empty.
LEMMA FilesInUse ==
    ASSUME Files, ~mixed, NEW d \in Configs, pc[d] \in {"gzip", "read"}
    PROVE  tmp # NoContent \/ gz # NoContent
<1>1. \A v : <<d, v>> # NoContent
  BY Zenon DEF NoContent
<1>2. QED
  BY <1>1, Zenon DEF Files

\* Storing a descriptor in a file that is in use is what mixes contents up.
LEMMA StoreMapped ==
    ASSUME IInv, MInv, NEW c \in Configs, storeBytesToTmpFile(c)
    PROVE  MInv'
<1>1. PICK r \in run[c].todo :
          tmp' = <<c, run[c].spec[r]>> /\ run' = [run EXCEPT ![c].regex = r]
  BY Zenon DEF storeBytesToTmpFile
<1>2. /\ pc[c] = "binary" /\ pc' = [pc EXCEPT ![c] = "gzip"]
      /\ mixed' = (mixed \/ tmp # NoContent \/ gz # NoContent)
      /\ UNCHANGED <<akhq, queued, cm, desc, gz, lost>>
  BY Zenon DEF storeBytesToTmpFile, Step, rest
<1>3. /\ run'[c].spec = run[c].spec /\ run'[c].entries = run[c].entries
      /\ run'[c].todo = run[c].todo /\ run'[c].regex = r
      /\ \A d \in Configs \ {c} : run'[d] = run[d]
  BY <1>1, Zenon DEF IInv, TypeOK, Runs
<1>4. pc'[c] = "gzip" /\ \A d \in Configs \ {c} : pc'[d] = pc[d]
  BY <1>2, Zenon DEF IInv, TypeOK
<1>5. Mapped(c)'
  <2>1. Fresh(c) /\ Worked(c)
    BY Zenon DEF MInv, Mapped
  <2>2. Fresh(c)'
    BY <1>2, <1>3, <1>4, <2>1, Zenon DEF Fresh, Applying
  <2>3. Worked(c)'
    BY <1>2, <1>3, <1>4, <2>1, Zenon DEF Worked, Applying, Descriptors
  <2>4. Settles(c)'
    BY <1>4, Zenon DEF Settles, Idle
  <2>5. QED
    BY <2>2, <2>3, <2>4, Zenon DEF Mapped
<1>6. Remembered /\ \A d \in Configs \ {c} : Untouched(d)
  <2>1. Remembered
    BY <1>2, Zenon DEF Remembered
  <2>2. ASSUME NEW d \in Configs \ {c} PROVE Untouched(d)
    BY <1>2, <1>3, <1>4, Zenon DEF Untouched
  <2>3. QED
    BY <2>1, <2>2, Zenon
<1>7. ~mixed' => \A d \in Configs \ {c} : pc'[d] \notin {"gzip", "read"}
  BY <1>2, <1>4, FilesInUse, Zenon DEF MInv
<1>8. Files'
  BY <1>1, <1>3, <1>4, <1>7, Zenon DEF Files
<1>9. QED
  BY <1>2, <1>5, <1>6, <1>8, MappedStep, Zenon DEF MInv

\* What is compressed is what the cycle has stored.
LEMMA CompressMapped ==
    ASSUME IInv, MInv, NEW c \in Configs, compressBytesFromTmpFile(c)
    PROVE  MInv'
<1>1. pc[c] = "gzip" /\ UNCHANGED <<cm, desc, tmp, lost, mixed>>
  BY Zenon DEF compressBytesFromTmpFile, rest
<1>2. CASE tmp = NoContent
  BY <1>1, <1>2, ErrorKeepsFiles, Zenon DEF compressBytesFromTmpFile
<1>3. CASE tmp # NoContent
  <2>1. /\ pc' = [pc EXCEPT ![c] = "read"] /\ gz' = tmp
        /\ UNCHANGED <<akhq, run, queued>>
    BY <1>3, Zenon DEF compressBytesFromTmpFile, Step
  <2>2. pc'[c] = "read" /\ \A d \in Configs \ {c} : pc'[d] = pc[d]
    BY <2>1, Zenon DEF IInv, TypeOK
  <2>3. Mapped(c)'
    BY <1>1, <2>1, <2>2, Zenon
    DEF MInv, Mapped, Fresh, Worked, Settles, Applying, Idle, Descriptors
  <2>4. Remembered /\ \A d \in Configs \ {c} : Untouched(d)
    BY <1>1, <2>1, <2>2, Zenon DEF Remembered, Untouched
  <2>5. ~mixed => /\ tmp = <<c, run[c].spec[run[c].regex]>>
                  /\ \A d \in Configs \ {c} : pc[d] \notin {"gzip", "read"}
    BY <1>1, Zenon DEF MInv, Files
  <2>6. Files'
    BY <1>1, <2>1, <2>2, <2>5, Zenon DEF Files
  <2>7. QED
    BY <2>1, <2>3, <2>4, <2>6, MappedStep, Zenon DEF MInv
<1>4. QED
  BY <1>2, <1>3, Zenon

\* What is read goes to the map of the expression it was stored for.
LEMMA BinaryMapped ==
    ASSUME IInv, MInv, NEW c \in Configs, applyBinaryConfigMap(c)
    PROVE  MInv'
<1>1. pc[c] = "read" /\ UNCHANGED <<cm, lost, mixed>>
  BY Zenon DEF applyBinaryConfigMap, rest
<1>2. ~mixed => /\ gz = <<c, run[c].spec[run[c].regex]>>
                /\ \A d \in Configs \ {c} : pc[d] \notin {"gzip", "read"}
  BY <1>1, Zenon DEF MInv, Files
<1>3. CASE gz = NoContent
  <2>1. mixed
    <3>1. <<c, run[c].spec[run[c].regex]>> # NoContent
      BY Zenon DEF NoContent
    <3>2. QED
      BY <1>2, <1>3, <3>1, Zenon
  <2>2. QED
    BY <1>1, <1>3, <2>1, ErrorMapped, Zenon DEF applyBinaryConfigMap, Files
<1>4. CASE gz # NoContent
  <2> DEFINE regex == run[c].regex
  <2>1. /\ desc' = [desc EXCEPT ![c][regex] = gz] /\ pc' = [pc EXCEPT ![c] = "binary"]
        /\ run' = [run EXCEPT ![c].todo = @ \ {regex}, ![c].regex = NoRegex]
        /\ UNCHANGED <<akhq, queued>>
    BY <1>4, Zenon DEF applyBinaryConfigMap, Step
  <2>2. /\ run'[c].spec = run[c].spec /\ run'[c].entries = run[c].entries
        /\ run'[c].todo = run[c].todo \ {regex}
        /\ \A d \in Configs \ {c} : run'[d] = run[d]
    BY <2>1, Zenon DEF IInv, TypeOK, Runs
  <2>3. pc'[c] = "binary" /\ \A d \in Configs \ {c} : pc'[d] = pc[d]
    BY <2>1, Zenon DEF IInv, TypeOK
  <2>4. /\ regex \in Regexes /\ desc'[c][regex] = gz
        /\ \A r \in Regexes \ {regex} : desc'[c][r] = desc[c][r]
        /\ \A d \in Configs \ {c} : desc'[d] = desc[d]
    BY <2>1, Zenon DEF IInv, TypeOK, Runs
  <2>5. ~mixed => gz = <<c, run[c].spec[regex]>>
    BY <1>2, Zenon
  <2> HIDE DEF regex
  <2>6. Worked(c)'
    <3>1. /\ run[c].entries[c] = run[c].spec
          /\ ~mixed => Descriptors(c, run[c].spec, run[c].todo)
      BY <1>1, Zenon DEF MInv, Mapped, Worked, Applying
    <3>2. ASSUME ~mixed, NEW r \in Regexes \ (run[c].todo \ {regex}),
                 run[c].spec[r] # 0
          PROVE  desc'[c][r] = <<c, run[c].spec[r]>>
      <4>2. CASE r = regex
        BY <2>4, <2>5, <3>2, <4>2, Zenon
      <4>3. CASE r # regex
        BY <2>4, <3>1, <3>2, <4>3, Zenon DEF Descriptors
      <4>4. QED
        BY <4>2, <4>3, Zenon
    <3>3. QED
      BY <1>1, <2>2, <3>1, <3>2, Zenon DEF Worked, Descriptors
  <2>7. Mapped(c)'
    <3>1. Fresh(c)
      BY Zenon DEF MInv, Mapped
    <3>2. Fresh(c)'
      BY <1>1, <2>1, <2>2, <2>3, <3>1, Zenon DEF Fresh, Applying
    <3>3. Settles(c)'
      BY <2>3, Zenon DEF Settles, Idle
    <3>4. QED
      BY <2>6, <3>2, <3>3, Zenon DEF Mapped
  <2>8. Remembered /\ \A d \in Configs \ {c} : Untouched(d)
    <3>1. Remembered
      BY <1>1, <2>1, Zenon DEF Remembered
    <3>2. ASSUME NEW d \in Configs \ {c} PROVE Untouched(d)
      BY <1>1, <2>1, <2>2, <2>3, <2>4, Zenon DEF Untouched
    <3>3. QED
      BY <3>1, <3>2, Zenon
  <2>9. Files'
    BY <1>1, <1>2, <2>3, Zenon DEF Files
  <2>10. QED
    BY <2>1, <2>7, <2>8, <2>9, MappedStep, Zenon DEF MInv
<1>5. QED
  BY <1>3, <1>4, Zenon

\* A resource is shown as processed with its entries in the mapping and no
\* descriptor left to write.
LEMMA UpdateMappingMapped ==
    ASSUME IInv, MInv, NEW c \in Configs, UpdateMapping(c)
    PROVE  MInv'
<1>1. /\ pc[c] = "binary" /\ run[c].todo = {}
      /\ UNCHANGED <<desc, tmp, gz, lost, mixed>>
  BY Zenon DEF UpdateMapping, rest
<1>2. CASE c \notin current
  BY <1>1, <1>2, ErrorKeepsFiles, Zenon DEF UpdateMapping
<1>3. CASE c \in current
  <2>1. WriteEntries(c) /\ Ends(c, ~akhq[c].there) /\ updateCrStatus(c, "processed")
    BY <1>3, Zenon DEF UpdateMapping, Processed
  <2>2. /\ cm'.entries = run[c].entries
        /\ \A d \in Configs \ {c} : cm'.entries[d] = cm.entries[d]
    BY <1>1, <1>3, <2>1, WriteTypes, Zenon DEF Applying
  <2>3. akhq[c].there \in BOOLEAN /\ (~akhq[c].there) \in BOOLEAN
    BY Zenon DEF IInv, TypeOK, Resources
  <2>4. /\ pc'[c] = "idle" /\ \A d \in Configs \ {c} : pc'[d] = pc[d] /\ run'[d] = run[d]
    BY <2>1, <2>3, EndTypes, Zenon DEF IInv
  <2>5. /\ queued' \in [Configs -> BOOLEAN] /\ queued'[c] = (queued[c] \/ ~akhq[c].there)
        /\ \A d \in Configs \ {c} : queued'[d] = queued[d]
    BY <2>1, <2>3, EndQueued, Zenon
  <2>6. /\ akhq'[c].spec = akhq[c].spec /\ akhq'[c].there = akhq[c].there
        /\ akhq'[c].deleting = akhq[c].deleting
        /\ ~akhq[c].there => akhq'[c].status = akhq[c].status
        /\ \A d \in Configs \ {c} : akhq'[d] = akhq[d]
    BY <2>1, StatusFields, Zenon DEF IInv, Statuses
  <2>7. Fresh(c)' /\ Worked(c)'
    BY <2>4, <2>6, Zenon DEF MInv, Mapped, Fresh, Worked, Applying
  <2>8. Settles(c)'
    <3>1. SUFFICES ASSUME ~queued'[c], ~akhq[c].deleting
                   PROVE  /\ cm'.entries[c] = akhq[c].spec
                          /\ ~mixed => Descriptors(c, akhq[c].spec, {})
      BY <1>1, <2>6, Zenon DEF Settles, Idle, Descriptors
    <3>2. run[c].spec = akhq[c].spec
      BY <1>1, <2>5, <3>1, Zenon DEF MInv, Mapped, Fresh, Applying
    <3>3. QED
      BY <1>1, <2>2, <3>2, Zenon DEF MInv, Mapped, Worked, Applying
  <2>9. Remembered /\ \A d \in Configs \ {c} : Untouched(d)
    BY <1>1, <2>2, <2>4, <2>5, <2>6, Zenon DEF Remembered, Untouched
  <2>10. Files'
    BY <1>1, <2>4, <2>9, FilesKept, Zenon DEF MInv
  <2>11. QED
    BY <2>5, <2>7, <2>8, <2>9, <2>10, MappedStep, Zenon DEF Mapped
<1>4. QED
  BY <1>2, <1>3, Zenon

\* A resource that is being deleted promises nothing, and one that is gone has
\* no status.
LEMMA RemoveMapped ==
    ASSUME IInv, MInv, NEW c \in Configs, Remove(c)
    PROVE  MInv'
<1>1. /\ pc[c] \in {"delete", "unbinary", "unfinalize"} /\ akhq[c].deleting
      /\ UNCHANGED <<tmp, gz, lost, mixed>>
  <2>1. pc[c] \in {"delete", "unbinary", "unfinalize"} /\ UNCHANGED <<tmp, gz, lost, mixed>>
    BY Zenon DEF Remove, deleteConfig, deleteBinaryConfigMap, DeleteEntries, RemoveFinalizer,
           Step, rest
  <2>2. QED
    BY <2>1, Zenon DEF IInv, Guarded
<1>2. CASE Requeue(c) /\ UNCHANGED <<cm, desc>>
  BY <1>1, <1>2, ErrorKeepsFiles, Zenon
<1>3. CASE RemoveFinalizer(c)
  <2>1. /\ pc' = [pc EXCEPT ![c] = "idle"] /\ run' = [run EXCEPT ![c] = NoRun]
        /\ akhq' = [akhq EXCEPT ![c] = NoResource]
        /\ queued' = [queued EXCEPT ![c] = TRUE] /\ UNCHANGED <<cm, desc>>
    BY <1>3, Zenon DEF RemoveFinalizer, Step
  <2>2. /\ pc'[c] = "idle" /\ akhq'[c] = NoResource
        /\ \A d \in Configs \ {c} :
              pc'[d] = pc[d] /\ run'[d] = run[d] /\ akhq'[d] = akhq[d]
    BY <2>1, Zenon DEF IInv, TypeOK
  <2>3. /\ queued' \in [Configs -> BOOLEAN]
        /\ \A d \in Configs \ {c} : queued'[d] = queued[d]
    BY <2>1, Zenon DEF MInv
  <2>4. Mapped(c)'
    <3>1. ~akhq'[c].there /\ akhq'[c].status = "none"
      BY <2>2 DEF NoResource
    <3>2. Fresh(c)' /\ Worked(c)' /\ Settles(c)'
      BY <2>2, <3>1, Zenon DEF Fresh, Worked, Settles, Applying
    <3>3. QED
      BY <3>2, Zenon DEF Mapped
  <2>5. Remembered /\ \A d \in Configs \ {c} : Untouched(d)
    BY <1>1, <2>1, <2>2, <2>3, Zenon DEF Remembered, Untouched
  <2>6. Files'
    BY <1>1, <2>2, <2>5, FilesKept, Zenon DEF MInv
  <2>7. QED
    BY <2>3, <2>4, <2>5, <2>6, MappedStep, Zenon
<1>4. CASE ~(Requeue(c) /\ UNCHANGED <<cm, desc>>) /\ ~RemoveFinalizer(c)
  <2>1. /\ UNCHANGED <<akhq, queued>> /\ pc'[c] \in {"unbinary", "unfinalize"}
        /\ \A d \in Configs \ {c} :
              /\ pc'[d] = pc[d] /\ run'[d] = run[d] /\ desc'[d] = desc[d]
              /\ cm'.entries[d] = cm.entries[d]
    <3>1. /\ pc \in [Configs -> Labels] /\ run \in [Configs -> Runs]
          /\ desc \in [Configs -> [Regexes -> Contents]]
      BY Zenon DEF IInv, TypeOK
    <3>2. CASE deleteConfig(c)
      BY <1>4, <3>1, <3>2, Zenon DEF deleteConfig, Step
    <3>3. CASE deleteBinaryConfigMap(c)
      <4>1. PICK r \in run[c].todo : /\ desc' = [desc EXCEPT ![c][r] = NoContent]
                                    /\ run' = [run EXCEPT ![c].todo = @ \ {r}]
        BY <3>3, Zenon DEF deleteBinaryConfigMap
      <4>2. pc[c] = "unbinary" /\ UNCHANGED <<akhq, queued, pc, cm>>
        BY <3>3, Zenon DEF deleteBinaryConfigMap
      <4>3. QED
        BY <3>1, <4>1, <4>2, Zenon
    <3>4. CASE DeleteEntries(c)
      <4>1. c \in current /\ pc[c] = "unbinary"
        BY <1>4, <3>4, Zenon DEF DeleteEntries
      <4>2. /\ WriteEntries(c) /\ pc' = [pc EXCEPT ![c] = "unfinalize"]
            /\ UNCHANGED <<akhq, run, queued, desc>>
        BY <3>4, <4>1, Zenon DEF DeleteEntries, Step
      <4>3. \A d \in Configs \ {c} : cm'.entries[d] = cm.entries[d]
        BY <4>1, <4>2, WriteTypes, Zenon
      <4>4. QED
        BY <3>1, <4>2, <4>3, Zenon
    <3>5. QED
      BY <1>4, <3>2, <3>3, <3>4, Zenon DEF Remove
  <2>2. Mapped(c)'
    BY <1>1, <2>1, Zenon DEF MInv, Mapped, Fresh, Worked, Settles, Applying
  <2>3. Remembered /\ \A d \in Configs \ {c} : Untouched(d)
    BY <1>1, <2>1, Zenon DEF Remembered, Untouched
  <2>4. Files'
    BY <1>1, <2>1, <2>3, FilesKept, Zenon DEF MInv
  <2>5. QED
    BY <2>1, <2>2, <2>3, <2>4, MappedStep, Zenon DEF MInv
<1>5. QED
  BY <1>2, <1>3, <1>4, Zenon

\* After a crash every resource that exists is looked at again.
LEMMA CrashMapped ==
    ASSUME IInv, MInv, Crash
    PROVE  MInv'
<1>1. /\ queued' = [c \in Configs |-> akhq[c].there] /\ pc' = [c \in Configs |-> "idle"]
      /\ UNCHANGED <<akhq, mixed>>
  BY Zenon DEF Crash
<1>2. \A c \in Configs : akhq[c].there \in BOOLEAN
  BY Zenon DEF IInv, TypeOK, Resources
<1>3. queued' \in [Configs -> BOOLEAN]
  BY <1>1, <1>2, Zenon
<1>4. \A c \in Configs : pc'[c] = "idle" /\ queued'[c] = akhq[c].there
  BY <1>1, Zenon
<1>5. \A c \in Configs : Mapped(c)'
  BY <1>1, <1>4, Zenon DEF MInv, Mapped, Fresh, Worked, Settles, Applying, Idle
<1>6. Files'
  BY <1>4, Zenon DEF Files
<1>7. QED
  BY <1>3, <1>5, <1>6, Zenon DEF MInv

\* What an earlier process has processed is in the mapping.
LEMMA InitMapped ==
    Init => MInv
<1> SUFFICES ASSUME Init PROVE MInv
  BY Zenon
<1>1. \A c \in Configs : pc[c] = "idle"
  BY Zenon DEF Init
<1>2. queued \in [Configs -> BOOLEAN]
  <2>1. queued = [c \in Configs |-> c \in Applied]
    BY Zenon DEF Init
  <2>2. \A c \in Configs : (c \in Applied) \in BOOLEAN
    OBVIOUS
  <2>3. QED
    BY <2>1, <2>2, Zenon
<1>3. Files
  BY <1>1, Zenon DEF Files
<1>4. ASSUME NEW c \in Configs, c \notin Applied PROVE akhq[c].status = "none"
  <2>1. akhq[c] = NoResource
    BY <1>4, Zenon DEF Init
  <2>2. QED
    BY <2>1 DEF NoResource
<1>5. ASSUME NEW c \in Applied PROVE c \in Configs /\ queued[c] /\ akhq[c].there
  <2>1. c \in Configs
    BY AkhqAssumption, Zenon
  <2>2. akhq[c] = [NoResource EXCEPT !.there = TRUE, !.spec = First(c),
                                     !.finalizer = TRUE, !.status = "processed"]
    BY <2>1, Zenon DEF Init
  <2>3. QED
    BY <2>1, <2>2, Zenon DEF Init, NoResource
<1>6. \A c \in Configs : Mapped(c)
  BY <1>1, <1>4, <1>5, Zenon DEF Mapped, Fresh, Worked, Settles, Applying, Idle
<1>7. QED
  BY <1>2, <1>3, <1>6, Zenon DEF MInv

\* MInv is inductive relative to IInv.
LEMMA NextMapped ==
    IInv /\ MInv /\ [Next]_vars => MInv'
<1> SUFFICES ASSUME IInv, MInv, [Next]_vars PROVE MInv'
  BY Zenon
<1>1. CASE Clients
  <2>1. CASE DeleteMapping \/ Touch
    BY <2>1, ElsewhereMapped, Zenon DEF DeleteMapping, Touch, configVars
  <2>2. QED
    BY <1>1, <2>1, ClientMapped, Zenon DEF Clients
<1>2. CASE Service \/ ServiceFails
  <2>1. UNCHANGED configVars /\ lost' = lost /\ (cm' = cm \/ cm' = getProtobufConfigMap)
    BY <1>2, Zenon DEF Service, ServiceStarts, WriteProtobufConfigMap, Write,
                CreateProtobufConfigMapIfNotExist, findDeserializationConfigMaps,
                NewAkhqDeployment, StoreVersion, ServiceFails, rest
  <2>2. cm'.entries = cm.entries
    BY <2>1, Zenon DEF IInv, TypeOK, getProtobufConfigMap, ProtobufConfigMap, Mappings
  <2>3. QED
    BY <2>1, <2>2, ElsewhereMapped, Zenon DEF configVars
<1>3. ASSUME NEW c \in Configs, Reconcile(c) PROVE MInv'
  <2>1. CASE Apply(c)
    BY <2>1, AddFinalizerMapped, ApplyMapped, CreateMapped, StoreMapped, CompressMapped,
       BinaryMapped, UpdateMappingMapped, Zenon DEF Apply
  <2>2. QED
    BY <1>3, <2>1, GetMapped, RemoveMapped, Zenon DEF Reconcile
<1>4. ASSUME NEW c \in Configs, ConfigFails(c) PROVE MInv'
  BY <1>4, ErrorKeepsFiles, Zenon DEF ConfigFails
<1>5. CASE UNCHANGED vars
  BY <1>5, ElsewhereMapped, Zenon DEF vars, configVars
<1>6. QED
  BY <1>1, <1>2, <1>3, <1>4, <1>5, CrashMapped, Zenon DEF Next

-----------------------------------------------------------------------------
(* Nobody is forgotten *)

\* Without another cycle to come, the present one applies a resource that is not
\* being deleted, and the last one has told what came of it.
Answered(c) ==
    ~queued[c] =>
        /\ pc[c] = "idle" \/ pc[c] \in {"finalizer", "apply"} \/ Applying(c) =>
              ~akhq[c].deleting
        /\ pc[c] = "idle" /\ akhq[c].there => akhq[c].status \in {"invalid", "processed"}

AllAnswered == \A c \in Configs : Answered(c)

\* A step of one resource has to be looked at only for that resource.
LEMMA AnsweredStep ==
    ASSUME AllAnswered, NEW c \in Configs, Answered(c)',
           \A d \in Configs \ {c} :
               pc'[d] = pc[d] /\ queued'[d] = queued[d] /\ akhq'[d] = akhq[d]
    PROVE  AllAnswered'
<1>1. ASSUME NEW d \in Configs, d # c PROVE Answered(d)'
  <2>1. pc'[d] = pc[d] /\ queued'[d] = queued[d] /\ akhq'[d] = akhq[d]
    BY <1>1, Zenon
  <2>2. QED
    BY <2>1, Zenon DEF AllAnswered, Answered, Applying
<1>2. QED
  BY <1>1, Zenon DEF AllAnswered

\* After an edit, a deletion or an error there is another cycle.
LEMMA QueuedAnswered ==
    ASSUME MInv, AllAnswered, NEW c \in Configs, queued' = [queued EXCEPT ![c] = TRUE],
           \A d \in Configs \ {c} : pc'[d] = pc[d] /\ akhq'[d] = akhq[d]
    PROVE  AllAnswered'
<1>1. queued'[c] /\ \A d \in Configs \ {c} : queued'[d] = queued[d]
  BY Zenon DEF MInv
<1>2. Answered(c)'
  BY <1>1, Zenon DEF Answered
<1>3. QED
  BY <1>1, <1>2, AnsweredStep, Zenon

\* So there is when a cycle ends with an error.
LEMMA ErrorAnswered ==
    ASSUME IInv, MInv, AllAnswered, NEW c \in Configs, Requeue(c) \/ Failed(c)
    PROVE  AllAnswered'
<1>1. /\ Ends(c, TRUE) /\ TRUE \in BOOLEAN
      /\ akhq' = akhq \/ updateCrStatus(c, "problem")
  BY Zenon DEF Requeue, Failed
<1>2. \A d \in Configs \ {c} : pc'[d] = pc[d]
  BY <1>1, EndTypes, Zenon DEF IInv
<1>3. \A d \in Configs \ {c} : akhq'[d] = akhq[d]
  BY <1>1, StatusFields, Zenon DEF IInv, Statuses
<1>4. queued' = [queued EXCEPT ![c] = TRUE]
  <2>1. queued' = [queued EXCEPT ![c] = queued[c] \/ TRUE]
    BY <1>1, Zenon DEF Ends
  <2>2. (queued[c] \/ TRUE) = TRUE
    OBVIOUS
  <2>3. QED
    BY <2>1, <2>2, Zenon
<1>5. QED
  BY <1>2, <1>3, <1>4, QueuedAnswered, Zenon

\* A step of an application, or of a deletion, to the next one.
LEMMA GoOnAnswered ==
    ASSUME IInv, AllAnswered, NEW c \in Configs, NEW from, NEW to,
           pc[c] = from, pc' = [pc EXCEPT ![c] = to], queued' = queued,
           akhq'[c].deleting = akhq[c].deleting,
           \A d \in Configs \ {c} : akhq'[d] = akhq[d],
           \/ {from, to} \subseteq {"finalizer", "apply", "create", "binary", "gzip", "read"}
           \/ to \in {"unbinary", "unfinalize"}
    PROVE  AllAnswered'
<1>1. pc'[c] = to /\ \A d \in Configs \ {c} : pc'[d] = pc[d]
  BY Zenon DEF IInv, TypeOK
<1>2. Answered(c)
  BY Zenon DEF AllAnswered
<1>3. Answered(c)'
  BY <1>1, <1>2, Zenon DEF Answered, Applying
<1>4. QED
  BY <1>1, <1>3, AnsweredStep, Zenon

\* A cycle tells that the resource is invalid, or starts to work on it.
LEMMA GetAnswered ==
    ASSUME IInv, MInv, AllAnswered, NEW c \in Configs, Get(c)
    PROVE  AllAnswered'
<1>1. pc[c] = "idle" /\ queued' = [queued EXCEPT ![c] = FALSE]
  BY Zenon DEF Get
<1>2. \A d \in Configs \ {c} : queued'[d] = queued[d]
  BY <1>1, Zenon DEF MInv
<1>3. pc \in [Configs -> Labels]
  BY Zenon DEF IInv, TypeOK
<1>4. ~akhq[c].there => ~akhq[c].deleting
  BY Zenon DEF IInv, Guarded
<1>5. Answered(c)' /\ \A d \in Configs \ {c} : pc'[d] = pc[d] /\ akhq'[d] = akhq[d]
  <2>1. CASE ~akhq[c].there /\ UNCHANGED <<akhq, pc, run>>
    BY <1>4, <2>1, Zenon DEF Answered
  <2>2. CASE pc' = [pc EXCEPT ![c] = "delete"] /\ UNCHANGED akhq
    BY <1>3, <2>2, Zenon DEF Answered, Applying
  <2>3. CASE akhq[c].there /\ ~akhq[c].deleting /\ updateCrStatus(c, "invalid") /\ UNCHANGED pc
    <3>1. /\ akhq'[c].deleting = akhq[c].deleting /\ akhq'[c].status = "invalid"
          /\ \A d \in Configs \ {c} : akhq'[d] = akhq[d]
      BY <2>3, StatusFields, Zenon DEF IInv, Statuses
    <3>2. QED
      BY <2>3, <3>1, Zenon DEF Answered
  <2>4. CASE /\ ~akhq[c].deleting /\ UNCHANGED akhq
             /\ pc' = [pc EXCEPT ![c] = IF akhq[c].finalizer THEN "apply" ELSE "finalizer"]
    <3>1. pc'[c] # "idle" /\ \A d \in Configs \ {c} : pc'[d] = pc[d]
      BY <1>3, <2>4, Zenon
    <3>2. QED
      BY <2>4, <3>1, Zenon DEF Answered
  <2>5. QED
    BY <2>1, <2>2, <2>3, <2>4, Zenon DEF Get
<1>6. QED
  BY <1>2, <1>5, AnsweredStep, Zenon

\* A resource is shown as processed by a cycle that still has it.
LEMMA ProcessedAnswered ==
    ASSUME IInv, MInv, AllAnswered, NEW c \in Configs, Applying(c), Processed(c)
    PROVE  AllAnswered'
<1>1. /\ Ends(c, ~akhq[c].there) /\ (~akhq[c].there) \in BOOLEAN
      /\ updateCrStatus(c, "processed")
  BY Zenon DEF Processed
<1>2. pc'[c] = "idle" /\ \A d \in Configs \ {c} : pc'[d] = pc[d]
  BY <1>1, EndTypes, Zenon DEF IInv
<1>3. /\ queued'[c] = (queued[c] \/ ~akhq[c].there)
      /\ \A d \in Configs \ {c} : queued'[d] = queued[d]
  BY <1>1, EndQueued, Zenon
<1>4. /\ akhq'[c].deleting = akhq[c].deleting
      /\ akhq[c].there => akhq'[c].status = "processed"
      /\ \A d \in Configs \ {c} : akhq'[d] = akhq[d]
  BY <1>1, StatusFields, Zenon DEF IInv, Statuses
<1>5. ASSUME ~queued'[c] PROVE ~queued[c] /\ akhq[c].there
  BY <1>3, <1>5, Zenon
<1>6. ~queued[c] => ~akhq[c].deleting
  BY Zenon DEF AllAnswered, Answered
<1>7. Answered(c)'
  BY <1>2, <1>4, <1>5, <1>6, Zenon DEF Answered, Applying
<1>8. QED
  BY <1>2, <1>3, <1>4, <1>7, AnsweredStep, Zenon

\* No step of an application forgets the resource.
LEMMA ApplyAnswered ==
    ASSUME IInv, MInv, AllAnswered, NEW c \in Configs, Apply(c)
    PROVE  AllAnswered'
<1>1. CASE Requeue(c) \/ Failed(c)
  BY <1>1, ErrorAnswered, Zenon
<1>2. CASE AddFinalizer(c) /\ run[c].unchanged
  <2>1. /\ pc[c] = "finalizer" /\ pc' = [pc EXCEPT ![c] = "apply"] /\ queued' = queued
        /\ akhq' = [akhq EXCEPT ![c].finalizer = TRUE]
    BY <1>2, Zenon DEF AddFinalizer, Step
  <2>2. akhq'[c].deleting = akhq[c].deleting /\ \A d \in Configs \ {c} : akhq'[d] = akhq[d]
    BY <2>1, Zenon DEF IInv, TypeOK, Resources
  <2>3. QED
    BY <2>1, <2>2, GoOnAnswered, Zenon
<1>3. CASE applyConfig(c)
  <2>1. /\ pc[c] = "apply" /\ pc' = [pc EXCEPT ![c] = "create"]
        /\ UNCHANGED <<akhq, queued>>
    BY <1>3, Zenon DEF applyConfig, Step
  <2>2. QED
    BY <2>1, GoOnAnswered, Zenon
<1>4. CASE storeBytesToTmpFile(c)
  <2>1. /\ pc[c] = "binary" /\ pc' = [pc EXCEPT ![c] = "gzip"]
        /\ UNCHANGED <<akhq, queued>>
    BY <1>4, Zenon DEF storeBytesToTmpFile, Step
  <2>2. QED
    BY <2>1, GoOnAnswered, Zenon
<1>5. CASE compressBytesFromTmpFile(c) /\ tmp # NoContent
  <2>1. /\ pc[c] = "gzip" /\ pc' = [pc EXCEPT ![c] = "read"] /\ UNCHANGED <<akhq, queued>>
    BY <1>5, Zenon DEF compressBytesFromTmpFile, Step
  <2>2. QED
    BY <2>1, GoOnAnswered, Zenon
<1>6. CASE applyBinaryConfigMap(c) /\ gz # NoContent
  <2>1. /\ pc[c] = "read" /\ pc' = [pc EXCEPT ![c] = "binary"] /\ UNCHANGED <<akhq, queued>>
    BY <1>6, Zenon DEF applyBinaryConfigMap, Step
  <2>2. QED
    BY <2>1, GoOnAnswered, Zenon
<1>7. CASE pc[c] = "binary" /\ Processed(c)
  BY <1>7, ProcessedAnswered, Zenon DEF Applying
<1>8. CASE Step(c, "create", "binary") /\ UNCHANGED <<akhq, queued>>
  BY <1>8, GoOnAnswered, Zenon DEF Step
<1>9. QED
  BY <1>1, <1>2, <1>3, <1>4, <1>5, <1>6, <1>7, <1>8, Zenon
     DEF Apply, AddFinalizer, CreateMapping, compressBytesFromTmpFile, applyBinaryConfigMap, UpdateMapping

\* Nor does one of a deletion.
LEMMA RemoveAnswered ==
    ASSUME IInv, MInv, AllAnswered, NEW c \in Configs, Remove(c)
    PROVE  AllAnswered'
<1>1. CASE Requeue(c)
  BY <1>1, ErrorAnswered, Zenon
<1>2. CASE Step(c, "delete", "unbinary") /\ UNCHANGED <<akhq, queued>>
  BY <1>2, GoOnAnswered, Zenon DEF Step
<1>3. CASE deleteBinaryConfigMap(c)
  <2>1. UNCHANGED <<akhq, queued, pc>>
    BY <1>3, Zenon DEF deleteBinaryConfigMap
  <2>2. QED
    BY <2>1, Zenon DEF AllAnswered, Answered, Applying
<1>4. CASE Step(c, "unbinary", "unfinalize") /\ UNCHANGED <<akhq, queued>>
  BY <1>4, GoOnAnswered, Zenon DEF Step
<1>5. CASE RemoveFinalizer(c)
  <2>1. /\ pc' = [pc EXCEPT ![c] = "idle"] /\ akhq' = [akhq EXCEPT ![c] = NoResource]
        /\ queued' = [queued EXCEPT ![c] = TRUE]
    BY <1>5, Zenon DEF RemoveFinalizer, Step
  <2>2. \A d \in Configs \ {c} : pc'[d] = pc[d] /\ akhq'[d] = akhq[d]
    BY <2>1, Zenon DEF IInv, TypeOK
  <2>3. QED
    BY <2>1, <2>2, QueuedAnswered, Zenon
<1>6. QED
  BY <1>1, <1>2, <1>3, <1>4, <1>5, Zenon DEF Remove, deleteConfig, DeleteEntries

\* Nor do the clients and the faults.
LEMMA NextAnswered ==
    IInv /\ MInv /\ AllAnswered /\ [Next]_vars => AllAnswered'
<1> SUFFICES ASSUME IInv, MInv, AllAnswered, [Next]_vars PROVE AllAnswered'
  BY Zenon
<1>1. CASE UNCHANGED configVars
  <2>1. UNCHANGED <<akhq, queued, pc>>
    BY <1>1, Zenon DEF configVars
  <2>2. QED
    BY <2>1, Zenon DEF AllAnswered, Answered, Applying
<1>2. ASSUME NEW c \in Configs, EditResource(c) \/ DeleteResource(c) PROVE AllAnswered'
  <2>1. queued' = [queued EXCEPT ![c] = TRUE] /\ UNCHANGED pc
    BY <1>2, Zenon DEF EditResource, DeleteResource, Changed
  <2>2. \A d \in Configs \ {c} : akhq'[d] = akhq[d]
    BY <1>2, Zenon DEF EditResource, DeleteResource, IInv, TypeOK
  <2>3. QED
    BY <2>1, <2>2, QueuedAnswered, Zenon
<1>3. ASSUME NEW c \in Configs, Reconcile(c) PROVE AllAnswered'
  BY <1>3, GetAnswered, ApplyAnswered, RemoveAnswered, Zenon DEF Reconcile
<1>4. ASSUME NEW c \in Configs, ConfigFails(c) PROVE AllAnswered'
  BY <1>4, ErrorAnswered, Zenon DEF ConfigFails
<1>5. CASE Crash
  <2>1. /\ queued' = [c \in Configs |-> akhq[c].there] /\ akhq' = akhq
        /\ \A c \in Configs : ~akhq[c].there => ~akhq[c].deleting
    BY <1>5, Zenon DEF Crash, IInv, Guarded
  <2>2. QED
    BY <2>1, Zenon DEF AllAnswered, Answered
<1>6. QED
  BY <1>1, <1>2, <1>3, <1>4, <1>5, Zenon
     DEF Next, Clients, DeleteMapping, Touch, Service, ServiceStarts, WriteProtobufConfigMap,
         findDeserializationConfigMaps, NewAkhqDeployment, StoreVersion, ServiceFails, vars

\* At first the resources that exist are in the queue.
LEMMA InitAnswered ==
    Init => AllAnswered
<1> SUFFICES ASSUME Init, NEW c \in Configs PROVE Answered(c)
  BY Zenon DEF AllAnswered
<1>1. CASE c \in Applied
  <2>1. queued[c]
    BY <1>1, Zenon DEF Init
  <2>2. QED
    BY <2>1, Zenon DEF Answered
<1>2. CASE c \notin Applied
  <2>1. akhq[c] = NoResource
    BY <1>2, Zenon DEF Init
  <2>2. ~akhq[c].there /\ ~akhq[c].deleting
    BY <2>1 DEF NoResource
  <2>3. QED
    BY <2>2, Zenon DEF Answered
<1>3. QED
  BY <1>1, <1>2, Zenon

\* A resource at rest is processed, rejected or gone.  If it is shown as
\* processed it has its entries in the mapping and, unless two compressions ever
\* overlapped, its descriptors in the maps: for every number of resources with
\* workers of their own, of expressions, of edits and of failures and restarts
\* of applyConfig at any point.
THEOREM ProcessedMeansMappedThm ==
    Spec => []ProcessedMeansMapped
<1>1. MInv /\ AllAnswered => ProcessedMeansMapped
  <2> SUFFICES ASSUME MInv, AllAnswered, NEW c \in Configs, Idle(c)
               PROVE  /\ Settled(c)
                      /\ akhq[c].status = "processed" /\ ~lost =>
                            /\ cm.entries[c] = akhq[c].spec
                            /\ ~mixed => \A r \in Regexes :
                                  akhq[c].spec[r] # 0 => desc[c][r] = <<c, akhq[c].spec[r]>>
    BY Zenon DEF ProcessedMeansMapped
  <2>1. Settled(c)
    BY Zenon DEF AllAnswered, Answered, Settled, Idle
  <2>2. Settles(c) /\ ~akhq[c].deleting
    BY <2>1, Zenon DEF MInv, Mapped, Settled
  <2>3. QED
    BY <2>1, <2>2, Zenon DEF Settles, Descriptors
<1>2. QED
  BY <1>1, InitMapped, NextMapped, InitAnswered, NextAnswered, Invariance, PTL DEF Spec

=============================================================================
