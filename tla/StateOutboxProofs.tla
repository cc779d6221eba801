------------------------- MODULE StateOutboxProofs -------------------------
(***************************************************************************)
(* Proofs about the state outbox, for any writers, drainers, regions and   *)
(* columns, any batch size and any number of changes and failures.         *)
(*                                                                         *)
(* The inductive invariant is TypeOK, OneDrainPerRow, DoneMeansReached and *)
(* what a drain remembers until its commit: a region that it counts as     *)
(* reached has been reached.                                               *)
(***************************************************************************)
EXTENDS StateOutbox, FiniteSetTheorems, TLAPS

(* A drain counts a region for a row only if the region is at that version *)
(* or a newer one.                                                         *)
GotMeansReached ==
  \A d \in Drainers, v \in Versions, r \in Regions :
    <<v, r>> \in drain[d].got => region[r].ver >= v

SafeInv == OneDrainPerRow /\ DoneMeansReached /\ GotMeansReached

---------------------------------------------------------------------------
(* Types.                                                                  *)

Writing == {w \in Writers : begun[w] # 0}

(* Everything starts empty.                                                *)
LEMMA TypeInit == Init => TypeOK
<1> SUFFICES ASSUME Init PROVE TypeOK
  OBVIOUS
<1> USE OutboxAssumption DEF Init
<1>1. {w \in Writers : begun[w] # 0} = {}
  OBVIOUS
<1>2. last + Cardinality({w \in Writers : begun[w] # 0}) <= started
  <2>1. Cardinality({w \in Writers : begun[w] # 0}) = 0
    BY <1>1, FS_EmptySet
  <2> QED BY <2>1
<1>3. row \in [Versions -> RowType]
  BY DEF Absent, RowType
<1>4. region \in [Regions -> [ver : Null..last, val : [Fields -> Null..last]]]
  BY DEF NoRow, Null, Unread
<1>5. drain \in [Drainers -> [batch : SUBSET Versions, tried : SUBSET Pairs, got : SUBSET Pairs]]
  BY DEF Closed, Pairs
<1>6. \A v \in Versions : row[v].state = "absent" <=> v > last
  BY DEF Absent, Versions
<1> QED
  BY <1>2, <1>3, <1>4, <1>5, <1>6 DEF TypeOK

(* A transaction that begins counts among the open ones; one that ends     *)
(* does not.                                                               *)
LEMMA WritingCounts ==
  ASSUME TypeOK, NEW w \in Writers
  PROVE /\ Cardinality(Writing) \in Nat
        /\ begun[w] # 0 => Cardinality(Writing \ {w}) = Cardinality(Writing) - 1
        /\ begun[w] = 0 => Cardinality(Writing \union {w}) = Cardinality(Writing) + 1
<1>1. IsFiniteSet(Writing)
  BY OutboxAssumption, FS_Subset DEF Writing
<1> QED
  BY <1>1, FS_CardinalityType, FS_AddElement, FS_RemoveElement DEF Writing

(* The requests that write the state.                                      *)
LEMMA TypeWriters ==
  ASSUME TypeOK, NEW w \in Writers,
         BeginWrite(w) \/ (\E fields \in Changes : CommitWrite(w, fields)) \/ AbandonWrite(w)
  PROVE TypeOK'
<1> USE OutboxAssumption
<1>0. last \in Nat /\ started \in Nat /\ Cardinality(Writing) \in Nat
  <2>1. last \in Nat /\ started \in Nat
    BY DEF TypeOK
  <2> QED BY <2>1, WritingCounts
<1>1. CASE BeginWrite(w)
  <2>1. begun' \in [Writers -> 0..MaxWrites] /\ started' \in 0..MaxWrites
    BY <1>1 DEF BeginWrite, TypeOK
  <2>2. {x \in Writers : begun'[x] # 0} = Writing \union {w}
    BY <1>1 DEF BeginWrite, TypeOK, Writing
  <2>3. last' + Cardinality({x \in Writers : begun'[x] # 0}) <= started'
    BY <1>0, <1>1, <2>2, WritingCounts DEF BeginWrite, TypeOK, Writing
  <2> QED
    BY <1>1, <2>1, <2>3 DEF BeginWrite, TypeOK
<1>2. ASSUME NEW fields \in Changes, CommitWrite(w, fields) PROVE TypeOK'
  <2>1. {x \in Writers : begun'[x] # 0} = Writing \ {w}
    BY <1>2 DEF CommitWrite, TypeOK, Writing
  <2>2. /\ begun' \in [Writers -> 0..MaxWrites]
        /\ last' + Cardinality({x \in Writers : begun'[x] # 0}) <= started'
    <3>1. begun[w] # 0 /\ last' = last + 1 /\ begun' = [begun EXCEPT ![w] = 0]
          /\ started' = started
      BY <1>2 DEF CommitWrite
    <3>2. Cardinality(Writing \ {w}) = Cardinality(Writing) - 1
      BY <3>1, WritingCounts
    <3>3. last + Cardinality(Writing) <= started
      BY DEF TypeOK, Writing
    <3>4. begun' \in [Writers -> 0..MaxWrites]
      BY <3>1 DEF TypeOK
    <3>5. last' + Cardinality(Writing \ {w}) <= started'
      BY <1>0, <3>1, <3>2, <3>3
    <3> QED BY <2>1, <3>4, <3>5
  <2>3. last' \in 0..MaxWrites /\ last' = last + 1 /\ last' \in Versions
    <3>1. Cardinality(Writing \ {w}) \in Nat
      BY OutboxAssumption, FS_Subset, FS_CardinalityType DEF Writing
    <3>2. last' = last + 1 /\ started' = started /\ started \in 0..MaxWrites
      BY <1>2 DEF CommitWrite, TypeOK
    <3>3. last' + Cardinality(Writing \ {w}) <= started'
      BY <2>1, <2>2
    <3> QED
      BY <1>0, <3>1, <3>2, <3>3 DEF Versions
  <2>4. org' \in [Fields -> 0..last']
    BY <1>2, <2>3 DEF CommitWrite, TypeOK
  <2>5. /\ row' \in [Versions -> RowType]
        /\ \A v \in Versions : row'[v].state = "absent" <=> v > last'
    <3>1. begun[w] \in 0..MaxWrites /\ fields \subseteq Fields
      BY OutboxAssumption DEF TypeOK
    <3> QED BY <1>2, <2>3, <3>1 DEF CommitWrite, TypeOK, RowType, Versions
  <2>6. region' \in [Regions -> [ver : Null..last', val : [Fields -> Null..last']]]
    <3>1. Null..last \subseteq Null..last'
      BY <2>3 DEF TypeOK, Null
    <3> QED BY <1>2, <3>1 DEF CommitWrite, TypeOK
  <2>7. seed' \in [Regions -> {Unread} \union [Fields -> 0..last']]
    <3>1. 0..last \subseteq 0..last'
      BY <2>3 DEF TypeOK
    <3>2. [Fields -> 0..last] \subseteq [Fields -> 0..last']
      BY <3>1
    <3> QED BY <1>2, <3>2 DEF CommitWrite, TypeOK
  <2> QED
    BY <1>2, <2>2, <2>3, <2>4, <2>5, <2>6, <2>7 DEF CommitWrite, TypeOK
<1>3. CASE AbandonWrite(w)
  <2>1. {x \in Writers : begun'[x] # 0} = Writing \ {w}
    BY <1>3 DEF AbandonWrite, TypeOK, Writing
  <2>2. begun' \in [Writers -> 0..MaxWrites]
    BY <1>3 DEF AbandonWrite, TypeOK
  <2>3. last' + Cardinality({x \in Writers : begun'[x] # 0}) <= started'
    <3>1. begun[w] # 0 /\ last' = last /\ started' = started
      BY <1>3 DEF AbandonWrite
    <3>2. Cardinality(Writing \ {w}) = Cardinality(Writing) - 1
      BY <3>1, WritingCounts
    <3>3. last + Cardinality(Writing) <= started
      BY DEF TypeOK, Writing
    <3>4. last' + Cardinality(Writing \ {w}) <= started'
      BY <1>0, <3>1, <3>2, <3>3
    <3> QED BY <2>1, <3>4
  <2> QED
    BY <1>3, <2>2, <2>3 DEF AbandonWrite, TypeOK
<1> QED
  BY <1>1, <1>2, <1>3

(* A drain's statement leaves the regions with versions that exist.        *)
LEMMA TypeApply ==
  ASSUME TypeOK, NEW v \in Versions, NEW r \in Regions, v <= last,
         ApplyVersionToRegion(v, r)
  PROVE region' \in [Regions -> [ver : Null..last, val : [Fields -> Null..last]]]
<1>1. v \in Null..last
  BY DEF TypeOK, Versions, Null
<1> QED
  BY <1>1 DEF ApplyVersionToRegion, TypeOK

DrainType == [batch : SUBSET Versions, tried : SUBSET Pairs, got : SUBSET Pairs]

(* What one statement of a drain changes of what the drain remembers.      *)
LEMMA DrainTries ==
  ASSUME TypeOK, NEW d \in Drainers, NEW v \in Versions, NEW r \in Regions,
         \/ drain' = [drain EXCEPT ![d].tried = @ \union {<<v, r>>}]
         \/ drain' = [drain EXCEPT ![d].tried = @ \union {<<v, r>>},
                                   ![d].got = @ \union {<<v, r>>}]
  PROVE /\ drain' \in [Drainers -> DrainType]
        /\ \A e \in Drainers : drain'[e].batch = drain[e].batch
        /\ \A e \in Drainers : drain'[e].got \subseteq drain[e].got \union {<<v, r>>}
        /\ drain' = [drain EXCEPT ![d].tried = @ \union {<<v, r>>}] =>
             \A e \in Drainers : drain'[e].got = drain[e].got
<1>1. drain \in [Drainers -> DrainType] /\ <<v, r>> \in Pairs
  BY DEF TypeOK, DrainType, Pairs
<1>2. CASE drain' = [drain EXCEPT ![d].tried = @ \union {<<v, r>>}]
  BY <1>1, <1>2 DEF DrainType
<1>3. CASE drain' = [drain EXCEPT ![d].tried = @ \union {<<v, r>>},
                                  ![d].got = @ \union {<<v, r>>}]
  <2> DEFINE both == [drain[d] EXCEPT !.tried = @ \union {<<v, r>>}, !.got = @ \union {<<v, r>>}]
  <2>1. both \in DrainType /\ both.batch = drain[d].batch
        /\ both.got = drain[d].got \union {<<v, r>>}
    BY <1>1 DEF DrainType
  <2>2. drain' = [drain EXCEPT ![d] = both]
    BY <1>1, <1>3 DEF DrainType
  <2>3. drain' = [drain EXCEPT ![d].tried = @ \union {<<v, r>>}] => drain'[d].got = drain[d].got
    BY <1>1 DEF DrainType
  <2> HIDE DEF both
  <2> QED BY <1>1, <2>1, <2>2, <2>3 DEF DrainType
<1> QED BY <1>2, <1>3

(* Every step keeps the types; a drain writes rows that are open.          *)
LEMMA TypeNext == TypeOK /\ OneDrainPerRow /\ [Next]_vars => TypeOK'
<1> SUFFICES ASSUME TypeOK, OneDrainPerRow, [Next]_vars PROVE TypeOK'
  OBVIOUS
<1> USE OutboxAssumption
<1>1. ASSUME NEW w \in Writers,
             BeginWrite(w) \/ (\E fields \in Changes : CommitWrite(w, fields)) \/ AbandonWrite(w)
      PROVE TypeOK'
  BY <1>1, TypeWriters
<1>2. ASSUME NEW r \in Regions, ReadSeed(r) PROVE TypeOK'
  BY <1>2 DEF ReadSeed, TypeOK, outboxVars
<1>3. ASSUME NEW r \in Regions, InsertSeed(r) PROVE TypeOK'
  <2>1. 0 \in Null..last /\ 0..last \subseteq Null..last
    BY DEF TypeOK, Null
  <2>2. seed[r] \in [Fields -> Null..last]
    BY <1>3, <2>1 DEF InsertSeed, TypeOK
  <2>3. region' \in [Regions -> [ver : Null..last, val : [Fields -> Null..last]]]
    BY <1>3, <2>1, <2>2 DEF InsertSeed, TypeOK
  <2> QED BY <1>3, <2>3 DEF InsertSeed, TypeOK, outboxVars
<1>4. ASSUME NEW d \in Drainers, SelectRows(d) PROVE TypeOK'
  <2>1. PICK batch \in SUBSET Available : drain' = [drain EXCEPT ![d].batch = batch]
    BY <1>4 DEF SelectRows
  <2>2. batch \subseteq Versions
    BY DEF Available
  <2>3. drain' \in [Drainers -> DrainType]
    <3>1. drain \in [Drainers -> DrainType]
      BY DEF TypeOK, DrainType
    <3>2. [drain[d] EXCEPT !.batch = batch] \in DrainType
      BY <2>2, <3>1 DEF DrainType
    <3> QED BY <2>1, <3>1, <3>2
  <2> QED BY <1>4, <2>3 DEF SelectRows, TypeOK, outboxVars, DrainType
<1>5. ASSUME NEW d \in Drainers, NEW v \in Versions, NEW r \in Regions,
             ApplySucceeds(d, v, r) \/ ApplyFails(d, v, r)
      PROVE TypeOK'
  <2>1. v <= last
    <3>1. v \in Locked
      BY <1>5 DEF ApplySucceeds, ApplyFails, Turn, Locked
    <3>2. row[v].state = "open"
      BY <3>1 DEF OneDrainPerRow
    <3> QED BY <3>2 DEF TypeOK, Versions
  <2>2. region' \in [Regions -> [ver : Null..last, val : [Fields -> Null..last]]]
    BY <1>5, <2>1, TypeApply DEF ApplySucceeds, ApplyFails, TypeOK
  <2>3. <<v, r>> \in Pairs
    BY DEF Pairs
  <2>4. drain' \in [Drainers -> DrainType]
    BY <1>5, <2>3, DrainTries DEF ApplySucceeds, ApplyFails
  <2>5. faults' \in 0..MaxFaults
    BY <1>5 DEF ApplySucceeds, ApplyFails, TypeOK
  <2> QED
    <3>1. org' = org /\ last' = last /\ row' = row /\ begun' = begun /\ started' = started
          /\ seed' = seed
      BY <1>5 DEF ApplySucceeds, ApplyFails, outboxVars
    <3> QED BY <2>2, <2>4, <2>5, <3>1 DEF TypeOK, DrainType
<1>6. ASSUME NEW d \in Drainers, CommitDrain(d) PROVE TypeOK'
  <2>1. ASSUME NEW v \in drain[d].batch
        PROVE Recorded(d, v) \in RowType /\ Recorded(d, v).state # "absent"
    <3>1. v \in Versions /\ row[v] \in RowType /\ row[v].state = "open"
      BY <2>1 DEF TypeOK, OneDrainPerRow, Locked
    <3> QED BY <3>1 DEF Recorded, RowType
  <2>2. row' \in [Versions -> RowType]
    BY <1>6, <2>1 DEF CommitDrain, TypeOK
  <2>3. \A v \in Versions : row'[v].state = "absent" <=> row[v].state = "absent"
    BY <1>6, <2>1 DEF CommitDrain, OneDrainPerRow, Locked
  <2>4. drain' \in [Drainers -> [batch : SUBSET Versions, tried : SUBSET Pairs,
                                 got : SUBSET Pairs]]
    BY <1>6 DEF CommitDrain, TypeOK, Closed
  <2> QED BY <1>6, <2>2, <2>3, <2>4 DEF CommitDrain, TypeOK
<1>7. ASSUME NEW d \in Drainers, AbandonDrain(d) PROVE TypeOK'
  BY <1>7 DEF AbandonDrain, TypeOK, outboxVars, Closed
<1>8. ASSUME NEW v \in Versions, Prune(v) PROVE TypeOK'
  <2>1. row' \in [Versions -> RowType]
    <3>1. row[v] \in RowType /\ row' = [row EXCEPT ![v] = [row[v] EXCEPT !.state = "pruned"]]
      BY <1>8 DEF Prune, TypeOK
    <3>2. [row[v] EXCEPT !.state = "pruned"] \in RowType
      BY <3>1 DEF RowType
    <3> QED BY <3>1, <3>2 DEF TypeOK
  <2>2. \A x \in Versions : row'[x].state = "absent" <=> row[x].state = "absent"
    BY <1>8 DEF Prune, TypeOK, RowType
  <2> QED BY <1>8, <2>1, <2>2 DEF Prune, TypeOK
<1>9. ASSUME UNCHANGED vars PROVE TypeOK'
  BY <1>9 DEF vars, outboxVars, TypeOK
<1> QED
  BY <1>1, <1>2, <1>3, <1>4, <1>5, <1>6, <1>7, <1>8, <1>9 DEF Next, Drain

---------------------------------------------------------------------------
(* A region's row only goes forward.                                       *)

(* Regions go forward.                                                     *)
Forward ==
  \A r \in Regions :
    /\ region'[r].ver >= region[r].ver
    /\ region'[r].ver = region[r].ver => region'[r] = region[r]

(* The guard on the version in the upsert.                                 *)
LEMMA ApplyForward ==
  ASSUME TypeOK, NEW v \in Versions, NEW r \in Regions, ApplyVersionToRegion(v, r)
  PROVE Forward /\ region'[r].ver >= v
<1>1. \A x \in Regions : region[x].ver \in Int
  BY DEF TypeOK, Null
<1> QED
  BY <1>1 DEF ApplyVersionToRegion, TypeOK, Forward, Versions

(* Every step moves every region forward, or leaves it.                    *)
LEMMA NextForward == TypeOK /\ [Next]_vars => Forward
<1> SUFFICES ASSUME TypeOK, [Next]_vars PROVE Forward
  OBVIOUS
<1>0. \A x \in Regions : region[x].ver \in Int
  BY DEF TypeOK, Null
<1>1. CASE UNCHANGED region
  BY <1>0, <1>1 DEF Forward
<1>2. ASSUME NEW r \in Regions, InsertSeed(r) PROVE Forward
  BY <1>0, <1>2 DEF InsertSeed, Forward, TypeOK, NoRow, Null
<1>3. ASSUME NEW d \in Drainers, NEW v \in Versions, NEW r \in Regions,
             ApplySucceeds(d, v, r) \/ ApplyFails(d, v, r)
      PROVE Forward
  BY <1>1, <1>3, ApplyForward DEF ApplySucceeds, ApplyFails
<1> QED
  BY <1>1, <1>2, <1>3
  DEF Next, vars, BeginWrite, CommitWrite, AbandonWrite, ReadSeed, Drain, SelectRows,
      CommitDrain, AbandonDrain, Prune

---------------------------------------------------------------------------
(* Safety.                                                                 *)

(* Nothing is held or done at first.                                       *)
LEMMA SafeInit == Init => SafeInv
BY DEF Init, SafeInv, OneDrainPerRow, DoneMeansReached, GotMeansReached, Locked, Closed, Absent

(* The locks: a drain takes rows that are open and not taken, and only its *)
(* commit closes them.                                                     *)
LEMMA LocksNext == TypeOK /\ OneDrainPerRow /\ [Next]_vars => OneDrainPerRow'
<1> SUFFICES ASSUME TypeOK, OneDrainPerRow, [Next]_vars PROVE OneDrainPerRow'
  OBVIOUS
<1> USE DEF OneDrainPerRow, Locked
<1>1. CASE UNCHANGED <<row, drain>>
  BY <1>1
<1>2. ASSUME NEW w \in Writers, NEW fields \in Changes, CommitWrite(w, fields)
      PROVE OneDrainPerRow'
  BY <1>2 DEF CommitWrite, TypeOK
<1>3. ASSUME NEW d \in Drainers, SelectRows(d) PROVE OneDrainPerRow'
  BY <1>3 DEF SelectRows, Available, TypeOK, outboxVars
<1>4. ASSUME NEW d \in Drainers, NEW v \in Versions, NEW r \in Regions,
             ApplySucceeds(d, v, r) \/ ApplyFails(d, v, r)
      PROVE OneDrainPerRow'
  <2>1. \A e \in Drainers : drain'[e].batch = drain[e].batch
    BY <1>4, DrainTries DEF ApplySucceeds, ApplyFails
  <2> QED BY <1>4, <2>1 DEF ApplySucceeds, ApplyFails, outboxVars
<1>5. ASSUME NEW d \in Drainers, CommitDrain(d) PROVE OneDrainPerRow'
  <2>1. \A e \in Drainers : drain'[e].batch = IF e = d THEN {} ELSE drain[e].batch
    BY <1>5 DEF CommitDrain, TypeOK, Closed
  <2>2. ASSUME NEW e \in Drainers, NEW v \in drain'[e].batch PROVE row'[v].state = "open"
    BY <1>5, <2>1, <2>2 DEF CommitDrain, TypeOK
  <2> QED BY <2>1, <2>2
<1>6. ASSUME NEW d \in Drainers, AbandonDrain(d) PROVE OneDrainPerRow'
  BY <1>6 DEF AbandonDrain, TypeOK, Closed, outboxVars
<1>7. ASSUME NEW v \in Versions, Prune(v) PROVE OneDrainPerRow'
  BY <1>7 DEF Prune, TypeOK
<1> QED
  BY <1>1, <1>2, <1>3, <1>4, <1>5, <1>6, <1>7
  DEF Next, vars, outboxVars, BeginWrite, AbandonWrite, ReadSeed, InsertSeed, Drain

(* What was reached stays reached, and only what was got is recorded.      *)
LEMMA ReachedNext ==
  TypeOK /\ SafeInv /\ [Next]_vars => DoneMeansReached' /\ GotMeansReached'
<1> SUFFICES ASSUME TypeOK, SafeInv, [Next]_vars
             PROVE DoneMeansReached' /\ GotMeansReached'
  OBVIOUS
<1> USE DEF SafeInv
<1>0. /\ Forward
      /\ \A r \in Regions : region[r].ver \in Int /\ region'[r].ver \in Int
      /\ Versions \subseteq Int
  BY NextForward, TypeNext DEF TypeOK, Null, Versions
<1>1. ASSUME NEW v \in Versions, NEW r \in Regions, region[r].ver >= v
      PROVE region'[r].ver >= v
  BY <1>0, <1>1 DEF Forward
<1>2. CASE UNCHANGED <<row, drain>>
  BY <1>1, <1>2 DEF DoneMeansReached, GotMeansReached
<1>3. ASSUME NEW w \in Writers, NEW fields \in Changes, CommitWrite(w, fields)
      PROVE DoneMeansReached' /\ GotMeansReached'
  BY <1>1, <1>3 DEF CommitWrite, TypeOK, DoneMeansReached, GotMeansReached
<1>4. ASSUME NEW d \in Drainers, SelectRows(d) \/ AbandonDrain(d)
      PROVE DoneMeansReached' /\ GotMeansReached'
  <2>1. row' = row /\ region' = region
    BY <1>4 DEF SelectRows, AbandonDrain, outboxVars
  <2>2. \A e \in Drainers : drain'[e].got \subseteq drain[e].got
    BY <1>4 DEF SelectRows, AbandonDrain, Closed, TypeOK
  <2> QED BY <2>1, <2>2 DEF DoneMeansReached, GotMeansReached
<1>5. ASSUME NEW d \in Drainers, NEW v \in Versions, NEW r \in Regions, ApplySucceeds(d, v, r)
      PROVE DoneMeansReached' /\ GotMeansReached'
  <2>1. region'[r].ver >= v
    BY <1>5, ApplyForward DEF ApplySucceeds
  <2>2. \A e \in Drainers : drain'[e].got \subseteq drain[e].got \union {<<v, r>>}
    BY <1>5, DrainTries DEF ApplySucceeds
  <2>3. GotMeansReached'
    BY <1>1, <2>1, <2>2 DEF GotMeansReached
  <2> QED BY <1>1, <1>5, <2>3 DEF ApplySucceeds, outboxVars, DoneMeansReached
<1>6. ASSUME NEW d \in Drainers, NEW v \in Versions, NEW r \in Regions, ApplyFails(d, v, r)
      PROVE DoneMeansReached' /\ GotMeansReached'
  <2>1. \A e \in Drainers : drain'[e].got = drain[e].got
    BY <1>6, DrainTries DEF ApplyFails
  <2> QED BY <1>1, <1>6, <2>1 DEF ApplyFails, outboxVars, DoneMeansReached, GotMeansReached
<1>7. ASSUME NEW d \in Drainers, CommitDrain(d) PROVE DoneMeansReached' /\ GotMeansReached'
  <2>1. ASSUME NEW v \in Versions, NEW r \in Regions, v \in drain[d].batch,
               r \in Recorded(d, v).applied \/ Recorded(d, v).state = "done"
        PROVE region[r].ver >= v
    <3>1. row[v] \in RowType /\ row[v].state = "open"
      BY <2>1 DEF TypeOK, OneDrainPerRow, Locked
    <3>2. r \in row[v].applied \/ <<v, r>> \in drain[d].got
      BY <2>1, <3>1 DEF Recorded, RowType
    <3> QED BY <3>2 DEF DoneMeansReached, GotMeansReached
  <2>2. ASSUME NEW v \in Versions, v \in drain[d].batch
        PROVE Recorded(d, v).state \in {"open", "done"}
    BY <2>2 DEF TypeOK, RowType, OneDrainPerRow, Locked, Recorded
  <2>3. DoneMeansReached'
    BY <1>1, <1>7, <2>1, <2>2 DEF CommitDrain, DoneMeansReached
  <2>4. GotMeansReached'
    BY <1>1, <1>7 DEF CommitDrain, GotMeansReached, TypeOK, Closed
  <2> QED BY <2>3, <2>4
<1>8. ASSUME NEW v \in Versions, Prune(v) PROVE DoneMeansReached' /\ GotMeansReached'
  BY <1>1, <1>8 DEF Prune, TypeOK, RowType, DoneMeansReached, GotMeansReached
<1> QED
  BY <1>2, <1>3, <1>4, <1>5, <1>6, <1>7, <1>8
  DEF Next, vars, outboxVars, BeginWrite, AbandonWrite, ReadSeed, InsertSeed, Drain

(* The inductive invariant.                                                *)
LEMMA Inductive == Spec => [](TypeOK /\ SafeInv)
<1>1. Init => TypeOK /\ SafeInv
  BY TypeInit, SafeInit
<1>2. TypeOK /\ SafeInv /\ [Next]_vars => (TypeOK /\ SafeInv)'
  BY TypeNext, LocksNext, ReachedNext DEF SafeInv
<1> QED
  BY <1>1, <1>2, PTL DEF Spec

(* The tables keep their shapes, for any number of transactions.           *)
THEOREM OutboxTypes == Spec => []TypeOK
BY Inductive, PTL

(* FOR UPDATE SKIP LOCKED gives a row to one drain (state-outbox-drain.ts).*)
THEOREM DrainsAreExclusive == Spec => []OneDrainPerRow
<1>1. TypeOK /\ SafeInv => OneDrainPerRow
  BY DEF SafeInv
<1> QED BY <1>1, Inductive, PTL

(* A row that a drain closed has reached every region, whatever failed     *)
(* (state-outbox-drain.ts).                                                *)
THEOREM DoneIsEverywhere == Spec => []DoneMeansReached
<1>1. TypeOK /\ SafeInv => DoneMeansReached
  BY DEF SafeInv
<1> QED BY <1>1, Inductive, PTL

(* No late drain and no cold start takes a region's row back               *)
(* (state-outbox-drain.ts, quota-enforcement.ts).                          *)
THEOREM RegionsGoForward == Spec => NeverBack
<1>1. TypeOK /\ [Next]_vars => [\A r \in Regions :
         /\ region'[r].ver >= region[r].ver
         /\ region'[r].ver = region[r].ver => region'[r] = region[r]]_vars
  BY NextForward DEF Forward
<1> QED BY <1>1, Inductive, PTL DEF Spec, NeverBack

=============================================================================
