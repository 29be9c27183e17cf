-------------------------- MODULE CheckpointProofs --------------------------
(***************************************************************************)
(* For every set of nodes, hosts, states and damage: what a wired node     *)
(* holds is a checkpoint captured as it is for its agent, all it ever      *)
(* restored was sealed by one key, and a migration is logged on both ends  *)
(* if the target went on with what it was sent, and else by nobody.        *)
(***************************************************************************)
EXTENDS Checkpoint, FiniteSetTheorems, TLAPS

\* Every key a node accepted is the one it has pinned.
HeardIsPinned == \A n \in Wired : heard[n] \subseteq {pin[n]}

IInv == TypeOK /\ SealsAreMade /\ HeldWasCaptured /\ HeardIsPinned

-----------------------------------------------------------------------------
(* Restoring, whichever way the blob came.                                 *)

\* Damage keeps a blob a blob and makes no seal that capture did not make.
LEMMA DamageMakesNoSeal ==
    ASSUME NEW b \in Blob, NEW c \in Damaged(b), Made(b.seal)
    PROVE  c \in Blob /\ Made(c.seal)
BY DEF Damaged, Made, Blob, Seal

\* A blob a wired node accepts is genuine: its seal was made by capture.
LEMMA AcceptedIsGenuine ==
    ASSUME NEW n \in Wired, NEW b \in Blob, Made(b.seal), Accepts(n, b)
    PROVE  b.agent = Hosts[n] /\ b.seal \in signed /\ SealHolds(b)
BY DEF Accepts, Made, SealHolds

\* Restoring leaves types right.
LEMMA RestoredTyped ==
    ASSUME TypeOK, NEW n \in Node, NEW b \in Blob, Restored(n, b)
    PROVE  /\ current' \in [Node -> Blob \cup {None}]
           /\ pin' \in [Node -> Key \cup {None}]
           /\ heard' \in [Node -> SUBSET Key]
<1>1. b.seal # None => b.seal \in Seal /\ b.seal.key \in Key
    BY DEF Blob, Seal
<1>2. PinAfter(n, b) \in Key \cup {None}
    BY <1>1 DEF TypeOK, PinAfter, Examined
<1> QED
    BY <1>1, <1>2 DEF TypeOK, Restored

\* Restoring a blob whose seal was made leaves the node with a genuine
\* checkpoint, sealed by the key it has pinned.
LEMMA RestoredKeeps ==
    ASSUME IInv, NEW n \in Node, NEW b \in Blob, Made(b.seal),
           Restored(n, b), signed' = signed
    PROVE  /\ \A k \in Node : (current[k] # None => Made(current[k].seal))'
           /\ HeldWasCaptured'
           /\ HeardIsPinned'
<1>1. \A k \in Node : current'[k] = IF k = n /\ Accepts(n, b) THEN b ELSE current[k]
    BY DEF IInv, TypeOK, Restored
<1>2. \A k \in Node : (current[k] # None => Made(current[k].seal))'
    BY <1>1 DEF IInv, SealsAreMade, Made
<1>3. HeldWasCaptured'
    <2> SUFFICES ASSUME NEW k \in Wired, current'[k] # None
                 PROVE  /\ current'[k].agent = Hosts[k]
                        /\ current'[k].seal \in signed
                        /\ SealHolds(current'[k])
        BY DEF HeldWasCaptured, SealHolds
    <2>1. CASE k = n /\ Accepts(n, b)
        BY <2>1, <1>1, AcceptedIsGenuine
    <2>2. CASE ~(k = n /\ Accepts(n, b))
        BY <2>2, <1>1, CheckpointAssumption DEF IInv, HeldWasCaptured
    <2> QED
        BY <2>1, <2>2
<1>4. HeardIsPinned'
    <2> SUFFICES ASSUME NEW k \in Wired PROVE heard'[k] \subseteq {pin'[k]}
        BY DEF HeardIsPinned
    <2>1. k \in Node
        BY CheckpointAssumption
    <2>2. CASE k # n
        BY <2>1, <2>2 DEF IInv, TypeOK, HeardIsPinned, Restored
    <2>3. CASE k = n
        <3>1. pin'[n] = PinAfter(n, b)
            BY DEF IInv, TypeOK, Restored
        <3>2. CASE Accepts(n, b)
            <4>1. b.seal # None /\ b.agent = Hosts[n] /\ PinAllows(n, b.seal.key)
                BY <2>3, <3>2 DEF Accepts
            <4>2. pin'[n] = b.seal.key
                BY <2>3, <3>1, <4>1 DEF PinAfter, Examined, PinAllows
            <4>3. heard'[n] = heard[n] \cup {b.seal.key}
                BY <3>2, <4>1 DEF IInv, TypeOK, Restored
            <4>4. heard[n] \subseteq {b.seal.key}
                BY <2>3, <4>1, CheckpointAssumption
                    DEF IInv, TypeOK, HeardIsPinned, PinAllows, Key
            <4> QED
                BY <2>3, <4>2, <4>3, <4>4
        <3>3. CASE ~Accepts(n, b)
            <4>1. heard'[n] = heard[n]
                BY <3>3 DEF IInv, TypeOK, Restored
            <4>2. pin[n] = None => heard[n] = {}
                BY <2>3, CheckpointAssumption DEF IInv, TypeOK, HeardIsPinned, Key
            <4>3. pin[n] # None => pin'[n] = pin[n]
                BY <3>1 DEF PinAfter
            <4> QED
                BY <2>3, <4>1, <4>2, <4>3 DEF IInv, HeardIsPinned
        <3> QED
            BY <3>2, <3>3
    <2> QED
        BY <2>2, <2>3
<1> QED
    BY <1>2, <1>3, <1>4

-----------------------------------------------------------------------------
(* One lemma for the actions that can disturb each conjunct.               *)

\* Fresh nodes hold nothing and have pinned nobody.
LEMMA InitEstablishes == Init => IInv
<1> SUFFICES ASSUME Init PROVE IInv
    OBVIOUS
<1>1. TypeOK
    BY CheckpointAssumption DEF Init, TypeOK
<1>2. SealsAreMade
    BY DEF Init, SealsAreMade
<1>3. HeldWasCaptured /\ HeardIsPinned
    BY CheckpointAssumption DEF Init, HeldWasCaptured, HeardIsPinned
<1> QED
    BY <1>1, <1>2, <1>3 DEF IInv

\* A capture seals what it holds.
LEMMA CapturePreserves ==
    ASSUME IInv, NEW n \in Node, NEW p \in Payload, Capture(n, p)
    PROVE  IInv'
<1> DEFINE b == [agent |-> Hosts[n], payload |-> p,
                 seal |-> IF n \in Wired THEN SealOf(n, p) ELSE None]
<1>1. SealOf(n, p) \in Seal /\ Hosts[n] \in Agent /\ b \in Blob
    BY CheckpointAssumption DEF SealOf, Seal, Key, Blob
<1>2. /\ current' = [current EXCEPT ![n] = b]
      /\ signed' = IF n \in Wired THEN signed \cup {SealOf(n, p)} ELSE signed
      /\ audit' = [audit EXCEPT ![n]["checkpoint"] = @ + 1]
      /\ UNCHANGED <<pin, live, media, shards, heard>>
    BY DEF Capture
<1> HIDE DEF b
<1>3. b.agent = Hosts[n] /\ b.payload = p
      /\ b.seal = IF n \in Wired THEN SealOf(n, p) ELSE None
    BY DEF b
<1>4. TypeOK'
    <2>1. audit' \in [Node -> [Kinds -> Nat]]
        BY <1>2 DEF IInv, TypeOK, Kinds
    <2> QED
        BY <1>1, <1>2, <2>1 DEF IInv, TypeOK
<1>5. \A s : Made(s) => Made(s)'
    BY <1>2 DEF Made
<1>6. \A k \in Node : current'[k] = IF k = n THEN b ELSE current[k]
    BY <1>2 DEF IInv, TypeOK
<1>7. SealsAreMade'
    BY <1>2, <1>3, <1>5, <1>6 DEF IInv, SealsAreMade, Made
<1>8. HeldWasCaptured'
    <2> SUFFICES ASSUME NEW k \in Wired, current'[k] # None
                 PROVE  /\ current'[k].agent = Hosts[k]
                        /\ current'[k].seal \in signed'
                        /\ SealHolds(current'[k])
        BY DEF HeldWasCaptured, SealHolds
    <2>1. CASE k = n
        BY <2>1, <1>2, <1>3, <1>6, CheckpointAssumption DEF SealHolds, SealOf
    <2>2. CASE k # n
        BY <2>2, <1>2, <1>6, CheckpointAssumption DEF IInv, HeldWasCaptured
    <2> QED
        BY <2>1, <2>2
<1>9. HeardIsPinned'
    BY <1>2 DEF IInv, HeardIsPinned
<1> QED
    BY <1>4, <1>7, <1>8, <1>9 DEF IInv

\* Storing, encoding and authorizing copies leave every blob as it is.
LEMMA KeepingPreserves ==
    ASSUME IInv, NEW n \in Node, Store(n) \/ Encode(n) \/ AuthorizeCopy(n)
    PROVE  IInv'
<1>1. CASE Store(n)
    BY <1>1 DEF Store, replicator, IInv, TypeOK, SealsAreMade, Made,
                HeldWasCaptured, SealHolds, HeardIsPinned
<1>2. CASE Encode(n)
    <2>1. TypeOK'
        BY <1>2 DEF Encode, replicator, IInv, TypeOK, ShardSet
    <2>2. SealsAreMade'
        BY <1>2 DEF Encode, replicator, IInv, TypeOK, SealsAreMade, Made
    <2> QED
        BY <1>2, <2>1, <2>2
            DEF Encode, replicator, IInv, HeldWasCaptured, SealHolds, HeardIsPinned
<1>3. CASE AuthorizeCopy(n)
    <2>1. TypeOK'
        <3>1. live' \in [Node -> 0 .. MaxCopies]
            BY <1>3, CheckpointAssumption DEF AuthorizeCopy, IInv, TypeOK
        <3>2. audit' \in [Node -> [Kinds -> Nat]]
            BY <1>3 DEF AuthorizeCopy, IInv, TypeOK, Kinds
        <3> QED
            BY <1>3, <3>1, <3>2 DEF AuthorizeCopy, IInv, TypeOK
    <2> QED
        BY <1>3, <2>1 DEF AuthorizeCopy, IInv, SealsAreMade, Made,
                          HeldWasCaptured, SealHolds, HeardIsPinned
<1> QED
    BY <1>1, <1>2, <1>3

\* The media may do what they like.
LEMMA MediaPreserves ==
    ASSUME IInv,
           DamageBlob \/ LoseBlob \/ \E n \in Node : LoseShard(n) \/ DamageShard(n)
    PROVE  IInv'
<1>1. CASE DamageBlob
    <2>1. PICK b \in media :
            \E d \in Damaged(b) : media' = (media \ {b}) \cup {d}
        BY <1>1 DEF DamageBlob
    <2>2. PICK c \in Damaged(b) : media' = (media \ {b}) \cup {c}
        BY <2>1
    <2>3. c \in Blob /\ Made(c.seal)
        BY DamageMakesNoSeal DEF IInv, TypeOK, SealsAreMade
    <2> QED
        BY <1>1, <2>2, <2>3 DEF DamageBlob, replicator, IInv, TypeOK,
            SealsAreMade, Made, HeldWasCaptured, SealHolds, HeardIsPinned
<1>2. CASE LoseBlob
    BY <1>2 DEF LoseBlob, replicator, IInv, TypeOK, SealsAreMade, Made,
                HeldWasCaptured, SealHolds, HeardIsPinned
<1>3. ASSUME NEW n \in Node, LoseShard(n) \/ DamageShard(n) PROVE IInv'
    <2>1. PICK s \in Shard :
            /\ shards[n] # None
            /\ \/ shards' = [shards EXCEPT ![n].lost = @ \cup {s}]
               \/ shards' = [shards EXCEPT ![n].bad = @ \cup {s}]
        BY <1>3 DEF LoseShard, DamageShard
    <2>2. shards[n] \in ShardSet
        BY <1>3, <2>1 DEF IInv, TypeOK
    <2>3. \A k \in Node :
            /\ shards'[k] \in ShardSet \cup {None}
            /\ shards'[k] # None => shards[k] # None /\ shards'[k].of = shards[k].of
        <3>1. \A k \in Node \ {n} : shards'[k] = shards[k]
            BY <2>1 DEF IInv, TypeOK
        <3>2. \/ shards'[n] = [shards[n] EXCEPT !.lost = @ \cup {s}]
              \/ shards'[n] = [shards[n] EXCEPT !.bad = @ \cup {s}]
            BY <2>1 DEF IInv, TypeOK
        <3>3. shards'[n] \in ShardSet /\ shards'[n].of = shards[n].of
            BY <2>2, <3>2 DEF ShardSet
        <3> QED
            BY <2>1, <3>1, <3>3 DEF IInv, TypeOK
    <2>4. shards' \in [Node -> ShardSet \cup {None}]
        BY <2>1, <2>3 DEF IInv, TypeOK
    <2>5. UNCHANGED <<replicator, media, signed, heard>>
        BY <1>3 DEF LoseShard, DamageShard
    <2>6. TypeOK'
        BY <2>4, <2>5 DEF replicator, IInv, TypeOK
    <2>7. SealsAreMade'
        BY <2>3, <2>5 DEF replicator, IInv, SealsAreMade, Made
    <2> QED
        BY <2>5, <2>6, <2>7
            DEF replicator, IInv, HeldWasCaptured, SealHolds, HeardIsPinned
<1> QED
    BY <1>1, <1>2, <1>3

\* Restoring a stored blob, or what the shards still give.
LEMMA RestorePreserves ==
    ASSUME IInv, NEW n \in Node,
           RestoreState(n) \/ \E m \in Node : RestoreFromShards(n, m)
    PROVE  IInv'
<1>1. PICK b \in Blob : Made(b.seal) /\ Restored(n, b)
    <2>1. CASE RestoreState(n)
        BY <2>1 DEF RestoreState, IInv, TypeOK, SealsAreMade
    <2>2. ASSUME NEW m \in Node, RestoreFromShards(n, m)
          PROVE  \E b \in Blob : Made(b.seal) /\ Restored(n, b)
        <3>1. shards[m].of \in Blob /\ Made(shards[m].of.seal)
            BY <2>2 DEF RestoreFromShards, IInv, TypeOK, ShardSet, SealsAreMade
        <3> QED
            BY <2>2, <3>1, DamageMakesNoSeal DEF RestoreFromShards
    <2> QED
        BY <2>1, <2>2
<1>2. UNCHANGED <<live, audit, media, shards, signed>>
    BY DEF RestoreState, RestoreFromShards
<1>3. TypeOK'
    BY <1>1, <1>2, RestoredTyped DEF IInv, TypeOK
<1>4. SealsAreMade' /\ HeldWasCaptured' /\ HeardIsPinned'
    BY <1>1, <1>2, RestoredKeeps DEF IInv, SealsAreMade, Made
<1> QED
    BY <1>3, <1>4 DEF IInv

\* A migration is a restore at the target.
LEMMA MigratePreserves ==
    ASSUME IInv, NEW n \in Node, NEW m \in Node, MigrateTo(n, m)
    PROVE  IInv'
<1>1. current[n] \in Blob /\ Made(current[n].seal) /\ Restored(m, current[n])
    BY DEF MigrateTo, IInv, TypeOK, SealsAreMade
<1>2. audit' \in [Node -> [Kinds -> Nat]]
    <2>1. audit \in [Node -> [Kinds -> Nat]]
        BY DEF IInv, TypeOK
    <2>2. [audit EXCEPT ![n]["to"] = @ + 1] \in [Node -> [Kinds -> Nat]]
        BY <2>1 DEF Kinds
    <2> QED
        BY <2>1, <2>2 DEF MigrateTo, Paired, Kinds
<1>3. UNCHANGED <<live, media, shards, signed>>
    BY DEF MigrateTo
<1>4. TypeOK'
    BY <1>1, <1>2, <1>3, RestoredTyped DEF IInv, TypeOK
<1>5. SealsAreMade' /\ HeldWasCaptured' /\ HeardIsPinned'
    BY <1>1, <1>3, RestoredKeeps DEF IInv, SealsAreMade, Made
<1> QED
    BY <1>4, <1>5 DEF IInv

\* Nothing else changes when no variable does.
LEMMA StutterPreserves == ASSUME IInv, UNCHANGED vars PROVE IInv'
BY DEF vars, replicator, IInv, TypeOK, SealsAreMade, Made, HeldWasCaptured,
       SealHolds, HeardIsPinned

\* Every step keeps the invariant.
LEMMA StepPreserves == IInv /\ [Next]_vars => IInv'
<1> SUFFICES ASSUME IInv, [Next]_vars PROVE IInv'
    OBVIOUS
<1>1. ASSUME NEW n \in Node, NEW p \in Payload, Capture(n, p) PROVE IInv'
    BY <1>1, CapturePreserves
<1>2. ASSUME NEW n \in Node, Store(n) \/ Encode(n) \/ AuthorizeCopy(n) PROVE IInv'
    BY <1>2, KeepingPreserves
<1>3. ASSUME NEW n \in Node, LoseShard(n) \/ DamageShard(n) PROVE IInv'
    BY <1>3, MediaPreserves
<1>4. ASSUME NEW n \in Node, RestoreState(n) PROVE IInv'
    BY <1>4, RestorePreserves
<1>5. ASSUME NEW n \in Node, NEW m \in Node, RestoreFromShards(n, m) PROVE IInv'
    BY <1>5, RestorePreserves
<1>6. ASSUME NEW n \in Node, NEW m \in Node, MigrateTo(n, m) PROVE IInv'
    BY <1>6, MigratePreserves
<1>7. CASE DamageBlob \/ LoseBlob
    BY <1>7, MediaPreserves
<1>8. CASE UNCHANGED vars
    BY <1>8, StutterPreserves
<1> QED
    BY <1>1, <1>2, <1>3, <1>4, <1>5, <1>6, <1>7, <1>8 DEF Next

\* The invariant holds throughout.
LEMMA Invariant == Spec => []IInv
BY InitEstablishes, StepPreserves, PTL DEF Spec

-----------------------------------------------------------------------------
\* Types, for every value of the constants.
THEOREM CheckpointsTyped == Spec => []TypeOK
<1>1. IInv => TypeOK
    BY DEF IInv
<1> QED
    BY <1>1, Invariant, PTL

\* Whatever happened to the media, a wired node holds only what was captured.
THEOREM CapturedOnly == Spec => []HeldWasCaptured
<1>1. IInv => HeldWasCaptured
    BY DEF IInv
<1> QED
    BY <1>1, Invariant, PTL

\* A wired node never restores checkpoints of two signers.
THEOREM SignerFixed == Spec => []OneSigner
<1>1. IInv => OneSigner
    <2> SUFFICES ASSUME IInv, NEW n \in Wired PROVE Cardinality(heard[n]) <= 1
        BY DEF OneSigner
    <2>1. heard[n] \subseteq {pin[n]}
        BY DEF IInv, HeardIsPinned
    <2>2. IsFiniteSet({pin[n]}) /\ Cardinality({pin[n]}) = 1
        BY FS_Singleton
    <2> QED
        BY <2>1, <2>2, FS_Subset
<1> QED
    BY <1>1, Invariant, PTL

-----------------------------------------------------------------------------
(* Both ends of a migration.                                               *)

\* A migration the target accepts is one to the key it trusts, of a checkpoint
\* that capture sealed; one it rejects leaves no entry.
LEMMA MigrateLogs ==
    ASSUME IInv, NEW n \in Node, NEW m \in Node, MigrateTo(n, m), audit' # audit
    PROVE  Migrated(n, m)
<1>1. /\ n # m /\ current[n] \in Blob /\ Made(current[n].seal)
      /\ Restored(m, current[n])
    BY DEF MigrateTo, IInv, TypeOK, SealsAreMade
<1>2. Accepts(m, current[n])
    BY DEF MigrateTo, Paired
<1>3. audit' = [audit EXCEPT ![n]["to"] = @ + 1, ![m]["from"] = @ + 1]
    BY <1>2 DEF MigrateTo, Paired
<1>4. current' = [current EXCEPT ![m] = current[n]] /\ current[n].agent = Hosts[m]
    BY <1>1, <1>2 DEF Restored, Accepts
<1>5. ASSUME m \in Wired
      PROVE  current[n].seal \in signed /\ pin'[m] = current[n].seal.key
    <2>1. current[n].seal \in signed
        BY <1>1, <1>2, <1>5, AcceptedIsGenuine
    <2>2. /\ current[n].seal # None /\ current[n].agent = Hosts[m]
          /\ PinAllows(m, current[n].seal.key)
        BY <1>2, <1>5 DEF Accepts
    <2>3. pin'[m] = PinAfter(m, current[n])
        BY <1>1 DEF Restored, IInv, TypeOK
    <2>4. pin'[m] = current[n].seal.key
        BY <1>5, <2>2, <2>3 DEF PinAfter, Examined, PinAllows
    <2> QED
        BY <2>1, <2>4
<1> QED
    BY <1>1, <1>3, <1>4, <1>5 DEF Migrated

\* Between its ends a migration adds one entry each, whoever they are.
LEMMA EndsDiffer ==
    ASSUME IInv, NEW n \in Node, NEW m \in Node, Migrated(n, m), NEW k \in Node
    PROVE  /\ audit'[k]["to"] # audit[k]["to"] => k = n
           /\ audit'[k]["from"] # audit[k]["from"] => k = m
<1>1. audit \in [Node -> [Kinds -> Nat]]
    BY DEF IInv, TypeOK
<1>2. audit' = [audit EXCEPT ![n]["to"] = @ + 1, ![m]["from"] = @ + 1]
    BY DEF Migrated
<1> QED
    BY <1>1, <1>2 DEF Kinds

\* A step that is no migration logs none.
LEMMA OthersLogNone ==
    ASSUME IInv, [Next]_vars, ~\E n, m \in Node : MigrateTo(n, m), NEW k \in Node
    PROVE  audit'[k]["to"] = audit[k]["to"] /\ audit'[k]["from"] = audit[k]["from"]
<1>1. CASE UNCHANGED audit
    BY <1>1
<1>2. ASSUME NEW n \in Node, (\E p \in Payload : Capture(n, p)) \/ AuthorizeCopy(n)
      PROVE  audit'[k]["to"] = audit[k]["to"] /\ audit'[k]["from"] = audit[k]["from"]
    <2>1. audit \in [Node -> [Kinds -> Nat]]
        BY DEF IInv, TypeOK
    <2>2. \/ audit' = [audit EXCEPT ![n]["checkpoint"] = @ + 1]
          \/ audit' = [audit EXCEPT ![n]["copy"] = @ + 1]
        BY <1>2 DEF Capture, AuthorizeCopy
    <2> QED
        BY <2>1, <2>2 DEF Kinds
<1>3. CASE \E n \in Node :
             \/ Store(n) \/ Encode(n) \/ LoseShard(n) \/ DamageShard(n)
             \/ RestoreState(n) \/ \E m \in Node : RestoreFromShards(n, m)
    BY <1>1, <1>3 DEF Store, Encode, LoseShard, DamageShard, RestoreState,
                      RestoreFromShards, replicator
<1>4. CASE DamageBlob \/ LoseBlob \/ UNCHANGED vars
    BY <1>1, <1>4 DEF DamageBlob, LoseBlob, replicator, vars
<1> QED
    BY <1>2, <1>3, <1>4 DEF Next

\* Among any number of nodes, a migration is logged only if its target accepted
\* a genuine checkpoint of its agent and goes on with it, and then on both ends.
THEOREM BothEndsLog == Spec => MigrationsPaired
<1>1. ASSUME IInv, [Next]_vars, NEW n \in Node
      PROVE  /\ audit'[n]["to"] # audit[n]["to"] => \E m \in Node : Migrated(n, m)
             /\ audit'[n]["from"] # audit[n]["from"] => \E m \in Node : Migrated(m, n)
    <2>1. CASE \E i, j \in Node : MigrateTo(i, j) /\ audit' # audit
        <3>1. PICK i \in Node, j \in Node : MigrateTo(i, j) /\ audit' # audit
            BY <2>1
        <3>2. Migrated(i, j)
            BY <1>1, <3>1, MigrateLogs
        <3> QED
            BY <1>1, <3>2, EndsDiffer
    <2>2. CASE audit' = audit
        BY <2>2
    <2>3. CASE ~\E i, j \in Node : MigrateTo(i, j)
        BY <1>1, <2>3, OthersLogNone
    <2> QED
        BY <2>1, <2>2, <2>3
<1>2. IInv /\ [Next]_vars =>
        [\A n \in Node :
            /\ audit'[n]["to"] # audit[n]["to"] => \E m \in Node : Migrated(n, m)
            /\ audit'[n]["from"] # audit[n]["from"] => \E m \in Node : Migrated(m, n)]_vars
    BY <1>1
<1> QED
    BY <1>2, Invariant, PTL DEF Spec, MigrationsPaired
=============================================================================
