----------------------------- MODULE Checkpoint -----------------------------
(***************************************************************************)
(* The life of an agent's checkpoints: Replicator of vitalis-replicate     *)
(* wired to the Defender of vitalis-defend, on several nodes that may host *)
(* the same agent.  Every node signs with a key of its own, named by the   *)
(* node.  Checkpoints and their erasure-coded shards rest on media that    *)
(* may lose or damage them.  A node that dies is one that takes no further *)
(* step: nothing obliges a node to act.                                    *)
(***************************************************************************)
EXTENDS Integers, FiniteSets

CONSTANTS
    Node,
    Agent,
    Hosts,         \* the AgentId each node's Replicator is built with
    Wired,         \* nodes given a signer and a BoundVerifier
    DataShards,
    ParityShards,
    MaxCopies,     \* max_copies
    None,          \* no checkpoint, no shards, no seal, no pinned key
    Garbled,       \* a public key no node holds
    Payload,       \* bound: the states an agent is captured in
    Encoders,      \* bound: the nodes that write shards
    MaxMedia,      \* bound: blobs on media
    MaxEntries     \* bound: captures, and migrations to and from, of a node

ASSUME CheckpointAssumption ==
    /\ IsFiniteSet(Node)
    /\ Hosts \in [Node -> Agent]
    /\ {Wired, Encoders} \subseteq SUBSET Node
    /\ {DataShards, ParityShards} \subseteq Nat \ {0}
    /\ {MaxCopies, MaxMedia, MaxEntries} \subseteq Nat
    /\ Garbled \notin Node
    /\ None \notin Node \cup {Garbled}

Key == Node \cup {Garbled}

\* CheckpointSeal: the key it carries, and what was signed with that key.
Seal == [key : Key, agent : Agent, payload : Payload]

\* Checkpoint, and the blob it is written as; version, time and magic are
\* left out: a blob that does not parse is one that cannot be restored.
Blob == [agent : Agent, payload : Payload, seal : Seal \cup {None}]

Shard == 1 .. DataShards + ParityShards

\* A shard set: what it encodes, the shards blanked out, the shards altered.
ShardSet == [of : Blob, lost : SUBSET Shard, bad : SUBSET Shard]

Kinds == {"checkpoint", "copy", "to", "from"}

ASSUME NoneAssumption == None \notin Seal \cup Blob \cup ShardSet

VARIABLES
    current,   \* the Replicator's current checkpoint
    pin,       \* the key pinned for the hosted agent
    live,      \* the copy-limit policy's counter
    audit,     \* how many entries of each kind the append-only log holds
    media,     \* blobs that can be read back
    shards,    \* the shard set each node wrote last
    signed,    \* history: the seals made by capture
    heard      \* history: the keys of the checkpoints each node restored

replicator == <<current, pin, live, audit>>
vars == <<replicator, media, shards, signed, heard>>

Init ==
    /\ current = [n \in Node |-> None]
    /\ pin = [n \in Node |-> None]
    /\ live = [n \in Node |-> 0]
    /\ audit = [n \in Node |-> [k \in Kinds |-> 0]]
    /\ media = {}
    /\ shards = [n \in Node |-> None]
    /\ signed = {}
    /\ heard = [n \in Node |-> {}]

Room(n, k) == audit[n][k] < MaxEntries

-----------------------------------------------------------------------------
(* Capture and storage.                                                    *)

SealOf(n, p) == [key |-> n, agent |-> Hosts[n], payload |-> p]

\* capture: signed over everything but the seal, and audited.
Capture(n, p) ==
    /\ Room(n, "checkpoint")
    /\ current' = [current EXCEPT ![n] =
            [agent |-> Hosts[n], payload |-> p,
             seal |-> IF n \in Wired THEN SealOf(n, p) ELSE None]]
    /\ signed' = IF n \in Wired THEN signed \cup {SealOf(n, p)} ELSE signed
    /\ audit' = [audit EXCEPT ![n]["checkpoint"] = @ + 1]
    /\ UNCHANGED <<pin, live, media, shards, heard>>

\* checkpoint_bytes, kept by the caller.
Store(n) ==
    /\ current[n] # None
    /\ Cardinality(media) < MaxMedia
    /\ media' = media \cup {current[n]}
    /\ UNCHANGED <<replicator, shards, signed, heard>>

\* Replicator::shards.
Encode(n) ==
    /\ n \in Encoders
    /\ current[n] # None
    /\ shards' = [shards EXCEPT ![n] =
            [of |-> current[n], lost |-> {}, bad |-> {}]]
    /\ UNCHANGED <<replicator, media, signed, heard>>

\* Seeded fault: a copy is authorized at the cap.
AuthorizeAtCap(n) ==
    /\ live[n] <= MaxCopies
    /\ live' = [live EXCEPT ![n] = @ + 1]
    /\ audit' = [audit EXCEPT ![n]["copy"] = @ + 1]
    /\ UNCHANGED <<current, pin, media, shards, signed, heard>>

\* authorize_copy; refused at the cap, and a refusal leaves no entry.
AuthorizeCopy(n) ==
    /\ live[n] < MaxCopies
    /\ live' = [live EXCEPT ![n] = @ + 1]
    /\ audit' = [audit EXCEPT ![n]["copy"] = @ + 1]
    /\ UNCHANGED <<current, pin, media, shards, signed, heard>>

-----------------------------------------------------------------------------
(* Media.                                                                  *)

\* Damage alters anything, but makes no signature.
Damaged(b) ==
    {c \in Blob :
        \/ c.seal \in {None, b.seal}
        \/ b.seal # None /\ c.seal = [b.seal EXCEPT !.key = Garbled]}

DamageBlob ==
    \E b \in media : \E c \in Damaged(b) :
        /\ media' = (media \ {b}) \cup {c}
        /\ UNCHANGED <<replicator, shards, signed, heard>>

LoseBlob ==
    \E b \in media :
        /\ media' = media \ {b}
        /\ UNCHANGED <<replicator, shards, signed, heard>>

LoseShard(n) ==
    \E s \in Shard :
        /\ shards[n] # None
        /\ shards' = [shards EXCEPT ![n].lost = @ \cup {s}]
        /\ UNCHANGED <<replicator, media, signed, heard>>

DamageShard(n) ==
    \E s \in Shard :
        /\ shards[n] # None
        /\ shards' = [shards EXCEPT ![n].bad = @ \cup {s}]
        /\ UNCHANGED <<replicator, media, signed, heard>>

-----------------------------------------------------------------------------
(* Restore.                                                                *)

SealHolds(b) ==
    /\ b.seal.key # Garbled
    /\ b.seal.agent = b.agent
    /\ b.seal.payload = b.payload

\* verify_checkpoint_for is reached: the agent matches and a seal is there.
Examined(n, b) == n \in Wired /\ b.agent = Hosts[n] /\ b.seal # None

\* Seeded fault: any key may sign for the agent.
PinIgnored(n, key) == TRUE

PinAllows(n, key) == pin[n] \in {None, key}

\* The first key seen is pinned, and before the signature is verified.
PinAfter(n, b) ==
    IF Examined(n, b) /\ pin[n] = None THEN b.seal.key ELSE pin[n]

\* Seeded fault: the seal is checked only if there is one.
AcceptsUnsealed(n, b) ==
    /\ b.agent = Hosts[n]
    /\ n \in Wired /\ b.seal # None =>
        /\ PinAllows(n, b.seal.key)
        /\ SealHolds(b)

\* restore_state's checks.
Accepts(n, b) ==
    /\ b.agent = Hosts[n]
    /\ n \in Wired =>
        /\ b.seal # None
        /\ PinAllows(n, b.seal.key)
        /\ SealHolds(b)

\* restore_state: all of its effect on the node, accepting or rejecting.
Restored(n, b) ==
    /\ pin' = [pin EXCEPT ![n] = PinAfter(n, b)]
    /\ current' = IF Accepts(n, b) THEN [current EXCEPT ![n] = b] ELSE current
    /\ heard' = IF Accepts(n, b) /\ b.seal # None
                THEN [heard EXCEPT ![n] = @ \cup {b.seal.key}] ELSE heard

RestoreState(n) ==
    \E b \in media :
        /\ Restored(n, b)
        /\ UNCHANGED <<live, audit, media, shards, signed>>

\* What reconstruct works from: the data shards if none at all is missing,
\* else the first DataShards that are present.
Used(set) ==
    LET there == Shard \ set.lost
    IN  {s \in there : Cardinality({r \in there : r < s}) < DataShards}

\* restore_from_shards, when enough of them are left: the blob encoded, or
\* anything damage can make of it.
RestoreFromShards(n, m) ==
    /\ shards[m] # None
    /\ Cardinality(shards[m].lost) <= ParityShards
    /\ \E b \in IF Used(shards[m]) \cap shards[m].bad = {}
                THEN {shards[m].of} ELSE Damaged(shards[m].of) :
            Restored(n, b)
    /\ UNCHANGED <<live, audit, media, shards, signed>>

\* Seeded fault: the target's answer is not looked at.
PairedAnyway(n, m, ok) ==
    [audit EXCEPT ![n]["to"] = @ + 1, ![m]["from"] = @ + 1]

\* The entries of a migration, made once the target has restored.
Paired(n, m, ok) ==
    IF ok THEN [audit EXCEPT ![n]["to"] = @ + 1, ![m]["from"] = @ + 1]
          ELSE audit

\* migrate_to; the source keeps its checkpoint.
MigrateTo(n, m) ==
    /\ n # m
    /\ current[n] # None
    /\ Room(n, "to") /\ Room(m, "from")
    /\ Restored(m, current[n])
    /\ audit' = Paired(n, m, Accepts(m, current[n]))
    /\ UNCHANGED <<live, media, shards, signed>>

Next ==
    \/ \E n \in Node :
        \/ \E p \in Payload : Capture(n, p)
        \/ Store(n)
        \/ Encode(n)
        \/ AuthorizeCopy(n)
        \/ LoseShard(n)
        \/ DamageShard(n)
        \/ RestoreState(n)
        \/ \E m \in Node : RestoreFromShards(n, m) \/ MigrateTo(n, m)
    \/ DamageBlob
    \/ LoseBlob

Spec == Init /\ [][Next]_vars

-----------------------------------------------------------------------------
(* Properties.                                                             *)

\* Replicators, media and the history have their types.
TypeOK ==
    /\ current \in [Node -> Blob \cup {None}]
    /\ pin \in [Node -> Key \cup {None}]
    /\ live \in [Node -> 0 .. MaxCopies]
    /\ audit \in [Node -> [Kinds -> Nat]]
    /\ media \subseteq Blob
    /\ shards \in [Node -> ShardSet \cup {None}]
    /\ signed \subseteq Seal
    /\ heard \in [Node -> SUBSET Key]

\* Whatever the media did to blobs and shards, and through however many nodes
\* it came, what a wired node holds was captured as it is, for its agent, by
\* the node whose key sealed it.
HeldWasCaptured ==
    \A n \in Wired : current[n] # None =>
        /\ current[n].agent = Hosts[n]
        /\ current[n].seal \in signed
        /\ SealHolds(current[n])

\* Why: every seal on a blob anywhere was made by capture, or carries a key
\* nobody holds.
Made(s) == s = None \/ s.key = Garbled \/ s \in signed

SealsAreMade ==
    /\ \A b \in media : Made(b.seal)
    /\ \A n \in Node : /\ current[n] # None => Made(current[n].seal)
                       /\ shards[n] # None => Made(shards[n].of.seal)

\* All the checkpoints a wired node ever restores were sealed by one key.
OneSigner == \A n \in Wired : Cardinality(heard[n]) <= 1

\* What the logs call a migration from n to m: both of them and no other log it,
\* m goes on with what n holds, for its own agent, and if m has a verifier, what
\* it goes on with was sealed by capture, with the key m trusts from then on.
Migrated(n, m) ==
    /\ n # m
    /\ audit' = [audit EXCEPT ![n]["to"] = @ + 1, ![m]["from"] = @ + 1]
    /\ current' = [current EXCEPT ![m] = current[n]]
    /\ current[n].agent = Hosts[m]
    /\ m \in Wired => current[n].seal \in signed /\ pin'[m] = current[n].seal.key

\* No entry of a migration is made but for one that took place, on both ends:
\* none when the target rejects what it is sent, whichever check rejects it.
MigrationsPaired ==
    [][\A n \in Node :
        /\ audit'[n]["to"] # audit[n]["to"] => \E m \in Node : Migrated(n, m)
        /\ audit'[n]["from"] # audit[n]["from"] => \E m \in Node : Migrated(m, n)]_vars

-----------------------------------------------------------------------------
(* What the documents say and the code does not do.                        *)

\* "Reject blob; force re-checkpoint from a known-good copy": to a node that
\* has restored nothing yet, a blob it rejected makes no difference, and a copy
\* that is as it was captured is accepted.
KnownGoodAccepted ==
    \A n \in Wired, s \in signed :
        heard[n] = {} /\ s.agent = Hosts[n] =>
            Accepts(n, [agent |-> s.agent, payload |-> s.payload, seal |-> s])
=============================================================================
