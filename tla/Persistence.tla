----------------------------- MODULE Persistence -----------------------------
(***************************************************************************)
(* Chain persistence: crates/rpc/src/persist.rs (the snapshot, its checks   *)
(* and its file), crates/runtime/src/state_root.rs (what the state root     *)
(* commits) and the boot, tick and shutdown paths of crates/node/src/lib.rs.*)
(*                                                                          *)
(* A state is a function from the sections of MemState to versions: which   *)
(* sections a conversion keeps is what matters, not what is in them.  The   *)
(* file system is kept at the level of inodes, because `save` writes one    *)
(* fixed temporary name and two threads may be inside it at once.           *)
(***************************************************************************)
EXTENDS Integers, Sequences, FiniteSets, SequencesExt

CONSTANTS
    Sections,    \* the sections of MemState this instance tells apart
    Seeded,      \* the sections the genesis seeds fill
    Touched,     \* the sections a block may change
    Networked,   \* TRUE: p2p loop, saves inline; FALSE: blocking-pool tick
    MaxHeight,   \* bound on block numbers
    MaxCrashes,  \* bound on crashes
    MaxFailures, \* bound on saves that end in an I/O error
    MaxCorrupt,  \* bound on outside changes of the file
    None         \* the parent and the state root of genesis; a corrupted root

\* The fields of MemState, grouped as state_root.rs and persist.rs do.
LedgerSections == {"accounts", "streams"}
HumanitySections == {"humans", "vouch_edges", "cleared_challenges", "cases",
                     "jurors"}
PassportSections == {"nullifiers", "attribute_store", "csca"}
SelfRootSections == {"self_identity_roots", "self_ofac_roots"}
ContractSections == {"contracts", "exec_cases"}
ScheduleSections == {"epoch_validators", "counters"}

\* What state_root folds: every group, and the Self scope scalar.
Committed == LedgerSections \cup HumanitySections \cup PassportSections
             \cup SelfRootSections \cup {"self_scope"}
             \cup ContractSections \cup ScheduleSections

\* What StateDto has a field for: every group, and the governance authority.
Exported == LedgerSections \cup HumanitySections \cup PassportSections
            \cup {"csca_governance"} \cup SelfRootSections
            \cup ContractSections \cup ScheduleSections

\* "vouch_at" is the acceptance time of a vouch edge: neither committed nor
\* exported (an import sets it to 0).
ASSUME SectionsAssumption ==
    /\ Sections \subseteq Committed \cup Exported \cup {"vouch_at"}
    /\ Seeded \subseteq Sections /\ Touched \subseteq Sections
ASSUME BoundsAssumption ==
    /\ Networked \in BOOLEAN
    /\ {MaxHeight, MaxCrashes, MaxFailures, MaxCorrupt} \subseteq Nat

VARIABLES
    phase,    \* "up", "closing" or "down"
    chain,    \* [blocks, state] of the running node
    anchor,   \* the sealed genesis state_root
    saver,    \* the two threads that call `save`
    dir,      \* names to inodes: the live snapshot and the temporary
    inode,    \* inodes to their bytes
    stored,   \* history: the snapshot the last successful save published
    faults    \* history: how often each fault happened

vars == <<phase, chain, anchor, saver, dir, inode, stored, faults>>

Savers == {"ticker", "closer"}
Inodes == 1..4
NoFile == 0
NoSnapshot == <<>>                    \* no file, or bytes that are no snapshot
Hole == <<>>                          \* bytes never written, or not a snapshot's
Empty == 0                            \* the version of an untouched section

----------------------------------------------------------------------------
(* The snapshot and its checks *)

state_root(s) == [x \in Sections \cap Committed |-> s[x]]
export_state(s) == [x \in Sections \cap Exported |-> s[x]]
import_state(d) == [x \in Sections |-> IF x \in DOMAIN d THEN d[x] ELSE Empty]

ZERO == None                          \* the fixed state_root of genesis
compute_hash(b) == <<b.number, b.parent_hash, b.state_root>>
SealBlock(n, parent, root) ==
    LET b == [number |-> n, parent_hash |-> parent, state_root |-> root]
    IN  [number |-> n, parent_hash |-> parent, state_root |-> root,
         hash |-> compute_hash(b)]

GenesisBlock == SealBlock(0, None, ZERO)
genesis_state == [x \in Sections |-> IF x \in Seeded THEN 1 ELSE Empty]
build_genesis_state == genesis_state
Fresh == [blocks |-> <<GenesisBlock>>, state |-> genesis_state]

export_snapshot(c) == [blocks |-> c.blocks, state |-> export_state(c.state)]
from_snapshot(s) == [blocks |-> s.blocks, state |-> import_state(s.state)]

BlocksLinked(bs) ==
    /\ bs # <<>> /\ bs[1].number = 0
    /\ \A i \in 1..Len(bs) : bs[i].hash = compute_hash(bs[i])
    /\ \A i \in 2..Len(bs) : /\ bs[i].number = bs[i - 1].number + 1
                             /\ bs[i].parent_hash = bs[i - 1].hash
StateMatchesTip(bs, s) == state_root(s) = Last(bs).state_root

verify_BlocksOnly(s) == BlocksLinked(s.blocks)

verify(s) ==
    /\ BlocksLinked(s.blocks)
    /\ StateMatchesTip(s.blocks, import_state(s.state))

----------------------------------------------------------------------------
(* Bytes: a snapshot is one chunk per block, so an older one is shorter *)

Serialized(s) == [i \in 1..Len(s.blocks) |-> <<s, i>>]

\* The snapshot some bytes are the whole of, if any.
Parsed(data) ==
    IF data # <<>> /\ data[1] # Hole /\ data = Serialized(data[1][1])
    THEN data[1][1] ELSE NoSnapshot

\* A write at offset i of a file: beyond its end it leaves a hole.
WriteAt(data, i, chunk) ==
    [k \in 1..(IF i > Len(data) THEN i ELSE Len(data)) |->
        IF k = i THEN chunk ELSE IF k <= Len(data) THEN data[k] ELSE Hole]

Live == IF dir.target = NoFile THEN NoSnapshot ELSE Parsed(inode[dir.target].data)

\* load: the file must be there, parse and verify; node/lib.rs falls back to
\* genesis on any error.
load == IF Live # NoSnapshot /\ verify(Live) THEN Live ELSE NoSnapshot

----------------------------------------------------------------------------
Idle == [pc |-> "idle", snap |-> NoSnapshot, fd |-> NoFile, at |-> 0]

Init ==
    /\ phase = "up" /\ chain = Fresh /\ anchor = state_root(genesis_state)
    /\ saver = [s \in Savers |-> Idle]
    /\ dir = [target |-> NoFile, tmp |-> NoFile]
    /\ inode = [i \in Inodes |-> [data |-> <<>>, synced |-> TRUE]]
    /\ stored = NoSnapshot
    /\ faults = [crashes |-> 0, failures |-> 0, corrupt |-> 0]

\* The state after a block: unchanged, or one section at a new version.
Effects(s) == {s} \cup {[s EXCEPT ![x] = @ + 1] : x \in Touched}

extended(c, s) ==
    LET tip == Last(c.blocks)
    IN  [blocks |-> Append(c.blocks,
                           SealBlock(tip.number + 1, tip.hash, state_root(s))),
         state |-> s]

\* A block tick starts: inline in the p2p loop, on the blocking pool otherwise.
Tick ==
    /\ phase = "up" /\ saver["ticker"].pc = "idle"
    /\ saver' = [saver EXCEPT !["ticker"].pc = "produce"]
    /\ UNCHANGED <<phase, chain, anchor, dir, inode, stored, faults>>

Extend == /\ Len(chain.blocks) <= MaxHeight
          /\ \E s \in Effects(chain.state) : chain' = extended(chain, s)

\* The tick produces a block, unless it is not this node's turn, and goes on to
\* export and save.
Produce ==
    /\ saver["ticker"].pc = "produce"
    /\ Extend \/ chain' = chain
    /\ saver' = [saver EXCEPT !["ticker"].pc = "export"]
    /\ UNCHANGED <<phase, anchor, dir, inode, stored, faults>>

\* Between ticks the p2p loop applies blocks of its peers, without saving.
OnBlock ==
    /\ Networked /\ phase = "up" /\ saver["ticker"].pc = "idle"
    /\ Extend
    /\ UNCHANGED <<phase, anchor, saver, dir, inode, stored, faults>>

\* Shutting down without the final save.
CtrlC_Unsaved ==
    /\ phase = "up"
    /\ Networked => saver["ticker"].pc = "idle"
    /\ phase' = "closing"
    /\ UNCHANGED <<chain, anchor, saver, dir, inode, stored, faults>>

\* ctrl-c.  In the p2p loop it is one arm of the select! whose other arm runs
\* the save, so no save is under way; the legacy loop hands its tick to the
\* blocking pool, and dropping that future does not stop the thread.
CtrlC ==
    /\ phase = "up"
    /\ Networked => saver["ticker"].pc = "idle"
    /\ phase' = "closing"
    /\ saver' = [saver EXCEPT !["closer"].pc = "export"]
    /\ UNCHANGED <<chain, anchor, dir, inode, stored, faults>>

Export(s) ==
    /\ saver[s].pc = "export"
    /\ saver' = [saver EXCEPT ![s] = [@ EXCEPT !.pc = "create",
                                               !.snap = export_snapshot(chain)]]
    /\ UNCHANGED <<phase, chain, anchor, dir, inode, stored, faults>>

Unused == {i \in Inodes : /\ i \notin {dir.target, dir.tmp}
                          /\ \A s \in Savers : saver[s].fd # i}

\* Writing straight over the live file, without the temporary.
Create_InPlace(s) ==
    /\ saver[s].pc = "create"
    /\ LET i == IF dir.target # NoFile THEN dir.target
                ELSE CHOOSE k \in Unused : TRUE
       IN  /\ inode' = [inode EXCEPT ![i] = [data |-> <<>>, synced |-> FALSE]]
           /\ dir' = [target |-> i, tmp |-> i]
           /\ saver' = [saver EXCEPT ![s] = [@ EXCEPT !.pc = "write", !.fd = i,
                                                      !.at = 0]]
    /\ UNCHANGED <<phase, chain, anchor, stored, faults>>

\* File::create(tmp): truncates the file of that name or makes a new one.
Create(s) ==
    /\ saver[s].pc = "create"
    /\ LET i == IF dir.tmp # NoFile THEN dir.tmp
                ELSE CHOOSE k \in Unused : TRUE
       IN  /\ inode' = [inode EXCEPT ![i] = [data |-> <<>>, synced |-> FALSE]]
           /\ dir' = [dir EXCEPT !.tmp = i]
           /\ saver' = [saver EXCEPT ![s] = [@ EXCEPT !.pc = "write", !.fd = i,
                                                      !.at = 0]]
    /\ UNCHANGED <<phase, chain, anchor, stored, faults>>

\* One write of write_all, at the offset of this thread's own descriptor.
Write(s) ==
    /\ saver[s].pc = "write"
    /\ LET bytes == Serialized(saver[s].snap)
           i == saver[s].at + 1
       IN  /\ inode' = [inode EXCEPT ![saver[s].fd] =
                           [data |-> WriteAt(@.data, i, bytes[i]),
                            synced |-> FALSE]]
           /\ saver' = [saver EXCEPT ![s] =
                  [@ EXCEPT !.at = i,
                            !.pc = IF i = Len(bytes) THEN "sync" ELSE "write"]]
    /\ UNCHANGED <<phase, chain, anchor, dir, stored, faults>>

Sync(s) ==
    /\ saver[s].pc = "sync"
    /\ inode' = [inode EXCEPT ![saver[s].fd].synced = TRUE]
    /\ saver' = [saver EXCEPT ![s].pc = "rename"]
    /\ UNCHANGED <<phase, chain, anchor, dir, stored, faults>>

Done(s) == [saver EXCEPT ![s] = Idle]

\* rename(tmp, target) moves whatever now has the temporary name; when the
\* other thread has already moved it the call fails and is only logged.
Rename(s) ==
    /\ saver[s].pc = "rename"
    /\ IF dir.tmp = NoFile THEN UNCHANGED <<dir, stored>>
       ELSE /\ dir' = [target |-> dir.tmp, tmp |-> NoFile]
            /\ stored' = saver[s].snap
    /\ saver' = Done(s)
    /\ UNCHANGED <<phase, chain, anchor, inode, faults>>

\* save returns an I/O error half way: logged, the temporary stays behind.
SaveFails(s) ==
    /\ saver[s].pc \in {"create", "write", "sync"}
    /\ faults.failures < MaxFailures
    /\ saver' = Done(s)
    /\ faults' = [faults EXCEPT !.failures = @ + 1]
    /\ UNCHANGED <<phase, chain, anchor, dir, inode, stored>>

\* The process ends once the final save and any running tick are over (the
\* runtime waits for its blocking threads).
Exit ==
    /\ phase = "closing" /\ \A s \in Savers : saver[s].pc = "idle"
    /\ phase' = "down"
    /\ UNCHANGED <<chain, anchor, saver, dir, inode, stored, faults>>

\* Kill or power loss: bytes that were not synced survive up to some length.
Crash ==
    /\ phase # "down" /\ faults.crashes < MaxCrashes
    /\ \E keep \in [Inodes -> 0..(MaxHeight + 1)] :
          /\ \A i \in Inodes : IF inode[i].synced THEN keep[i] = 0
                               ELSE keep[i] <= Len(inode[i].data)
          /\ inode' = [i \in Inodes |->
                IF inode[i].synced THEN inode[i]
                ELSE [data |-> SubSeq(inode[i].data, 1, keep[i]),
                      synced |-> TRUE]]
    /\ phase' = "down" /\ saver' = [s \in Savers |-> Idle]
    /\ faults' = [faults EXCEPT !.crashes = @ + 1]
    /\ UNCHANGED <<chain, anchor, dir, stored>>

Boot_SealsLive ==
    /\ phase = "down"
    /\ phase' = "up"
    /\ chain' = IF load # NoSnapshot THEN from_snapshot(load) ELSE Fresh
    /\ anchor' = state_root(chain'.state)
    /\ UNCHANGED <<saver, dir, inode, stored, faults>>

\* Boot: a snapshot that loads is restored, anything else starts from genesis.
\* Only a fresh chain seals its live state as the genesis anchor.
Boot ==
    /\ phase = "down"
    /\ phase' = "up"
    /\ chain' = IF load # NoSnapshot THEN from_snapshot(load) ELSE Fresh
    /\ anchor' = IF load # NoSnapshot THEN state_root(build_genesis_state)
                 ELSE state_root(chain'.state)
    /\ UNCHANGED <<saver, dir, inode, stored, faults>>

\* The file is changed from outside: one section or one header differs, a
\* block is missing, or the bytes no longer parse.
Corrupted(s) ==
    {[s EXCEPT !.state[x] = @ + 1] : x \in DOMAIN s.state}
    \cup {[s EXCEPT !.blocks[i].state_root = None] : i \in 2..Len(s.blocks)}
    \cup {[s EXCEPT !.blocks = RemoveAt(@, i)] : i \in 1..Len(s.blocks)}

Corrupt ==
    /\ phase = "down" /\ faults.corrupt < MaxCorrupt /\ Live # NoSnapshot
    /\ \E data \in {Serialized(s) : s \in Corrupted(Live)} \cup {<<Hole>>} :
          inode' = [inode EXCEPT ![dir.target].data = data]
    /\ faults' = [faults EXCEPT !.corrupt = @ + 1]
    /\ UNCHANGED <<phase, chain, anchor, saver, dir, stored>>

Next ==
    \/ Tick \/ Produce \/ OnBlock \/ CtrlC \/ Exit \/ Crash \/ Boot \/ Corrupt
    \/ \E s \in Savers : \/ Export(s) \/ Create(s) \/ Write(s) \/ Sync(s)
                         \/ Rename(s) \/ SaveFails(s)

Spec == Init /\ [][Next]_vars

----------------------------------------------------------------------------
(* Properties *)

\* The live file is never torn nor out of date: whatever crashes and failed saves
\* came in between, unless it was changed from outside it is, whole, the snapshot
\* that the last successful save exported (persist.rs save: temporary file, sync,
\* rename).
LiveFileWhole ==
    faults.corrupt = 0 /\ dir.target # NoFile => Live = stored

\* Whatever is on disk, a running node's history is linked from block 0 and its
\* state is the one its tip commits to: a file changed from outside is refused
\* by verify rather than resumed from.
RunningStateIsItsTip ==
    phase # "down" =>
        /\ BlocksLinked(chain.blocks)
        /\ Len(chain.blocks) > 1 => StateMatchesTip(chain.blocks, chain.state)

\* The genesis anchor served to light clients is the root of the height-0 state,
\* also on a node that restarted far above genesis (build_genesis_state).
AnchorIsGenesis == phase # "down" => anchor = state_root(genesis_state)

\* A clean stop persists the latest tip: once the process has ended after
\* ctrl-c, without a crash or an I/O error, the file holds the chain it had
\* (node/lib.rs: the final snapshot on graceful shutdown).
CleanStopPersists ==
    phase = "down" /\ faults = [crashes |-> 0, failures |-> 0, corrupt |-> 0]
    => Live = export_snapshot(chain)

\* What persist.rs:3-5 and node/lib.rs:308-311 say of a restart: the node comes
\* back at the last snapshot it saved, same blocks and same state root, no block
\* lost.  (A snapshot of a bare genesis is refused by verify and booted fresh,
\* which is the same chain.)  Not so: every node pins a Self scope, which the
\* state root commits and no snapshot carries, so verify refuses what save wrote.
Resumes ==
    stored # NoSnapshot /\ faults.corrupt = 0 =>
        /\ chain'.blocks = stored.blocks
        /\ Len(stored.blocks) > 1 =>
              state_root(chain'.state) = Last(stored.blocks).state_root
RestartResumes == [][phase = "down" /\ phase' = "up" => Resumes]_vars

=============================================================================
