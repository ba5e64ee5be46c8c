-------------------------- MODULE PersistenceProofs --------------------------
(***************************************************************************)
(* Snapshot, save, crash and restart for every set of sections, every      *)
(* number of blocks, crashes, failed saves and outside changes of the file.*)
(*                                                                         *)
(* RunningStateIsItsTip needs no hypothesis.  What the live file holds is   *)
(* proved for the node's p2p loop (Networked): on the blocking pool two    *)
(* saves race, which is a recorded finding.  Nothing is assumed of the     *)
(* sections: the pinned Self scope, which no snapshot carries, included.   *)
(***************************************************************************)
EXTENDS Persistence, SequenceTheorems, TLAPS

Steps == {"idle", "produce", "export", "create", "write", "sync", "rename"}
Saving(s) == saver[s].pc \in {"create", "write", "sync", "rename"}
Writing(s) == saver[s].pc \in {"write", "sync", "rename"}

(***************************************************************************)
(* Types.  S is the set of snapshots the run has dealt with so far: every  *)
(* byte on disk belongs to one of them.                                    *)
(***************************************************************************)
IsSeq(s) == \E B : s \in Seq(B)
IsSnapshot(x) == x = [blocks |-> x.blocks, state |-> x.state] /\ IsSeq(x.blocks)
Bytes(S) == {Hole} \cup (S \X Nat)
SaverStates(S) == [pc : Steps, snap : S, fd : Inodes \cup {NoFile}, at : Nat]

TypedBy(S) ==
  /\ NoSnapshot \in S /\ \A x \in S : x # NoSnapshot => IsSnapshot(x)
  /\ phase \in {"up", "closing", "down"}
  /\ IsSeq(chain.blocks)
  /\ saver \in [Savers -> SaverStates(S)]
  /\ dir \in [target : Inodes \cup {NoFile}, tmp : Inodes \cup {NoFile}]
  /\ inode \in [Inodes -> [data : Seq(Bytes(S)), synced : BOOLEAN]]
  /\ stored \in S
  /\ faults \in [crashes : Nat, failures : Nat, corrupt : Nat]

\* What the position of a thread inside tick and save says of its locals.
SaverLocals ==
  \A s \in Savers :
    /\ saver[s].pc = "idle" => saver[s] = Idle
    /\ ~Writing(s) => saver[s].fd = NoFile
    /\ Writing(s) => saver[s].fd # NoFile
    /\ Saving(s) => saver[s].snap # NoSnapshot /\ Len(saver[s].snap.blocks) > 0
    /\ saver[s].pc = "write" => saver[s].at < Len(saver[s].snap.blocks)
    /\ phase = "down" \/ (phase = "up" /\ s = "closer") => saver[s].pc = "idle"

Inv == (\E S : TypedBy(S)) /\ SaverLocals /\ RunningStateIsItsTip

----------------------------------------------------------------------------
(* Sequences of blocks *)

LEMMA Appended ==
  ASSUME NEW s, IsSeq(s), NEW e
  PROVE  /\ IsSeq(Append(s, e))
         /\ Len(s) \in Nat
         /\ Len(Append(s, e)) = Len(s) + 1
         /\ \A i \in 1..Len(s) : Append(s, e)[i] = s[i]
         /\ Append(s, e)[Len(s) + 1] = e
         /\ s # <<>> => Len(s) > 0
<1>1. PICK B : s \in Seq(B)
  BY DEF IsSeq
<1>2. s \in Seq(B \cup {e})
  BY <1>1
<1>3. Append(s, e) \in Seq(B \cup {e})
  BY <1>2, AppendProperties
<1>4. IsSeq(Append(s, e))
  BY <1>3 DEF IsSeq
<1>5. QED
  BY <1>2, <1>4, AppendProperties, EmptySeq

\* Sealing on the tip keeps a chain linked, and its tip commits to the new state.
LEMMA SealedChain ==
  ASSUME NEW c, NEW s, IsSeq(c.blocks), BlocksLinked(c.blocks)
  PROVE  /\ IsSeq(extended(c, s).blocks)
         /\ BlocksLinked(extended(c, s).blocks)
         /\ StateMatchesTip(extended(c, s).blocks, extended(c, s).state)
         /\ extended(c, s).blocks[1] = c.blocks[1]
<1> DEFINE bs == c.blocks
           tip == Last(bs)
           new == SealBlock(tip.number + 1, tip.hash, state_root(s))
           cs == Append(bs, new)
<1>1. extended(c, s).blocks = cs /\ extended(c, s).state = s
  BY DEF extended
<1>2. /\ IsSeq(cs) /\ Len(bs) \in Nat /\ Len(cs) = Len(bs) + 1 /\ Len(bs) > 0
      /\ \A i \in 1..Len(bs) : cs[i] = bs[i]
      /\ cs[Len(bs) + 1] = new
  BY Appended DEF BlocksLinked
<1>3. /\ new.number = bs[Len(bs)].number + 1 /\ new.parent_hash = bs[Len(bs)].hash
      /\ new.state_root = state_root(s)
      /\ new.hash = <<new.number, new.parent_hash, new.state_root>>
  BY DEF SealBlock, compute_hash, Last
<1> HIDE DEF new, cs, tip
<1>4. \A i \in 1..Len(cs) : cs[i].hash = compute_hash(cs[i])
  <2>1. ASSUME NEW i \in 1..Len(cs) PROVE cs[i].hash = compute_hash(cs[i])
    <3>1. CASE i \in 1..Len(bs)
      BY <3>1, <1>2 DEF BlocksLinked
    <3>2. CASE i = Len(bs) + 1
      BY <3>2, <1>2, <1>3 DEF compute_hash
    <3>3. QED
      BY <1>2, <3>1, <3>2
  <2>2. QED
    BY <2>1
<1>5. \A i \in 2..Len(cs) : cs[i].number = cs[i - 1].number + 1
                            /\ cs[i].parent_hash = cs[i - 1].hash
  <2>1. ASSUME NEW i \in 2..Len(cs)
        PROVE  cs[i].number = cs[i - 1].number + 1 /\ cs[i].parent_hash = cs[i - 1].hash
    <3>0. i - 1 \in 1..Len(bs)
      BY <1>2
    <3>1. CASE i \in 2..Len(bs)
      BY <3>0, <3>1, <1>2 DEF BlocksLinked
    <3>2. CASE i = Len(bs) + 1
      <4>1. i - 1 = Len(bs)
        BY <3>2, <1>2
      <4>2. QED
        BY <4>1, <3>0, <3>2, <1>2, <1>3
    <3>3. QED
      BY <1>2, <3>1, <3>2
  <2>2. QED
    BY <2>1
<1>6. cs[1].number = 0 /\ cs[1] = bs[1]
  BY <1>2 DEF BlocksLinked
<1>7. cs # <<>>
  BY <1>2, EmptySeq
<1>8. StateMatchesTip(cs, s)
  BY <1>2, <1>3 DEF StateMatchesTip, Last
<1>9. QED
  BY <1>1, <1>2, <1>4, <1>5, <1>6, <1>7, <1>8 DEF BlocksLinked

LEMMA FreshChain ==
  /\ IsSeq(Fresh.blocks) /\ BlocksLinked(Fresh.blocks) /\ Len(Fresh.blocks) = 1
  /\ Fresh.blocks[1] = GenesisBlock
<1>1. Fresh.blocks = <<GenesisBlock>>
  BY DEF Fresh
<1>2. <<GenesisBlock>> \in Seq({GenesisBlock})
  OBVIOUS
<1>3. /\ GenesisBlock.number = 0
      /\ GenesisBlock.hash = compute_hash(GenesisBlock)
  BY DEF GenesisBlock, SealBlock, compute_hash
<1>4. BlocksLinked(<<GenesisBlock>>)
  BY <1>3 DEF BlocksLinked
<1>5. IsSeq(<<GenesisBlock>>)
  BY <1>2 DEF IsSeq
<1>6. Len(<<GenesisBlock>>) = 1 /\ <<GenesisBlock>>[1] = GenesisBlock
  OBVIOUS
<1>7. QED
  BY <1>1, <1>4, <1>5, <1>6

(* Threads and files *)

\* A set of snapshots may be widened.
LEMMA Wider ==
  ASSUME NEW S, NEW x, TypedBy(S), IsSnapshot(x)
  PROVE  TypedBy(S \cup {x})
<1>1. Bytes(S) \subseteq Bytes(S \cup {x})
  BY DEF Bytes
<1>2. Seq(Bytes(S)) \subseteq Seq(Bytes(S \cup {x}))
  BY <1>1, SeqMonotonic
<1>3. inode \in [Inodes -> [data : Seq(Bytes(S \cup {x})), synced : BOOLEAN]]
  BY <1>2 DEF TypedBy
<1>4. saver \in [Savers -> SaverStates(S \cup {x})]
  BY DEF TypedBy, SaverStates
<1>5. QED
  BY <1>3, <1>4 DEF TypedBy

\* A write keeps a file a sequence of bytes.
LEMMA Wrote ==
  ASSUME NEW B, NEW data \in Seq(B), Hole \in B, NEW i \in Nat \ {0}, NEW chunk \in B
  PROVE  WriteAt(data, i, chunk) \in Seq(B)
<1> DEFINE n == IF i > Len(data) THEN i ELSE Len(data)
           e(k) == IF k = i THEN chunk ELSE IF k <= Len(data) THEN data[k] ELSE Hole
<1>1. Len(data) \in Nat /\ n \in Nat
  OBVIOUS
<1>2. \A k \in 1..n : e(k) \in B
  OBVIOUS
<1>3. [k \in 1..n |-> e(k)] \in [1..n -> B]
  BY <1>2
<1>4. [k \in 1..n |-> e(k)] \in Seq(B)
  BY <1>1, <1>3, SeqDef
<1>5. QED
  BY <1>4 DEF WriteAt

\* The bytes of a snapshot.
LEMMA SerializedBytes ==
  ASSUME NEW S, NEW x \in S, IsSeq(x.blocks)
  PROVE  /\ Serialized(x) \in Seq(Bytes(S))
         /\ Len(Serialized(x)) = Len(x.blocks)
         /\ Len(x.blocks) \in Nat
         /\ \A i \in 1..Len(x.blocks) : Serialized(x)[i] = <<x, i>>
<1>1. Len(x.blocks) \in Nat
  BY Appended
<1>2. Serialized(x) \in [1..Len(x.blocks) -> Bytes(S)]
  BY <1>1 DEF Serialized, Bytes
<1>3. Serialized(x) \in Seq(Bytes(S))
  BY <1>1, <1>2, SeqDef
<1>4. QED
  BY <1>1, <1>3 DEF Serialized

\* What is read from the live file is one of the snapshots of the run.
LEMMA LiveIsKnown ==
  ASSUME NEW S, TypedBy(S)
  PROVE  Live \in S
<1>1. CASE dir.target = NoFile
  BY <1>1 DEF TypedBy, Live
<1>2. CASE dir.target # NoFile
  <2> DEFINE data == inode[dir.target].data
  <2>1. data \in Seq(Bytes(S)) /\ NoSnapshot \in S
    BY <1>2 DEF TypedBy
  <2>2. CASE data # <<>> /\ data[1] # Hole
    <3>1. data[1] \in Bytes(S)
      BY <2>1, <2>2, EmptySeq, ElementOfSeq
    <3>2. data[1] \in S \X Nat
      BY <3>1, <2>2 DEF Bytes
    <3>3. data[1][1] \in S
      BY <3>2
    <3>4. QED
      BY <1>2, <2>1, <3>3 DEF Live, Parsed
  <2>3. CASE ~(data # <<>> /\ data[1] # Hole)
    BY <1>2, <2>1, <2>3 DEF Live, Parsed
  <2>4. QED
    BY <2>2, <2>3
<1>3. QED
  BY <1>1, <1>2

\* Removing one block leaves a sequence.
LEMMA CorruptedIsSnapshot ==
  ASSUME NEW s, IsSnapshot(s), NEW x \in Corrupted(s)
  PROVE  IsSnapshot(x)
<1>0. PICK B : s.blocks \in Seq(B)
  BY DEF IsSnapshot, IsSeq
<1>1. CASE \E k \in DOMAIN s.state : x = [s EXCEPT !.state[k] = @ + 1]
  <2>1. PICK k \in DOMAIN s.state : x = [s EXCEPT !.state[k] = @ + 1]
    BY <1>1
  <2>2. x = [blocks |-> s.blocks, state |-> [s.state EXCEPT ![k] = @ + 1]]
    BY <2>1 DEF IsSnapshot
  <2>3. QED
    BY <2>2 DEF IsSnapshot
<1>2. CASE \E i \in 2..Len(s.blocks) : x = [s EXCEPT !.blocks[i].state_root = None]
  <2>1. PICK i \in 2..Len(s.blocks) : x = [s EXCEPT !.blocks[i].state_root = None]
    BY <1>2
  <2>2. PICK e : e = [s.blocks[i] EXCEPT !.state_root = None]
    OBVIOUS
  <2>3. x = [blocks |-> [s.blocks EXCEPT ![i] = e], state |-> s.state]
    BY <2>1, <2>2 DEF IsSnapshot
  <2>4. s.blocks \in Seq(B \cup {e})
    BY <1>0
  <2>5. i \in 1..Len(s.blocks)
    BY <1>0
  <2>6. [s.blocks EXCEPT ![i] = e] \in Seq(B \cup {e})
    BY <2>4, <2>5, ExceptSeq
  <2>7. QED
    BY <2>3, <2>6 DEF IsSnapshot, IsSeq
<1>3. CASE \E i \in 1..Len(s.blocks) : x = [s EXCEPT !.blocks = RemoveAt(@, i)]
  <2>1. PICK i \in 1..Len(s.blocks) : x = [s EXCEPT !.blocks = RemoveAt(@, i)]
    BY <1>3
  <2>2. x = [blocks |-> RemoveAt(s.blocks, i), state |-> s.state]
    BY <2>1 DEF IsSnapshot
  <2>3. Len(s.blocks) \in Nat /\ \A k \in 1..Len(s.blocks) : s.blocks[k] \in B
    BY <1>0, ElementOfSeq
  <2>4. SubSeq(s.blocks, 1, i - 1) \in Seq(B)
    BY <2>3, SubSeqProperties
  <2>5. SubSeq(s.blocks, i + 1, Len(s.blocks)) \in Seq(B)
    BY <2>3, SubSeqProperties
  <2>6. RemoveAt(s.blocks, i) \in Seq(B)
    BY <2>4, <2>5, ConcatProperties DEF RemoveAt
  <2>7. QED
    BY <2>2, <2>6 DEF IsSnapshot, IsSeq
<1>4. QED
  BY <1>1, <1>2, <1>3 DEF Corrupted

----------------------------------------------------------------------------
(* The invariant, action by action *)

LEMMA InitInv == Init => Inv
<1> SUFFICES ASSUME Init PROVE Inv
  OBVIOUS
<1>1. <<>> \in Seq(Bytes({NoSnapshot}))
  BY EmptySeq
<1>2. TypedBy({NoSnapshot})
  <2>1. inode \in [Inodes -> [data : Seq(Bytes({NoSnapshot})), synced : BOOLEAN]]
    BY <1>1 DEF Init
  <2>2. saver \in [Savers -> SaverStates({NoSnapshot})]
    BY DEF Init, Idle, Steps, SaverStates
  <2>3. QED
    BY <2>1, <2>2, FreshChain DEF TypedBy, Init
<1>3. SaverLocals
  BY DEF SaverLocals, Init, Idle, Saving, Writing
<1>4. RunningStateIsItsTip
  BY FreshChain DEF RunningStateIsItsTip, Init
<1>5. QED
  BY <1>2, <1>3, <1>4 DEF Inv

\* Producing or applying a block.
LEMMA ExtendKeeps ==
  ASSUME NEW S, TypedBy(S), RunningStateIsItsTip, phase # "down",
         Extend \/ chain' = chain, phase' = phase
  PROVE  /\ IsSeq(chain'.blocks) /\ RunningStateIsItsTip'
         /\ chain'.blocks[1] = chain.blocks[1]
<1>1. CASE chain' = chain
  BY <1>1 DEF TypedBy, RunningStateIsItsTip
<1>2. CASE Extend
  <2>1. PICK s : chain' = extended(chain, s)
    BY <1>2 DEF Extend
  <2>2. IsSeq(chain.blocks) /\ BlocksLinked(chain.blocks)
    BY DEF TypedBy, RunningStateIsItsTip
  <2>3. QED
    BY <2>1, <2>2, SealedChain DEF RunningStateIsItsTip
<1>3. QED
  BY <1>1, <1>2

LEMMA Fields ==
  ASSUME NEW S, NEW r \in SaverStates(S)
  PROVE  r = [pc |-> r.pc, snap |-> r.snap, fd |-> r.fd, at |-> r.at]
BY DEF SaverStates

\* A thread that moves on inside tick or save.
LEMMA Moved ==
  ASSUME NEW S, TypedBy(S), NEW s \in Savers, NEW p \in Steps,
         saver' = [saver EXCEPT ![s].pc = p]
  PROVE  /\ saver' = [saver EXCEPT ![s] = [pc |-> p, snap |-> saver[s].snap,
                                           fd |-> saver[s].fd, at |-> saver[s].at]]
         /\ saver' \in [Savers -> SaverStates(S)]
<1>1. saver \in [Savers -> SaverStates(S)]
  BY DEF TypedBy
<1>2. [saver[s] EXCEPT !.pc = p] = [pc |-> p, snap |-> saver[s].snap,
                                    fd |-> saver[s].fd, at |-> saver[s].at]
  BY <1>1 DEF SaverStates
<1>3. saver' = [saver EXCEPT ![s] = [saver[s] EXCEPT !.pc = p]]
  BY <1>1
<1>4. [saver[s] EXCEPT !.pc = p] \in SaverStates(S)
  BY <1>1 DEF SaverStates
<1>5. QED
  BY <1>1, <1>2, <1>3, <1>4

LEMMA TickKeeps ==
  ASSUME Inv, Tick
  PROVE  Inv'
<1>1. PICK S : TypedBy(S)
  BY DEF Inv
<1>2. /\ saver' = [saver EXCEPT !["ticker"] =
              [pc |-> "produce", snap |-> saver["ticker"].snap,
               fd |-> saver["ticker"].fd, at |-> saver["ticker"].at]]
      /\ saver' \in [Savers -> SaverStates(S)]
  BY <1>1, Moved DEF Tick, Savers, Steps
<1>3. TypedBy(S)'
  BY <1>1, <1>2 DEF TypedBy, Tick
<1>4. SaverLocals'
  BY <1>1, <1>2 DEF Inv, SaverLocals, TypedBy, SaverStates, Tick, Savers, Saving, Writing, Idle
<1>5. RunningStateIsItsTip'
  BY DEF Inv, RunningStateIsItsTip, Tick
<1>6. QED
  BY <1>3, <1>4, <1>5 DEF Inv

LEMMA ProduceKeeps ==
  ASSUME Inv, Produce
  PROVE  Inv'
<1>1. PICK S : TypedBy(S)
  BY DEF Inv
<1>2. /\ saver' = [saver EXCEPT !["ticker"] =
              [pc |-> "export", snap |-> saver["ticker"].snap,
               fd |-> saver["ticker"].fd, at |-> saver["ticker"].at]]
      /\ saver' \in [Savers -> SaverStates(S)]
  BY <1>1, Moved DEF Produce, Savers, Steps
<1>3. phase # "down"
  BY DEF Inv, SaverLocals, Savers, Produce
<1>4. IsSeq(chain'.blocks) /\ RunningStateIsItsTip'
  BY <1>1, <1>3, ExtendKeeps DEF Produce, Inv
<1>5. TypedBy(S)'
  BY <1>1, <1>2, <1>4 DEF TypedBy, Produce
<1>6. SaverLocals'
  BY <1>1, <1>2 DEF Inv, SaverLocals, TypedBy, SaverStates, Produce, Savers, Saving, Writing, Idle
<1>7. QED
  BY <1>4, <1>5, <1>6 DEF Inv

LEMMA OnBlockKeeps ==
  ASSUME Inv, OnBlock
  PROVE  Inv'
<1>1. PICK S : TypedBy(S)
  BY DEF Inv
<1>2. IsSeq(chain'.blocks) /\ RunningStateIsItsTip'
  BY <1>1, ExtendKeeps DEF OnBlock, Inv
<1>3. TypedBy(S)'
  BY <1>1, <1>2 DEF TypedBy, OnBlock
<1>4. SaverLocals'
  BY DEF Inv, SaverLocals, OnBlock, Saving, Writing
<1>5. QED
  BY <1>2, <1>3, <1>4 DEF Inv

LEMMA CtrlCKeeps ==
  ASSUME Inv, CtrlC
  PROVE  Inv'
<1>1. PICK S : TypedBy(S)
  BY DEF Inv
<1>2. /\ saver' = [saver EXCEPT !["closer"] =
              [pc |-> "export", snap |-> saver["closer"].snap,
               fd |-> saver["closer"].fd, at |-> saver["closer"].at]]
      /\ saver' \in [Savers -> SaverStates(S)]
  BY <1>1, Moved DEF CtrlC, Savers, Steps
<1>3. TypedBy(S)'
  BY <1>1, <1>2 DEF TypedBy, CtrlC
<1>4. SaverLocals'
  BY <1>1, <1>2 DEF Inv, SaverLocals, TypedBy, SaverStates, CtrlC, Savers, Saving, Writing, Idle
<1>5. RunningStateIsItsTip'
  BY DEF Inv, RunningStateIsItsTip, CtrlC
<1>6. QED
  BY <1>3, <1>4, <1>5 DEF Inv

LEMMA ExportKeeps ==
  ASSUME Inv, NEW s \in Savers, Export(s)
  PROVE  Inv'
<1>1. PICK S : TypedBy(S)
  BY DEF Inv
<1>2. PICK x : x = export_snapshot(chain)
  OBVIOUS
<1>3. x.blocks = chain.blocks /\ x = [blocks |-> x.blocks, state |-> x.state]
  BY <1>2 DEF export_snapshot
<1>4. IsSnapshot(x)
  BY <1>1, <1>3 DEF IsSnapshot, TypedBy
<1>5. x # NoSnapshot
  <2>1. DOMAIN x = {"blocks", "state"}
    BY <1>3
  <2>2. DOMAIN NoSnapshot = {}
    BY DEF NoSnapshot
  <2>3. QED
    BY <2>1, <2>2
<1>6. phase # "down"
  BY DEF Inv, SaverLocals, Export
<1>7. Len(x.blocks) > 0
  BY <1>1, <1>3, <1>6, Appended DEF Inv, TypedBy, RunningStateIsItsTip, BlocksLinked
<1>8. saver' = [saver EXCEPT ![s] = [pc |-> "create", snap |-> x,
                                     fd |-> saver[s].fd, at |-> saver[s].at]]
  <2>1. saver \in [Savers -> SaverStates(S)]
    BY <1>1 DEF TypedBy
  <2>2. saver' = [saver EXCEPT ![s] = [saver[s] EXCEPT !.pc = "create", !.snap = x]]
    BY <1>2, <2>1 DEF Export
  <2>3. PICK r : r = [saver[s] EXCEPT !.pc = "create", !.snap = x]
    OBVIOUS
  <2>4. r \in SaverStates(S \cup {x})
    BY <2>1, <2>3 DEF SaverStates, Steps
  <2>5. r.pc = "create" /\ r.snap = x /\ r.fd = saver[s].fd /\ r.at = saver[s].at
    BY <2>1, <2>3 DEF SaverStates
  <2>6. r = [pc |-> "create", snap |-> x, fd |-> saver[s].fd, at |-> saver[s].at]
    BY <2>4, <2>5, Fields
  <2>7. QED
    BY <2>2, <2>3, <2>6
<1>9. TypedBy(S \cup {x})
  BY <1>1, <1>4, Wider
<1>10. TypedBy(S \cup {x})'
  <2>1. saver' \in [Savers -> SaverStates(S \cup {x})]
    BY <1>8, <1>9 DEF TypedBy, SaverStates, Steps
  <2>2. QED
    BY <1>9, <2>1 DEF TypedBy, Export
<1>11. SaverLocals'
  <2>1. saver \in [Savers -> SaverStates(S)] /\ saver[s].pc = "export" /\ phase' = phase
    BY <1>1 DEF TypedBy, Export
  <2>2. \A t \in Savers \ {s} : saver'[t] = saver[t]
    BY <1>8, <2>1
  <2>3. saver'[s] = [pc |-> "create", snap |-> x, fd |-> saver[s].fd, at |-> saver[s].at]
    BY <1>8, <2>1
  <2>4. QED
    BY <1>5, <1>6, <1>7, <2>1, <2>2, <2>3 DEF Inv, SaverLocals, Saving, Writing
<1>12. RunningStateIsItsTip'
  BY DEF Inv, RunningStateIsItsTip, Export
<1>13. QED
  BY <1>10, <1>11, <1>12 DEF Inv

\* There is always a free inode: at most the target and one other thread's file are taken.
LEMMA SomeUnused ==
  ASSUME NEW S, TypedBy(S), SaverLocals, NEW s \in Savers, saver[s].pc = "create",
         dir.tmp = NoFile
  PROVE  Unused # {}
<1>1. PICK t \in Savers : Savers = {s, t}
  BY DEF Savers
<1>2. saver[s].fd = NoFile
  BY DEF SaverLocals, Writing
<1>3. PICK i \in 1..3 : i # dir.target /\ i # saver[t].fd
  <2>1. PICK a, b : a = dir.target /\ b = saver[t].fd
    OBVIOUS
  <2>2. \E i \in 1..3 : i # a /\ i # b
    <3>1. 1 \in 1..3 /\ 2 \in 1..3 /\ 3 \in 1..3 /\ 1 # 2 /\ 2 # 3 /\ 1 # 3
      OBVIOUS
    <3>2. QED
      BY <3>1
  <2>3. QED
    BY <2>1, <2>2
<1>4. i \in Unused
  BY <1>1, <1>2, <1>3 DEF Unused, Inodes, NoFile
<1>5. QED
  BY <1>4

LEMMA Created ==
  ASSUME NEW S, TypedBy(S), SaverLocals, NEW s \in Savers, Create(s)
  PROVE  \E i \in Inodes :
           /\ dir.tmp # NoFile => i = dir.tmp
           /\ dir.tmp = NoFile => i # dir.target
           /\ inode' = [inode EXCEPT ![i] = [data |-> <<>>, synced |-> FALSE]]
           /\ dir' = [dir EXCEPT !.tmp = i]
           /\ saver' = [saver EXCEPT ![s] = [pc |-> "write", snap |-> saver[s].snap,
                                             fd |-> i, at |-> 0]]
<1> DEFINE i == IF dir.tmp # NoFile THEN dir.tmp ELSE CHOOSE k \in Unused : TRUE
<1>1. /\ inode' = [inode EXCEPT ![i] = [data |-> <<>>, synced |-> FALSE]]
      /\ dir' = [dir EXCEPT !.tmp = i]
      /\ saver' = [saver EXCEPT ![s] = [@ EXCEPT !.pc = "write", !.fd = i, !.at = 0]]
  BY DEF Create
<1>2. /\ i \in Inodes
      /\ dir.tmp # NoFile => i = dir.tmp
      /\ dir.tmp = NoFile => i # dir.target
  <2>1. CASE dir.tmp # NoFile
    BY <1>1, <2>1 DEF TypedBy
  <2>2. CASE dir.tmp = NoFile
    <3>1. i \in Unused
      BY <1>1, <2>2, SomeUnused DEF Create
    <3>2. QED
      BY <2>2, <3>1 DEF Unused
  <2>3. QED
    BY <2>1, <2>2
<1>3. saver' = [saver EXCEPT ![s] = [pc |-> "write", snap |-> saver[s].snap,
                                     fd |-> i, at |-> 0]]
  <2> HIDE DEF i
  <2>1. saver \in [Savers -> SaverStates(S)]
    BY DEF TypedBy
  <2>2. PICK r : r = [saver[s] EXCEPT !.pc = "write", !.fd = i, !.at = 0]
    OBVIOUS
  <2>3. r \in SaverStates(S)
    BY <1>2, <2>1, <2>2 DEF SaverStates, Steps
  <2>4. r.pc = "write" /\ r.snap = saver[s].snap /\ r.fd = i /\ r.at = 0
    BY <2>1, <2>2 DEF SaverStates
  <2>5. r = [pc |-> "write", snap |-> saver[s].snap, fd |-> i, at |-> 0]
    BY <2>3, <2>4, Fields
  <2>6. QED
    BY <1>1, <2>1, <2>2, <2>5
<1>4. QED
  BY <1>1, <1>2, <1>3

LEMMA CreateKeeps ==
  ASSUME Inv, NEW s \in Savers, Create(s)
  PROVE  Inv'
<1>1. PICK S : TypedBy(S)
  BY DEF Inv
<1>2. PICK i \in Inodes :
        /\ inode' = [inode EXCEPT ![i] = [data |-> <<>>, synced |-> FALSE]]
        /\ dir' = [dir EXCEPT !.tmp = i]
        /\ saver' = [saver EXCEPT ![s] = [pc |-> "write", snap |-> saver[s].snap,
                                          fd |-> i, at |-> 0]]
  BY <1>1, Created DEF Inv
<1>3. saver[s].pc = "create" /\ phase' = phase /\ chain' = chain
  BY DEF Create
<1>4. TypedBy(S)'
  <2>1. <<>> \in Seq(Bytes(S))
    BY EmptySeq
  <2>2. inode' \in [Inodes -> [data : Seq(Bytes(S)), synced : BOOLEAN]]
    BY <1>1, <1>2, <2>1 DEF TypedBy
  <2>3. saver' \in [Savers -> SaverStates(S)]
    BY <1>1, <1>2 DEF TypedBy, SaverStates, Steps
  <2>4. QED
    BY <1>1, <1>2, <2>2, <2>3 DEF TypedBy, Create
<1>5. i # NoFile
  BY DEF Inodes, NoFile
<1>6. SaverLocals'
  BY <1>1, <1>2, <1>3, <1>5 DEF Inv, SaverLocals, TypedBy, SaverStates, Saving, Writing, Idle
<1>7. RunningStateIsItsTip'
  BY <1>3 DEF Inv, RunningStateIsItsTip
<1>8. QED
  BY <1>4, <1>6, <1>7 DEF Inv

LEMMA Wrote1 ==
  ASSUME NEW S, TypedBy(S), SaverLocals, NEW s \in Savers, Write(s)
  PROVE  LET w == saver[s] IN
         /\ w.fd \in Inodes /\ w.at \in Nat
         /\ w.snap \in S /\ IsSnapshot(w.snap)
         /\ Len(w.snap.blocks) \in Nat /\ w.at < Len(w.snap.blocks)
         /\ inode' = [inode EXCEPT ![w.fd] =
              [data |-> WriteAt(inode[w.fd].data, w.at + 1, <<w.snap, w.at + 1>>),
               synced |-> FALSE]]
         /\ saver' = [saver EXCEPT ![s] =
              [pc |-> IF w.at + 1 = Len(w.snap.blocks) THEN "sync" ELSE "write",
               snap |-> w.snap, fd |-> w.fd, at |-> w.at + 1]]
<1> DEFINE w == saver[s]
           bytes == Serialized(w.snap)
<1>1. /\ w.pc = "write" /\ w.snap \in S /\ w.at \in Nat /\ w.fd \in Inodes
      /\ w.snap # NoSnapshot /\ w.at < Len(w.snap.blocks)
      /\ w = [pc |-> w.pc, snap |-> w.snap, fd |-> w.fd, at |-> w.at]
  BY DEF Write, TypedBy, SaverStates, SaverLocals, Saving, Writing
<1>2. IsSnapshot(w.snap)
  BY <1>1 DEF TypedBy
<1>3. /\ Len(bytes) = Len(w.snap.blocks) /\ Len(w.snap.blocks) \in Nat
      /\ \A i \in 1..Len(w.snap.blocks) : bytes[i] = <<w.snap, i>>
  BY <1>1, <1>2, SerializedBytes DEF IsSnapshot
<1>4. bytes[w.at + 1] = <<w.snap, w.at + 1>>
  BY <1>1, <1>3
<1>5. inode' = [inode EXCEPT ![w.fd] =
              [data |-> WriteAt(inode[w.fd].data, w.at + 1, bytes[w.at + 1]),
               synced |-> FALSE]]
  BY <1>1 DEF Write, TypedBy
<1>6. saver' = [saver EXCEPT ![s] = [@ EXCEPT !.at = w.at + 1,
                         !.pc = IF w.at + 1 = Len(bytes) THEN "sync" ELSE "write"]]
  BY DEF Write
<1>7. saver' = [saver EXCEPT ![s] =
              [pc |-> IF w.at + 1 = Len(bytes) THEN "sync" ELSE "write",
               snap |-> w.snap, fd |-> w.fd, at |-> w.at + 1]]
  <2>1. saver \in [Savers -> SaverStates(S)]
    BY DEF TypedBy
  <2> DEFINE done == w.at + 1 = Len(bytes)
  <2>2. PICK p : p = IF done THEN "sync" ELSE "write"
    OBVIOUS
  <2>3. saver' = [saver EXCEPT ![s] = [w EXCEPT !.at = w.at + 1, !.pc = p]]
    BY <1>6, <2>2
  <2>4. PICK r : r = [w EXCEPT !.at = w.at + 1, !.pc = p]
    OBVIOUS
  <2>5. p \in Steps
    BY <2>2 DEF Steps
  <2>6. r \in SaverStates(S)
    <3>1. w \in SaverStates(S) /\ w.at + 1 \in Nat
      BY <1>1, <2>1
    <3> HIDE DEF w
    <3>2. QED
      BY <3>1, <2>4, <2>5 DEF SaverStates
  <2>7. r.pc = p /\ r.snap = w.snap /\ r.fd = w.fd /\ r.at = w.at + 1
    BY <2>1, <2>4 DEF SaverStates
  <2>8. r = [pc |-> p, snap |-> w.snap, fd |-> w.fd, at |-> w.at + 1]
    BY <2>6, <2>7, Fields
  <2>9. QED
    BY <2>2, <2>3, <2>4, <2>8
<1>8. QED
  BY <1>1, <1>2, <1>3, <1>4, <1>5, <1>7

LEMMA WriteKeeps ==
  ASSUME Inv, NEW s \in Savers, Write(s)
  PROVE  Inv'
<1>1. PICK S : TypedBy(S)
  BY DEF Inv
<1> DEFINE w == saver[s]
           done == w.at + 1 = Len(w.snap.blocks)
<1>2. /\ w.fd \in Inodes /\ w.at \in Nat
      /\ w.snap \in S /\ IsSnapshot(w.snap)
      /\ Len(w.snap.blocks) \in Nat /\ w.at < Len(w.snap.blocks)
      /\ inode' = [inode EXCEPT ![w.fd] =
              [data |-> WriteAt(inode[w.fd].data, w.at + 1, <<w.snap, w.at + 1>>),
               synced |-> FALSE]]
      /\ saver' = [saver EXCEPT ![s] =
              [pc |-> IF done THEN "sync" ELSE "write",
               snap |-> w.snap, fd |-> w.fd, at |-> w.at + 1]]
  BY <1>1, Wrote1 DEF Inv
<1>3. saver[s].pc = "write" /\ phase' = phase /\ chain' = chain
  BY DEF Write
<1>4. TypedBy(S)'
  <2>1. WriteAt(inode[w.fd].data, w.at + 1, <<w.snap, w.at + 1>>) \in Seq(Bytes(S))
    <3>1. inode[w.fd].data \in Seq(Bytes(S)) /\ Hole \in Bytes(S)
      BY <1>1, <1>2 DEF TypedBy, Bytes
    <3>2. <<w.snap, w.at + 1>> \in Bytes(S) /\ w.at + 1 \in Nat \ {0}
      BY <1>2 DEF Bytes
    <3>3. QED
      BY <3>1, <3>2, Wrote
  <2>2. inode' \in [Inodes -> [data : Seq(Bytes(S)), synced : BOOLEAN]]
    BY <1>1, <1>2, <2>1 DEF TypedBy
  <2>3. saver' \in [Savers -> SaverStates(S)]
    BY <1>1, <1>2 DEF TypedBy, SaverStates, Steps
  <2>4. QED
    BY <1>1, <1>2, <2>2, <2>3 DEF TypedBy, Write
<1>5. SaverLocals'
  BY <1>1, <1>2, <1>3 DEF Inv, SaverLocals, TypedBy, SaverStates, Saving, Writing, Idle
<1>6. RunningStateIsItsTip'
  BY <1>3 DEF Inv, RunningStateIsItsTip
<1>7. QED
  BY <1>4, <1>5, <1>6 DEF Inv

LEMMA SyncKeeps ==
  ASSUME Inv, NEW s \in Savers, Sync(s)
  PROVE  Inv'
<1>1. PICK S : TypedBy(S)
  BY DEF Inv
<1>2. /\ saver' = [saver EXCEPT ![s] = [pc |-> "rename", snap |-> saver[s].snap,
                                       fd |-> saver[s].fd, at |-> saver[s].at]]
      /\ saver' \in [Savers -> SaverStates(S)]
  BY <1>1, Moved DEF Sync, Steps
<1>3. inode' = [inode EXCEPT ![saver[s].fd] = [@ EXCEPT !.synced = TRUE]]
  BY DEF Sync
<1>4. TypedBy(S)'
  <2>1. inode' \in [Inodes -> [data : Seq(Bytes(S)), synced : BOOLEAN]]
    BY <1>1, <1>3 DEF TypedBy
  <2>2. QED
    BY <1>1, <1>2, <2>1 DEF TypedBy, Sync
<1>5. SaverLocals'
  BY <1>1, <1>2 DEF Inv, SaverLocals, TypedBy, SaverStates, Sync, Saving, Writing, Idle
<1>6. RunningStateIsItsTip'
  BY DEF Inv, RunningStateIsItsTip, Sync
<1>7. QED
  BY <1>4, <1>5, <1>6 DEF Inv

\* A thread that returns from save, one way or the other.
LEMMA DoneKeeps ==
  ASSUME NEW S, TypedBy(S), SaverLocals, NEW s \in Savers, saver' = Done(s), phase' = phase
  PROVE  /\ saver' \in [Savers -> SaverStates(S)]
         /\ SaverLocals'
<1>1. saver' = [saver EXCEPT ![s] = Idle]
  BY DEF Done
<1>2. Idle \in SaverStates(S)
  BY DEF Idle, Steps, TypedBy, SaverStates
<1>3. saver' \in [Savers -> SaverStates(S)]
  BY <1>1, <1>2 DEF TypedBy
<1>4. Idle.pc = "idle" /\ Idle.fd = NoFile
  BY DEF Idle
<1>5. SaverLocals'
  BY <1>1, <1>4 DEF SaverLocals, TypedBy, Saving, Writing
<1>6. QED
  BY <1>3, <1>5

LEMMA RenameKeeps ==
  ASSUME Inv, NEW s \in Savers, Rename(s)
  PROVE  Inv'
<1>1. PICK S : TypedBy(S)
  BY DEF Inv
<1>2. saver' = Done(s) /\ phase' = phase /\ chain' = chain
  BY DEF Rename
<1>3. dir' \in [target : Inodes \cup {NoFile}, tmp : Inodes \cup {NoFile}] /\ stored' \in S
  BY <1>1 DEF Rename, TypedBy, SaverStates
<1>4. TypedBy(S)'
  BY <1>1, <1>2, <1>3, DoneKeeps DEF TypedBy, Rename, Inv
<1>5. SaverLocals'
  BY <1>1, <1>2, DoneKeeps DEF Inv
<1>6. RunningStateIsItsTip'
  BY <1>2 DEF Inv, RunningStateIsItsTip
<1>7. QED
  BY <1>4, <1>5, <1>6 DEF Inv

LEMMA SaveFailsKeeps ==
  ASSUME Inv, NEW s \in Savers, SaveFails(s)
  PROVE  Inv'
<1>1. PICK S : TypedBy(S)
  BY DEF Inv
<1>2. saver' = Done(s) /\ phase' = phase /\ chain' = chain
  BY DEF SaveFails
<1>3. TypedBy(S)'
  <2>1. faults' \in [crashes : Nat, failures : Nat, corrupt : Nat]
    BY <1>1 DEF TypedBy, SaveFails
  <2>2. saver' \in [Savers -> SaverStates(S)]
    BY <1>1, <1>2, DoneKeeps DEF Inv
  <2>3. QED
    BY <1>1, <2>1, <2>2 DEF TypedBy, SaveFails
<1>4. SaverLocals'
  BY <1>1, <1>2, DoneKeeps DEF Inv
<1>5. RunningStateIsItsTip'
  BY <1>2 DEF Inv, RunningStateIsItsTip
<1>6. QED
  BY <1>3, <1>4, <1>5 DEF Inv

LEMMA ExitKeeps ==
  ASSUME Inv, Exit
  PROVE  Inv'
<1>1. PICK S : TypedBy(S)
  BY DEF Inv
<1>2. TypedBy(S)'
  BY <1>1 DEF TypedBy, Exit
<1>3. SaverLocals'
  BY DEF Inv, SaverLocals, Exit, Saving, Writing
<1>4. RunningStateIsItsTip'
  BY DEF RunningStateIsItsTip, Exit
<1>5. QED
  BY <1>2, <1>3, <1>4 DEF Inv

\* What a crash leaves of a file: all of it, or the first bytes of an unsynced one.
LEMMA Survives ==
  ASSUME NEW S, TypedBy(S), Crash
  PROVE  /\ inode' \in [Inodes -> [data : Seq(Bytes(S)), synced : BOOLEAN]]
         /\ \A i \in Inodes : inode'[i].synced /\ (inode[i].synced => inode'[i] = inode[i])
<1>1. PICK keep \in [Inodes -> 0..(MaxHeight + 1)] :
        /\ \A i \in Inodes : IF inode[i].synced THEN keep[i] = 0
                             ELSE keep[i] <= Len(inode[i].data)
        /\ inode' = [i \in Inodes |->
              IF inode[i].synced THEN inode[i]
              ELSE [data |-> SubSeq(inode[i].data, 1, keep[i]), synced |-> TRUE]]
  BY DEF Crash
<1>2. ASSUME NEW i \in Inodes
      PROVE  /\ inode'[i] \in [data : Seq(Bytes(S)), synced : BOOLEAN]
             /\ inode'[i].synced /\ (inode[i].synced => inode'[i] = inode[i])
  <2>1. inode[i] \in [data : Seq(Bytes(S)), synced : BOOLEAN]
    BY DEF TypedBy
  <2>2. CASE inode[i].synced
    BY <1>1, <2>1, <2>2
  <2>3. CASE ~inode[i].synced
    <3>1. keep[i] \in Nat /\ keep[i] <= Len(inode[i].data) /\ Len(inode[i].data) \in Nat
      BY <1>1, <2>1, <2>3, BoundsAssumption
    <3>2. \A k \in 1..keep[i] : inode[i].data[k] \in Bytes(S)
      BY <2>1, <3>1, ElementOfSeq
    <3>3. SubSeq(inode[i].data, 1, keep[i]) \in Seq(Bytes(S))
      BY <3>1, <3>2, SubSeqProperties
    <3>4. inode'[i] = [data |-> SubSeq(inode[i].data, 1, keep[i]), synced |-> TRUE]
      BY <1>1, <2>3
    <3>5. QED
      BY <2>3, <3>3, <3>4
  <2>4. QED
    BY <2>2, <2>3
<1>3. QED
  BY <1>1, <1>2

LEMMA CrashKeeps ==
  ASSUME Inv, Crash
  PROVE  Inv'
<1>1. PICK S : TypedBy(S)
  BY DEF Inv
<1>2. saver' = [s \in Savers |-> Idle] /\ phase' = "down"
  BY DEF Crash
<1>3. Idle \in SaverStates(S)
      /\ Idle.pc = "idle" /\ Idle.fd = NoFile
  BY <1>1 DEF Idle, Steps, TypedBy, SaverStates
<1>4. TypedBy(S)'
  <2>1. inode' \in [Inodes -> [data : Seq(Bytes(S)), synced : BOOLEAN]]
    BY <1>1, Survives
  <2>2. saver' \in [Savers -> SaverStates(S)]
    BY <1>2, <1>3
  <2>3. faults' \in [crashes : Nat, failures : Nat, corrupt : Nat]
    BY <1>1 DEF TypedBy, Crash
  <2>4. QED
    BY <1>1, <1>2, <2>1, <2>2, <2>3 DEF TypedBy, Crash
<1>5. SaverLocals'
  BY <1>2, <1>3 DEF SaverLocals, Saving, Writing
<1>6. RunningStateIsItsTip'
  BY <1>2 DEF RunningStateIsItsTip
<1>7. QED
  BY <1>4, <1>5, <1>6 DEF Inv

LEMMA BootKeeps ==
  ASSUME Inv, Boot
  PROVE  Inv'
<1>1. PICK S : TypedBy(S)
  BY DEF Inv
<1>2. IsSeq(chain'.blocks) /\ RunningStateIsItsTip'
  <2>1. CASE load # NoSnapshot
    <3>1. load = Live /\ verify(Live)
      BY <2>1 DEF load
    <3>2. chain' = from_snapshot(Live)
      BY <2>1, <3>1 DEF Boot
    <3>3. chain'.blocks = Live.blocks /\ chain'.state = import_state(Live.state)
      BY <3>2 DEF from_snapshot
    <3>4. Live \in S /\ Live # NoSnapshot
      BY <1>1, <2>1, <3>1, LiveIsKnown
    <3>5. IsSeq(chain'.blocks)
      BY <1>1, <3>3, <3>4 DEF TypedBy, IsSnapshot
    <3>6. QED
      BY <3>1, <3>3, <3>5 DEF verify, RunningStateIsItsTip
  <2>2. CASE load = NoSnapshot
    <3>1. chain' = Fresh
      BY <2>2 DEF Boot
    <3>2. QED
      BY <3>1, FreshChain DEF RunningStateIsItsTip
  <2>3. QED
    BY <2>1, <2>2
<1>3. TypedBy(S)'
  BY <1>1, <1>2 DEF TypedBy, Boot
<1>4. SaverLocals'
  BY DEF Inv, SaverLocals, Boot, Saving, Writing
<1>5. QED
  BY <1>2, <1>3, <1>4 DEF Inv

LEMMA CorruptKeeps ==
  ASSUME Inv, Corrupt
  PROVE  Inv'
<1>1. PICK S : TypedBy(S)
  BY DEF Inv
<1>2. PICK data \in {Serialized(x) : x \in Corrupted(Live)} \cup {<<Hole>>} :
        inode' = [inode EXCEPT ![dir.target].data = data]
  BY DEF Corrupt
<1>3. \E T : TypedBy(T) /\ data \in Seq(Bytes(T))
  <2>1. CASE data = <<Hole>>
    BY <1>1, <2>1 DEF Bytes
  <2>2. CASE data \in {Serialized(x) : x \in Corrupted(Live)}
    <3>1. PICK x \in Corrupted(Live) : data = Serialized(x)
      BY <2>2
    <3>2. IsSnapshot(Live)
      BY <1>1, LiveIsKnown DEF Corrupt, TypedBy
    <3>3. IsSnapshot(x)
      BY <3>1, <3>2, CorruptedIsSnapshot
    <3>4. TypedBy(S \cup {x})
      BY <1>1, <3>3, Wider
    <3>5. data \in Seq(Bytes(S \cup {x}))
      BY <3>1, <3>3, SerializedBytes DEF IsSnapshot
    <3>6. QED
      BY <3>4, <3>5
  <2>3. QED
    BY <2>1, <2>2
<1>4. PICK T : TypedBy(T) /\ data \in Seq(Bytes(T))
  BY <1>3
<1>5. TypedBy(T)'
  <2>1. inode' = [inode EXCEPT ![dir.target] = [@ EXCEPT !.data = data]]
    BY <1>2
  <2>2. inode' \in [Inodes -> [data : Seq(Bytes(T)), synced : BOOLEAN]]
    BY <1>4, <2>1 DEF TypedBy
  <2>3. faults' \in [crashes : Nat, failures : Nat, corrupt : Nat]
    BY <1>4 DEF TypedBy, Corrupt
  <2>4. QED
    BY <1>4, <2>2, <2>3 DEF TypedBy, Corrupt
<1>6. SaverLocals'
  BY DEF Inv, SaverLocals, Corrupt, Saving, Writing
<1>7. RunningStateIsItsTip'
  BY DEF RunningStateIsItsTip, Corrupt
<1>8. QED
  BY <1>5, <1>6, <1>7 DEF Inv

LEMMA NextKeepsInv ==
  ASSUME Inv, [Next]_vars
  PROVE  Inv'
<1>1. CASE Next
  BY <1>1, TickKeeps, ProduceKeeps, OnBlockKeeps, CtrlCKeeps, ExportKeeps, CreateKeeps,
     WriteKeeps, SyncKeeps, RenameKeeps, SaveFailsKeeps, ExitKeeps, CrashKeeps, BootKeeps,
     CorruptKeeps DEF Next
<1>2. CASE UNCHANGED vars
  <2>1. PICK S : TypedBy(S)
    BY DEF Inv
  <2>2. TypedBy(S)'
    BY <1>2, <2>1 DEF TypedBy, vars
  <2>3. SaverLocals' /\ RunningStateIsItsTip'
    BY <1>2 DEF Inv, vars, SaverLocals, RunningStateIsItsTip, Saving, Writing
  <2>4. QED
    BY <2>2, <2>3 DEF Inv
<1>3. QED
  BY <1>1, <1>2

LEMMA SpecInv == Spec => []Inv
BY InitInv, NextKeepsInv, PTL DEF Spec

\* Whatever crashes, failed saves and outside changes of the file came before, a
\* running node has a history linked from block 0 and the state its tip commits
\* to (persist.rs: load and verify; node/lib.rs: boot).
THEOREM StateIsTip == Spec => []RunningStateIsItsTip
<1>1. Inv => RunningStateIsItsTip
  BY DEF Inv
<1>2. QED
  BY <1>1, SpecInv, PTL

----------------------------------------------------------------------------
(***************************************************************************)
(* The file.  Disk is what makes a whole live file inductive: the one      *)
(* thread inside save owns the temporary, what it has written so far is a  *)
(* prefix of its snapshot, and the live file is all of the snapshot last   *)
(* published.  An outside change of the file ends all of that, but not     *)
(* what Threads says.                                                      *)
(***************************************************************************)
Threads ==
  /\ phase = "closing" => saver["ticker"].pc = "idle"
  /\ \A s \in Savers : Writing(s) => saver[s].fd = dir.tmp
  /\ \A s \in Savers : saver[s].pc = "rename" => inode[dir.tmp].synced
  /\ dir.tmp # NoFile => dir.tmp # dir.target
  /\ dir.target # NoFile => inode[dir.target].synced

Sound(x) ==
  /\ x.blocks[1] = GenesisBlock
  /\ BlocksLinked(x.blocks)

Written(s) ==
  /\ Len(inode[dir.tmp].data) = saver[s].at
  /\ \A k \in 1..saver[s].at : inode[dir.tmp].data[k] = <<saver[s].snap, k>>
  /\ saver[s].pc # "write" => saver[s].at = Len(saver[s].snap.blocks)

Disk ==
  /\ phase # "down" => chain.blocks[1] = GenesisBlock
  /\ \A s \in Savers : Saving(s) => Sound(saver[s].snap)
  /\ \A s \in Savers : Writing(s) => Written(s)
  /\ dir.target # NoFile <=> stored # NoSnapshot
  /\ dir.target # NoFile => inode[dir.target].data = Serialized(stored) /\ Sound(stored)

FileInv == Threads /\ (faults.corrupt = 0 => Disk)

\* In the p2p loop one thread at a time is inside tick or save.
LEMMA OneBusy ==
  ASSUME Inv, Threads, NEW s \in Savers, NEW t \in Savers,
         saver[s].pc # "idle", saver[t].pc # "idle"
  PROVE  s = t
<1>1. phase \in {"up", "closing", "down"}
  BY DEF Inv, TypedBy
<1>2. QED
  BY <1>1 DEF Inv, Threads, SaverLocals, Savers

\* What the last save published is what a read of the file returns.
LEMMA LiveIsStored ==
  ASSUME Inv, Disk
  PROVE  /\ Live = stored
         /\ stored # NoSnapshot => Sound(stored) /\ IsSnapshot(stored)
<1>1. PICK S : TypedBy(S)
  BY DEF Inv
<1>2. CASE dir.target = NoFile
  BY <1>2 DEF Disk, Live
<1>3. CASE dir.target # NoFile
  <2>1. stored # NoSnapshot /\ stored \in S /\ Sound(stored)
    BY <1>1, <1>3 DEF Disk, TypedBy
  <2>2. IsSnapshot(stored)
    BY <1>1, <2>1 DEF TypedBy
  <2> DEFINE data == Serialized(stored)
  <2>3. /\ data \in Seq(Bytes(S)) /\ Len(data) = Len(stored.blocks)
        /\ \A i \in 1..Len(stored.blocks) : data[i] = <<stored, i>>
    BY <2>1, <2>2, SerializedBytes DEF IsSnapshot
  <2>4. Len(stored.blocks) \in Nat /\ Len(stored.blocks) > 0
    BY <2>1, <2>2, Appended DEF IsSnapshot, Sound, BlocksLinked
  <2>5. data # <<>> /\ data[1] = <<stored, 1>>
    BY <2>3, <2>4
  <2> HIDE DEF data
  <2>6. data[1] # Hole /\ data[1][1] = stored
    BY <2>5 DEF Hole
  <2>7. Parsed(data) = stored
    BY <2>5, <2>6 DEF Parsed, data
  <2>8. QED
    BY <1>3, <2>1, <2>2, <2>7 DEF Live, Disk, data
<1>4. QED
  BY <1>2, <1>3

\* A step that leaves the disk alone, and at most brings a sound snapshot to save.
LEMMA Undisturbed ==
  ASSUME FileInv, UNCHANGED <<dir, inode, stored>>, faults'.corrupt = faults.corrupt,
         phase' = "closing" => saver'["ticker"].pc = "idle",
         \A t \in Savers : (Saving(t))' =>
            \/ saver'[t] = saver[t]
            \/ saver'[t].pc = "create" /\ (faults.corrupt = 0 => Sound(saver'[t].snap)),
         faults.corrupt = 0 /\ phase' # "down" => chain'.blocks[1] = GenesisBlock
  PROVE  FileInv'
<1>1. ASSUME NEW t \in Savers, (Writing(t))'
      PROVE  saver'[t] = saver[t] /\ Writing(t)
  BY <1>1 DEF Writing, Saving
<1>2. Threads'
  BY <1>1 DEF FileInv, Threads, Writing
<1>3. ASSUME faults'.corrupt = 0 PROVE Disk'
  <2>1. Disk
    BY <1>3 DEF FileInv
  <2>2. \A t \in Savers : (Saving(t))' => Sound(saver'[t].snap)
    BY <1>3, <2>1 DEF Disk, Saving
  <2>3. \A t \in Savers : (Writing(t))' => (Written(t))'
    BY <1>1, <2>1 DEF Disk, Written
  <2>4. QED
    BY <1>3, <2>1, <2>2, <2>3 DEF Disk
<1>4. QED
  BY <1>2, <1>3 DEF FileInv

LEMMA InitFile == Init => FileInv
<1> SUFFICES ASSUME Init PROVE FileInv
  OBVIOUS
<1>1. \A s \in Savers : saver[s] = Idle /\ saver[s].pc = "idle"
  BY DEF Init, Idle
<1>2. \A s \in Savers : ~Saving(s) /\ ~Writing(s) /\ saver[s].pc # "rename"
  BY <1>1 DEF Saving, Writing
<1>3. saver["ticker"].pc = "idle"
  BY <1>1 DEF Savers
<1>4. chain.blocks[1] = GenesisBlock
  BY FreshChain DEF Init
<1>5. QED
  BY <1>2, <1>3, <1>4 DEF FileInv, Threads, Disk, Init

LEMMA TickFile ==
  ASSUME Networked, Inv, FileInv, Tick \/ CtrlC
  PROVE  FileInv'
<1>1. PICK S : TypedBy(S)
  BY DEF Inv
<1>2. PICK s \in Savers, p \in {"produce", "export"} : saver' = [saver EXCEPT ![s].pc = p]
  BY DEF Tick, CtrlC, Savers
<1>3. saver' = [saver EXCEPT ![s] = [pc |-> p, snap |-> saver[s].snap,
                                    fd |-> saver[s].fd, at |-> saver[s].at]]
  BY <1>1, <1>2, Moved DEF Steps
<1>4. \A t \in Savers : (Saving(t))' => saver'[t] = saver[t]
  BY <1>1, <1>3 DEF Saving, TypedBy
<1>5. phase' = "closing" => saver'["ticker"].pc = "idle"
  BY <1>1 DEF Tick, CtrlC, TypedBy, Savers
<1>6. /\ UNCHANGED <<chain, dir, inode, stored, faults>> /\ phase # "down"
  BY DEF Tick, CtrlC
<1>7. faults.corrupt = 0 => chain'.blocks[1] = GenesisBlock
  BY <1>6 DEF FileInv, Disk
<1>8. QED
  BY <1>4, <1>5, <1>6, <1>7, Undisturbed

LEMMA ProduceFile ==
  ASSUME Inv, FileInv, Produce
  PROVE  FileInv'
<1>1. PICK S : TypedBy(S)
  BY DEF Inv
<1>2. saver' = [saver EXCEPT !["ticker"] =
              [pc |-> "export", snap |-> saver["ticker"].snap,
               fd |-> saver["ticker"].fd, at |-> saver["ticker"].at]]
  BY <1>1, Moved DEF Produce, Savers, Steps
<1>3. \A t \in Savers : (Saving(t))' => saver'[t] = saver[t]
  BY <1>1, <1>2 DEF Saving, TypedBy
<1>4. phase # "down" /\ phase # "closing"
  BY DEF Inv, SaverLocals, Savers, Produce, FileInv, Threads
<1>5. chain'.blocks[1] = chain.blocks[1]
  BY <1>1, <1>4, ExtendKeeps DEF Produce, Inv
<1>6. faults.corrupt = 0 => chain'.blocks[1] = GenesisBlock
  BY <1>4, <1>5 DEF FileInv, Disk
<1>7. QED
  BY <1>3, <1>4, <1>6, Undisturbed DEF Produce

LEMMA OnBlockFile ==
  ASSUME Inv, FileInv, OnBlock
  PROVE  FileInv'
<1>1. PICK S : TypedBy(S)
  BY DEF Inv
<1>2. chain'.blocks[1] = chain.blocks[1]
  BY <1>1, ExtendKeeps DEF OnBlock, Inv
<1>3. faults.corrupt = 0 => chain'.blocks[1] = GenesisBlock
  BY <1>2 DEF FileInv, Disk, OnBlock
<1>4. QED
  BY <1>3, Undisturbed DEF OnBlock

\* What a save takes from a running node is its linked history.
LEMMA ExportIsSound ==
  ASSUME Inv, Disk, phase # "down"
  PROVE  Sound(export_snapshot(chain))
<1>1. export_snapshot(chain).blocks = chain.blocks
  BY DEF export_snapshot
<1>2. QED
  BY <1>1 DEF Inv, RunningStateIsItsTip, Disk, Sound

LEMMA ExportFile ==
  ASSUME Networked, Inv, FileInv, NEW s \in Savers, Export(s)
  PROVE  FileInv'
<1>1. PICK S : TypedBy(S)
  BY DEF Inv
<1>2. phase # "down"
  BY DEF Inv, SaverLocals, Export
<1>3. saver \in [Savers -> SaverStates(S)]
  BY <1>1 DEF TypedBy
<1>4. saver'[s].pc = "create" /\ saver'[s].snap = export_snapshot(chain)
  BY <1>3 DEF Export, SaverStates
<1>5. \A t \in Savers \ {s} : saver'[t] = saver[t]
  BY <1>3 DEF Export
<1>6. faults.corrupt = 0 => Sound(saver'[s].snap)
  BY <1>2, <1>4, ExportIsSound DEF FileInv
<1>7. phase' = "closing" => saver'["ticker"].pc = "idle"
  BY <1>5 DEF FileInv, Threads, Export, Savers
<1>8. faults.corrupt = 0 => chain'.blocks[1] = GenesisBlock
  BY <1>2 DEF FileInv, Disk, Export
<1>9. QED
  BY <1>4, <1>5, <1>6, <1>7, <1>8, Undisturbed DEF Export

LEMMA ExitFile ==
  ASSUME FileInv, Exit
  PROVE  FileInv'
<1>1. \A t \in Savers : saver'[t] = saver[t]
  BY DEF Exit
<1>2. QED
  BY <1>1, Undisturbed DEF Exit

LEMMA SaveFailsFile ==
  ASSUME Inv, FileInv, NEW s \in Savers, SaveFails(s)
  PROVE  FileInv'
<1>1. PICK S : TypedBy(S)
  BY DEF Inv
<1>2. saver' = [saver EXCEPT ![s] = Idle] /\ Idle.pc = "idle"
  BY DEF SaveFails, Done, Idle
<1>3. \A t \in Savers : (Saving(t))' => saver'[t] = saver[t]
  BY <1>1, <1>2 DEF Saving, TypedBy
<1>4. phase # "down" /\ phase' = phase
  BY DEF Inv, SaverLocals, SaveFails
<1>5. phase' = "closing" => saver'["ticker"].pc = "idle"
  BY <1>1, <1>2, <1>4 DEF FileInv, Threads, TypedBy, Savers
<1>6. faults'.corrupt = faults.corrupt
  BY <1>1 DEF SaveFails, TypedBy
<1>7. faults.corrupt = 0 => chain'.blocks[1] = GenesisBlock
  BY <1>4 DEF FileInv, Disk, SaveFails
<1>8. QED
  BY <1>3, <1>5, <1>6, <1>7, Undisturbed DEF SaveFails

\* Boot takes the snapshot or the genesis; both start at the genesis block.
LEMMA BootFile ==
  ASSUME Inv, FileInv, Boot
  PROVE  FileInv'
<1>1. ASSUME faults.corrupt = 0 PROVE chain'.blocks[1] = GenesisBlock
  <2>1. Live = stored /\ (stored # NoSnapshot => Sound(stored))
    BY <1>1, LiveIsStored DEF FileInv
  <2>2. CASE load # NoSnapshot
    BY <2>1, <2>2 DEF load, Boot, from_snapshot, Sound
  <2>3. CASE load = NoSnapshot
    BY <2>3, FreshChain DEF Boot
  <2>4. QED
    BY <2>2, <2>3
<1>2. \A t \in Savers : saver'[t] = saver[t]
  BY DEF Boot
<1>3. QED
  BY <1>1, <1>2, Undisturbed DEF Boot

LEMMA CreateFile ==
  ASSUME Inv, FileInv, NEW s \in Savers, Create(s)
  PROVE  FileInv'
<1>1. PICK S : TypedBy(S)
  BY DEF Inv
<1>2. PICK i \in Inodes :
        /\ dir.tmp # NoFile => i = dir.tmp
        /\ dir.tmp = NoFile => i # dir.target
        /\ inode' = [inode EXCEPT ![i] = [data |-> <<>>, synced |-> FALSE]]
        /\ dir' = [dir EXCEPT !.tmp = i]
        /\ saver' = [saver EXCEPT ![s] = [pc |-> "write", snap |-> saver[s].snap,
                                          fd |-> i, at |-> 0]]
  BY <1>1, Created DEF Inv
<1>3. /\ saver[s].pc = "create" /\ Saving(s)
      /\ UNCHANGED <<phase, chain, anchor, stored, faults>>
  BY DEF Create, Saving
<1>4. i # dir.target /\ i # NoFile
  BY <1>2 DEF FileInv, Threads, Inodes, NoFile
<1>5. /\ saver'[s] = [pc |-> "write", snap |-> saver[s].snap, fd |-> i, at |-> 0]
      /\ \A t \in Savers \ {s} : saver'[t] = saver[t] /\ saver[t].pc = "idle"
  BY <1>1, <1>2, <1>3, OneBusy DEF TypedBy, FileInv
<1>6. dir'.tmp = i /\ dir'.target = dir.target
  BY <1>1, <1>2 DEF TypedBy
<1>7. /\ inode'[i] = [data |-> <<>>, synced |-> FALSE]
      /\ dir.target # NoFile => inode'[dir.target] = inode[dir.target]
  BY <1>1, <1>2, <1>4 DEF TypedBy
<1>8. Threads'
  <2>1. phase' = "closing" => saver'["ticker"].pc = "idle"
    BY <1>3, <1>5 DEF FileInv, Threads, Savers
  <2>2. \A t \in Savers : (Writing(t))' => saver'[t].fd = dir'.tmp
    BY <1>5, <1>6 DEF Writing
  <2>3. \A t \in Savers : saver'[t].pc # "rename"
    BY <1>5
  <2>4. dir'.target # NoFile => inode'[dir'.target].synced
    BY <1>6, <1>7 DEF FileInv, Threads
  <2>5. QED
    BY <1>4, <1>6, <2>1, <2>2, <2>3, <2>4 DEF Threads
<1>9. ASSUME faults'.corrupt = 0 PROVE Disk'
  <2>1. Disk
    BY <1>3, <1>9 DEF FileInv
  <2>2. Sound(saver'[s].snap)
    BY <1>3, <1>5, <2>1 DEF Disk
  <2>3. (Written(s))'
    <3>1. Len(<<>>) = 0
      OBVIOUS
    <3>2. QED
      BY <1>5, <1>6, <1>7, <3>1 DEF Written
  <2>4. QED
    BY <1>3, <1>5, <1>6, <1>7, <2>1, <2>2, <2>3 DEF Disk, Saving, Writing
<1>10. QED
  BY <1>8, <1>9 DEF FileInv

\* A write at the end of a file appends.
LEMMA WroteAtEnd ==
  ASSUME NEW B, NEW data \in Seq(B), NEW chunk, NEW d,
         d = WriteAt(data, Len(data) + 1, chunk)
  PROVE  /\ Len(d) = Len(data) + 1
         /\ \A k \in 1..Len(data) : d[k] = data[k]
         /\ d[Len(data) + 1] = chunk
<1> DEFINE n == Len(data) + 1
<1>1. Len(data) \in Nat /\ n \in Nat
  OBVIOUS
<1>2. d = [k \in 1..n |-> IF k = n THEN chunk ELSE IF k <= Len(data) THEN data[k] ELSE Hole]
  BY <1>1 DEF WriteAt
<1>3. Len(d) = n
  BY <1>1, <1>2
<1>4. QED
  BY <1>1, <1>2, <1>3

LEMMA WriteFile ==
  ASSUME Inv, FileInv, NEW s \in Savers, Write(s)
  PROVE  FileInv'
<1>1. PICK S : TypedBy(S)
  BY DEF Inv
<1> DEFINE w == saver[s]
           done == w.at + 1 = Len(w.snap.blocks)
           d == WriteAt(inode[w.fd].data, w.at + 1, <<w.snap, w.at + 1>>)
<1>2. /\ w.fd \in Inodes /\ w.at \in Nat
      /\ inode' = [inode EXCEPT ![w.fd] = [data |-> d, synced |-> FALSE]]
      /\ saver' = [saver EXCEPT ![s] =
              [pc |-> IF done THEN "sync" ELSE "write",
               snap |-> w.snap, fd |-> w.fd, at |-> w.at + 1]]
  BY <1>1, Wrote1 DEF Inv
<1>3. /\ saver[s].pc = "write" /\ Saving(s) /\ Writing(s)
      /\ UNCHANGED <<phase, chain, anchor, dir, stored, faults>>
  BY DEF Write, Saving, Writing
<1>4. w.fd = dir.tmp /\ w.fd # dir.target
  BY <1>2, <1>3 DEF FileInv, Threads, Inodes, NoFile
<1>5. /\ saver'[s] = [pc |-> IF done THEN "sync" ELSE "write",
                      snap |-> w.snap, fd |-> w.fd, at |-> w.at + 1]
      /\ \A t \in Savers \ {s} : saver'[t] = saver[t] /\ saver[t].pc = "idle"
  BY <1>1, <1>2, <1>3, OneBusy DEF TypedBy, FileInv
<1>6. /\ inode'[dir.tmp] = [data |-> d, synced |-> FALSE]
      /\ dir.target # NoFile => inode'[dir.target] = inode[dir.target]
  BY <1>1, <1>2, <1>4 DEF TypedBy
<1>7. Threads'
  <2>1. phase' = "closing" => saver'["ticker"].pc = "idle"
    BY <1>3, <1>5 DEF FileInv, Threads, Savers
  <2>2. \A t \in Savers : (Writing(t))' => saver'[t].fd = dir'.tmp
    BY <1>3, <1>4, <1>5 DEF Writing
  <2>3. \A t \in Savers : saver'[t].pc # "rename"
    BY <1>5
  <2>4. dir'.target # NoFile => inode'[dir'.target].synced
    BY <1>3, <1>6 DEF FileInv, Threads
  <2>5. QED
    BY <1>3, <1>4, <2>1, <2>2, <2>3, <2>4 DEF Threads
<1>8. ASSUME faults'.corrupt = 0 PROVE Disk'
  <2>1. Disk
    BY <1>3, <1>8 DEF FileInv
  <2>2. Sound(saver'[s].snap)
    BY <1>3, <1>5, <2>1 DEF Disk
  <2>3. (Written(s))'
    <3>1. /\ inode[w.fd].data \in Seq(Bytes(S))
          /\ Len(inode[w.fd].data) = w.at
          /\ \A k \in 1..w.at : inode[w.fd].data[k] = <<w.snap, k>>
      BY <1>1, <1>2, <1>3, <1>4, <2>1 DEF TypedBy, Disk, Written
    <3>2. /\ Len(d) = w.at + 1 /\ d[w.at + 1] = <<w.snap, w.at + 1>>
          /\ \A k \in 1..w.at : d[k] = <<w.snap, k>>
      <4>1. PICK data : data = inode[w.fd].data
        OBVIOUS
      <4>2. PICK chunk : chunk = <<w.snap, w.at + 1>>
        OBVIOUS
      <4>3. d = WriteAt(data, Len(data) + 1, chunk) /\ data \in Seq(Bytes(S))
        BY <3>1, <4>1, <4>2
      <4> HIDE DEF d, w
      <4>4. /\ Len(d) = Len(data) + 1 /\ d[Len(data) + 1] = chunk
            /\ \A k \in 1..Len(data) : d[k] = data[k]
        BY <4>3, WroteAtEnd
      <4>5. QED
        BY <3>1, <4>1, <4>2, <4>4
    <3> HIDE DEF d
    <3>3. \A k \in 1..(w.at + 1) : d[k] = <<w.snap, k>>
      <4>1. \A k \in 1..(w.at + 1) : k \in 1..w.at \/ k = w.at + 1
        BY <1>2
      <4>2. QED
        BY <3>2, <4>1
    <3>4. /\ saver'[s].at = w.at + 1 /\ saver'[s].snap = w.snap
          /\ saver'[s].pc # "write" => w.at + 1 = Len(w.snap.blocks)
      BY <1>5
    <3>5. inode'[dir'.tmp].data = d
      BY <1>3, <1>6
    <3>6. QED
      BY <3>2, <3>3, <3>4, <3>5 DEF Written
  <2>4. QED
    BY <1>3, <1>5, <1>6, <2>1, <2>2, <2>3 DEF Disk, Saving, Writing
<1>9. QED
  BY <1>7, <1>8 DEF FileInv

LEMMA SyncFile ==
  ASSUME Inv, FileInv, NEW s \in Savers, Sync(s)
  PROVE  FileInv'
<1>1. PICK S : TypedBy(S)
  BY DEF Inv
<1>2. saver' = [saver EXCEPT ![s] = [pc |-> "rename", snap |-> saver[s].snap,
                                    fd |-> saver[s].fd, at |-> saver[s].at]]
  BY <1>1, Moved DEF Sync, Steps
<1>3. /\ saver[s].pc = "sync" /\ Saving(s) /\ Writing(s)
      /\ UNCHANGED <<phase, chain, anchor, dir, stored, faults>>
  BY DEF Sync, Saving, Writing
<1>4. saver[s].fd = dir.tmp /\ dir.tmp \in Inodes /\ dir.tmp # dir.target
  BY <1>1, <1>3 DEF FileInv, Threads, TypedBy, Inv, SaverLocals
<1>5. /\ saver'[s] = [pc |-> "rename", snap |-> saver[s].snap,
                      fd |-> saver[s].fd, at |-> saver[s].at]
      /\ \A t \in Savers \ {s} : saver'[t] = saver[t] /\ saver[t].pc = "idle"
  BY <1>1, <1>2, <1>3, OneBusy DEF TypedBy, FileInv
<1>6. /\ inode'[dir.tmp].data = inode[dir.tmp].data /\ inode'[dir.tmp].synced
      /\ dir.target # NoFile => inode'[dir.target] = inode[dir.target]
  <2>1. inode' = [inode EXCEPT ![dir.tmp] = [@ EXCEPT !.synced = TRUE]]
    BY <1>4 DEF Sync
  <2>2. QED
    BY <1>1, <1>4, <2>1 DEF TypedBy
<1>7. Threads'
  <2>1. phase' = "closing" => saver'["ticker"].pc = "idle"
    BY <1>3, <1>5 DEF FileInv, Threads, Savers
  <2>2. \A t \in Savers : (Writing(t))' => saver'[t].fd = dir'.tmp
    BY <1>3, <1>4, <1>5 DEF Writing
  <2>3. \A t \in Savers : saver'[t].pc = "rename" => inode'[dir'.tmp].synced
    BY <1>3, <1>6
  <2>4. dir'.target # NoFile => inode'[dir'.target].synced
    BY <1>3, <1>6 DEF FileInv, Threads
  <2>5. QED
    BY <1>3, <1>4, <2>1, <2>2, <2>3, <2>4 DEF Threads
<1>8. ASSUME faults'.corrupt = 0 PROVE Disk'
  <2>1. Disk
    BY <1>3, <1>8 DEF FileInv
  <2>2. Sound(saver'[s].snap)
    BY <1>3, <1>5, <2>1 DEF Disk
  <2>3. (Written(s))'
    BY <1>3, <1>5, <1>6, <2>1 DEF Disk, Written
  <2>4. QED
    BY <1>3, <1>5, <1>6, <2>1, <2>2, <2>3 DEF Disk, Saving, Writing
<1>9. QED
  BY <1>7, <1>8 DEF FileInv

LEMMA Renamed ==
  ASSUME Inv, Threads, NEW s \in Savers, Rename(s)
  PROVE  /\ dir.tmp # NoFile
         /\ dir' = [target |-> dir.tmp, tmp |-> NoFile] /\ stored' = saver[s].snap
         /\ stored' # NoSnapshot
         /\ \A t \in Savers : saver'[t].pc = "idle"
         /\ UNCHANGED <<phase, chain, anchor, inode, faults>>
<1>1. PICK S : TypedBy(S)
  BY DEF Inv
<1>2. Writing(s) /\ Saving(s) /\ saver[s].pc = "rename"
  BY DEF Rename, Writing, Saving
<1>3. dir.tmp # NoFile /\ saver[s].snap # NoSnapshot
  BY <1>2 DEF Threads, Inv, SaverLocals
<1>4. saver' = [saver EXCEPT ![s] = Idle] /\ Idle.pc = "idle"
  BY DEF Rename, Done, Idle
<1>5. \A t \in Savers : saver'[t].pc = "idle"
  BY <1>1, <1>2, <1>4, OneBusy DEF TypedBy
<1>6. QED
  BY <1>3, <1>5 DEF Rename

LEMMA RenameFile ==
  ASSUME Inv, FileInv, NEW s \in Savers, Rename(s)
  PROVE  FileInv'
<1>1. PICK S : TypedBy(S)
  BY DEF Inv
<1>2. /\ dir.tmp # NoFile
      /\ dir' = [target |-> dir.tmp, tmp |-> NoFile] /\ stored' = saver[s].snap
      /\ stored' # NoSnapshot
      /\ \A t \in Savers : saver'[t].pc = "idle"
      /\ UNCHANGED <<phase, chain, anchor, inode, faults>>
  BY Renamed DEF FileInv
<1>3. dir'.target = dir.tmp /\ dir'.tmp = NoFile
  BY <1>2
<1>4. Writing(s) /\ Saving(s) /\ saver[s].pc = "rename"
  BY DEF Rename, Writing, Saving
<1>5. \A t \in Savers : ~(Saving(t))' /\ ~(Writing(t))'
  BY <1>2 DEF Saving, Writing
<1>6. Threads'
  <2>1. inode[dir.tmp].synced
    BY <1>4 DEF FileInv, Threads
  <2>2. saver'["ticker"].pc = "idle"
    BY <1>2 DEF Savers
  <2>3. QED
    BY <1>2, <1>3, <1>5, <2>1, <2>2 DEF Threads
<1>7. CASE faults.corrupt = 0
  <2>1. Disk /\ Written(s) /\ Sound(saver[s].snap)
    BY <1>4, <1>7 DEF FileInv, Disk
  <2>3. inode[dir.tmp].data = Serialized(saver[s].snap)
    <3>1. saver[s].snap \in S /\ IsSnapshot(saver[s].snap)
      BY <1>1, <1>4 DEF TypedBy, SaverStates, Inv, SaverLocals
    <3>2. /\ Serialized(saver[s].snap) \in Seq(Bytes(S))
          /\ Len(Serialized(saver[s].snap)) = Len(saver[s].snap.blocks)
          /\ \A i \in 1..Len(saver[s].snap.blocks) :
               Serialized(saver[s].snap)[i] = <<saver[s].snap, i>>
      BY <3>1, SerializedBytes DEF IsSnapshot
    <3>3. inode[dir.tmp].data \in Seq(Bytes(S))
      BY <1>1, <1>2 DEF TypedBy
    <3>4. /\ Len(inode[dir.tmp].data) = Len(saver[s].snap.blocks)
          /\ \A k \in 1..Len(saver[s].snap.blocks) :
               inode[dir.tmp].data[k] = <<saver[s].snap, k>>
      BY <1>4, <2>1 DEF Written
    <3>5. PICK a, b : a = inode[dir.tmp].data /\ b = Serialized(saver[s].snap)
      OBVIOUS
    <3>6. Len(a) = Len(b) /\ \A k \in 1..Len(a) : a[k] = b[k]
      BY <3>2, <3>4, <3>5
    <3>7. a = b
      BY <3>2, <3>3, <3>5, <3>6, SeqEqual
    <3>8. QED
      BY <3>5, <3>7
  <2>4. Disk'
    BY <1>2, <1>3, <1>5, <2>1, <2>3 DEF Disk
  <2>5. QED
    BY <1>6, <2>4 DEF FileInv
<1>8. QED
  BY <1>2, <1>6, <1>7 DEF FileInv

LEMMA CrashFile ==
  ASSUME Inv, FileInv, Crash
  PROVE  FileInv'
<1>1. PICK S : TypedBy(S)
  BY DEF Inv
<1>2. \A i \in Inodes : inode'[i].synced /\ (inode[i].synced => inode'[i] = inode[i])
  BY <1>1, Survives
<1>3. dir.target # NoFile => inode'[dir.target] = inode[dir.target] /\ dir.target \in Inodes
  BY <1>1, <1>2 DEF FileInv, Threads, TypedBy
<1>4. phase' = "down" /\ UNCHANGED <<dir, stored>> /\ faults'.corrupt = faults.corrupt
  BY <1>1 DEF Crash, TypedBy
<1>5. \A t \in Savers : saver'[t].pc = "idle"
  BY DEF Crash, Idle
<1>6. \A t \in Savers : ~(Saving(t))' /\ ~(Writing(t))' /\ saver'[t].pc # "rename"
  BY <1>5 DEF Saving, Writing
<1>7. Threads'
  BY <1>3, <1>4, <1>6 DEF FileInv, Threads
<1>8. faults.corrupt = 0 => Disk'
  BY <1>3, <1>4, <1>6 DEF FileInv, Disk
<1>9. QED
  BY <1>4, <1>7, <1>8 DEF FileInv

LEMMA CorruptFile ==
  ASSUME Inv, FileInv, Corrupt
  PROVE  FileInv'
<1>1. PICK S : TypedBy(S)
  BY DEF Inv
<1>2. faults'.corrupt # 0
  BY <1>1 DEF Corrupt, TypedBy
<1>3. PICK data : inode' = [inode EXCEPT ![dir.target] = [@ EXCEPT !.data = data]]
  BY DEF Corrupt
<1>4. dir.target # NoFile => inode'[dir.target].synced = inode[dir.target].synced
  BY <1>1, <1>3 DEF TypedBy
<1>5. \A s \in Savers : saver[s].pc = "idle" /\ saver' = saver /\ dir' = dir /\ phase' = phase
  BY DEF Inv, SaverLocals, Corrupt
<1>6. Threads'
  BY <1>4, <1>5 DEF FileInv, Threads, Writing, Savers
<1>7. QED
  BY <1>2, <1>6 DEF FileInv

LEMMA NextKeepsFile ==
  ASSUME Networked, Inv, FileInv, [Next]_vars
  PROVE  FileInv'
<1>1. CASE Next
  BY <1>1, TickFile, ProduceFile, OnBlockFile, ExportFile, CreateFile, WriteFile, SyncFile,
     RenameFile, SaveFailsFile, ExitFile, CrashFile, BootFile, CorruptFile DEF Next
<1>2. CASE UNCHANGED vars
  BY <1>2 DEF vars, FileInv, Threads, Disk, Saving, Writing, Written
<1>3. QED
  BY <1>1, <1>2

\* For a node of the p2p loop: after any number of crashes, at any step of a
\* save, and of failed saves, the live file is all of the snapshot that was
\* published last (persist.rs save: the temporary, its sync and its rename).
THEOREM LiveFileAlwaysWhole ==
  ASSUME Networked
  PROVE  Spec => []LiveFileWhole
<1>1. Spec => [](Inv /\ FileInv)
  <2>1. Inv /\ FileInv /\ [Next]_vars => Inv' /\ FileInv'
    BY NextKeepsInv, NextKeepsFile
  <2>2. QED
    BY <2>1, InitInv, InitFile, PTL DEF Spec
<1>2. Inv /\ FileInv => LiveFileWhole
  BY LiveIsStored DEF FileInv, LiveFileWhole
<1>3. QED
  BY <1>1, <1>2, PTL

----------------------------------------------------------------------------
(* A clean stop *)

NoFaults == faults = [crashes |-> 0, failures |-> 0, corrupt |-> 0]

\* From ctrl-c on the chain does not change, and without a fault the final save
\* takes it, publishes it, and nothing is published after it.
Closing ==
  /\ phase = "closing" =>
       \/ saver["closer"].pc = "export"
       \/ Saving("closer") /\ saver["closer"].snap = export_snapshot(chain)
       \/ saver["closer"].pc = "idle" /\ stored = export_snapshot(chain)
  /\ phase = "down" => stored = export_snapshot(chain)

CleanInv == NoFaults => Closing

LEMMA NextKeepsClean ==
  ASSUME Inv, FileInv, CleanInv, [Next]_vars
  PROVE  CleanInv'
<1> SUFFICES ASSUME NoFaults' PROVE Closing'
  BY DEF CleanInv
<1>1. PICK S : TypedBy(S)
  BY DEF Inv
<1>2. phase \in {"up", "closing", "down"} /\ saver \in [Savers -> SaverStates(S)]
      /\ "closer" \in Savers /\ "ticker" \in Savers
      /\ faults \in [crashes : Nat, failures : Nat, corrupt : Nat]
  BY <1>1 DEF TypedBy, Savers
<1>3. /\ phase \in {"down", "up"} => saver["closer"].pc = "idle"
      /\ phase \in {"down", "closing"} => saver["ticker"].pc = "idle"
  BY <1>2 DEF Inv, SaverLocals, FileInv, Threads
<1>4. CASE phase' = "up"
  BY <1>4 DEF Closing
<1>5. ASSUME phase' # "up", \/ Tick \/ Produce \/ OnBlock \/ CtrlC \/ Exit \/ Boot
                            \/ UNCHANGED vars
      PROVE  Closing'
  <2>1. faults' = faults
    BY <1>5 DEF Tick, Produce, OnBlock, CtrlC, Exit, Boot, vars
  <2>2. Closing
    BY <2>1 DEF CleanInv, NoFaults
  <2>3. CASE CtrlC
    BY <1>2, <2>3 DEF CtrlC, Closing, SaverStates
  <2>4. CASE Exit
    BY <1>2, <2>2, <2>4 DEF Exit, Closing, Saving
  <2>5. CASE UNCHANGED vars
    BY <2>2, <2>5 DEF vars, Closing, Saving
  <2>6. QED
    BY <1>3, <1>2, <1>5, <2>3, <2>4, <2>5 DEF Tick, Produce, OnBlock, Boot
<1>6. ASSUME phase' # "up", Crash \/ Corrupt \/ \E s \in Savers : SaveFails(s)
      PROVE  FALSE
  <2>1. faults'.crashes = 0 /\ faults'.failures = 0 /\ faults'.corrupt = 0
    BY DEF NoFaults
  <2>2. QED
    BY <1>2, <1>6, <2>1 DEF Crash, Corrupt, SaveFails
<1>7. ASSUME phase' # "up", NEW s \in Savers,
             Export(s) \/ Create(s) \/ Write(s) \/ Sync(s) \/ Rename(s)
      PROVE  Closing'
  <2>1. saver[s].pc # "idle" /\ phase' = phase /\ chain' = chain /\ faults' = faults
    BY <1>7 DEF Export, Create, Write, Sync, Rename
  <2>2. s = "closer" /\ phase = "closing"
    BY <1>2, <1>3, <1>7, <2>1 DEF Savers
  <2>3. Closing
    BY <2>1 DEF CleanInv, NoFaults
  <2>4. CASE Export(s)
    BY <1>2, <2>1, <2>2, <2>4 DEF Export, Closing, SaverStates, Saving
  <2>5. CASE Create(s)
    <3>1. saver[s].snap = export_snapshot(chain)
      BY <2>2, <2>3, <2>5 DEF Closing, Create
    <3>2. saver'[s].pc = "write" /\ saver'[s].snap = saver[s].snap
      BY <1>1, <1>2, <2>5, Created DEF Inv, SaverStates
    <3>3. QED
      BY <2>1, <2>2, <3>1, <3>2 DEF Closing, Saving
  <2>6. CASE Write(s)
    <3>1. saver[s].snap = export_snapshot(chain)
      BY <2>2, <2>3, <2>6 DEF Closing, Write
    <3>2. saver'[s].pc \in {"write", "sync"} /\ saver'[s].snap = saver[s].snap
      <4>1. PICK n :
              \/ saver' = [saver EXCEPT ![s] = [pc |-> "write", snap |-> saver[s].snap,
                                                fd |-> saver[s].fd, at |-> n]]
              \/ saver' = [saver EXCEPT ![s] = [pc |-> "sync", snap |-> saver[s].snap,
                                                fd |-> saver[s].fd, at |-> n]]
        BY <1>1, <2>6, Wrote1 DEF Inv
      <4>2. QED
        BY <1>2, <4>1
    <3>3. QED
      BY <2>1, <2>2, <3>1, <3>2 DEF Closing, Saving
  <2>7. CASE Sync(s)
    <3>1. saver[s].snap = export_snapshot(chain)
      BY <2>2, <2>3, <2>7 DEF Closing, Sync
    <3>2. saver'[s].pc = "rename" /\ saver'[s].snap = saver[s].snap
      BY <1>2, <2>7 DEF Sync, SaverStates
    <3>3. QED
      BY <2>1, <2>2, <3>1, <3>2 DEF Closing, Saving
  <2>8. CASE Rename(s)
    <3>1. saver[s].snap = export_snapshot(chain)
      BY <2>2, <2>3, <2>8 DEF Closing, Rename
    <3>2. stored' = saver[s].snap /\ saver'[s].pc = "idle"
      BY <2>8, Renamed DEF FileInv
    <3>3. QED
      BY <2>1, <2>2, <3>1, <3>2 DEF Closing
  <2>9. QED
    BY <1>7, <2>4, <2>5, <2>6, <2>7, <2>8
<1>8. QED
  BY <1>4, <1>5, <1>6, <1>7 DEF Next

\* For a node of the p2p loop: once the process has ended after ctrl-c without a crash, an
\* I/O error or an outside change of the file, the file holds the chain the node had
\* (node/lib.rs: the final snapshot on graceful shutdown).
THEOREM CleanStop ==
  ASSUME Networked
  PROVE  Spec => []CleanStopPersists
<1>1. Init => CleanInv
  BY DEF Init, CleanInv, Closing
<1>2. Inv /\ FileInv /\ CleanInv /\ [Next]_vars => Inv' /\ FileInv' /\ CleanInv'
  BY NextKeepsInv, NextKeepsFile, NextKeepsClean
<1>3. ASSUME Inv, FileInv, CleanInv PROVE CleanStopPersists
  <2>1. SUFFICES ASSUME phase = "down", NoFaults PROVE Live = export_snapshot(chain)
    BY DEF CleanStopPersists, NoFaults
  <2>2. faults.corrupt = 0
    BY <2>1 DEF NoFaults
  <2>3. Live = stored
    BY <1>3, <2>2, LiveIsStored DEF FileInv
  <2>4. QED
    BY <1>3, <2>1, <2>3 DEF CleanInv, Closing
<1>4. QED
  BY <1>1, <1>2, <1>3, InitInv, InitFile, PTL DEF Spec

=============================================================================
