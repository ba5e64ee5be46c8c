--------------------------- MODULE MCCredentials ----------------------------
(***************************************************************************)
(* The three places where a passport or a credential is accepted, each on  *)
(* its own: the chain's passport gate (ZkPassport), the status registry    *)
(* whose holders follow deltas (StatusRegistry), and the packed bitmap     *)
(* built from finalized blocks (PackedStatus).  They share no state in the *)
(* code; a behaviour here is a behaviour of one of them.                   *)
(*                                                                         *)
(* The gate: two passports, a holder who proves one of them for two        *)
(* addresses, a proof under another scope and one for another document,    *)
(* and start days around the ends of months and years.                     *)
(***************************************************************************)
EXTENDS ZkPassport, StatusRegistry, TLC

CONSTANTS s1, s2, s3, s4                                \* status ids; s1 and s2 addresses too
CONSTANTS LIMB, PACKED_STATUS_DEPTH, MaxBlocks, Bulk    \* of PackedStatus
CONSTANTS p1, p2, r1, r2, k1, here, elsewhere           \* passports, roots, a key, scopes

VARIABLES part, builder

Packed == INSTANCE PackedStatus WITH MaxHeight <- MaxBlocks

ASSUME GateAssumption == GateConstants /\ CalendarConstants

\* s3 and s4 have the same leaf index.
Colliding == (s1 :> 0) @@ (s2 :> 1) @@ (s3 :> 2) @@ (s4 :> 2)

MCNullifier(p, s) == (IF p = p1 THEN 1 ELSE 2) + (IF s = here THEN 0 ELSE 2)

Civil(y, m, day) == [year |-> y, month |-> m, day |-> day]

MCStarts == {Civil(28, 2, 27), Civil(26, 12, 30)}

Dates == {Civil(28, 3, 1), Civil(27, 1, 2), Civil(28, 2, 31), Civil(28, 13, 1)}

Pf(p, h, root, second, date, scope, att) ==
  [passport |-> p, holder |-> h, root |-> root,
   ofac |-> [k \in Kinds |-> IF k = "passportno" THEN r1 ELSE second],
   date |-> date, scope |-> scope, attestation |-> att, csca |-> k1]

MCProofs ==
  {Pf(p1, h, r1, r1, Civil(28, 2, 27), here, 1) : h \in {s1, s2}}
  \cup {Pf(p1, s2, r2, r1, Civil(28, 2, 29), here, 1), Pf(p2, s1, r1, r2, Civil(27, 1, 1), here, 1),
        Pf(p2, s2, r1, r1, Civil(28, 2, 29), here, 1),
        Pf(p2, s2, r1, r1, Civil(28, 2, 27), elsewhere, 1),
        Pf(p2, s2, r1, r1, Civil(28, 2, 27), here, 2)}
  \cup {Pf(p2, s1, r2, r2, date, here, 1) : date \in Dates}

MCGenesisOfac == Kinds \X {r1}

NoPacked == builder = None
NoGate == Init /\ today = Civil(28, 2, 27)          \* it stands still

PartInit ==
  \/ part = "registry" /\ RegistryInit /\ NoPacked /\ NoGate
  \/ part = "packed" /\ RegistryInit /\ Packed!Init /\ NoGate
  \/ part = "gate" /\ RegistryInit /\ NoPacked /\ Init

PartNext ==
  \/ part = "registry" /\ RegistryNext /\ UNCHANGED <<part, builder, vars>>
  \/ part = "packed" /\ Packed!Next /\ UNCHANGED <<part, registry_vars, vars>>
  \/ part = "gate" /\ Next /\ UNCHANGED <<part, registry_vars, builder>>

PartSpec == PartInit /\ [][PartNext]_<<part, registry_vars, builder, vars>>

\* PackedStatus's BuilderIsReplay: refused blocks, rewinds, checkpoints and restarts leave
\* no trace in the packed snapshot, which is what the finalized events say.
BuilderIsReplay == part = "packed" => Packed!BuilderIsReplay

\* PackedStatus's HolderPathsAreWitnesses: the holder's engine rebuilds from the published
\* snapshot exactly the paths the builder would have issued.
HolderPathsAreWitnesses == part = "packed" => Packed!HolderPathsAreWitnesses

\* PackedStatus's CheckpointResumes: the checkpoint written now is accepted by the next
\* start, whatever the last id and the blocks behind it.
CheckpointResumes == part = "packed" => Packed!CheckpointResumes

=============================================================================
