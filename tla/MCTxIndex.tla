----------------------------- MODULE MCTxIndex ------------------------------
(***************************************************************************)
(* Instance of TxIndex for TLC: one transaction of every shape the codec   *)
(* tells apart (h1), a stream (h2) and a verdict or an invocation (h3), in *)
(* blocks that can displace one another.                                   *)
(***************************************************************************)
EXTENDS TxIndex, TLC

CONSTANTS alice, bob, carol, h1, h2, h3

Tx(to, sel, fault) ==
  [chain |-> "ours", from |-> alice, to |-> to, sel |-> sel, fault |-> fault, who |-> bob,
   len |-> 2, value |-> "small"]

Plain == Tx(bob, None, "none")

HubCalls ==
  UNION {{Tx(STREAM_HUB, s, f) : f \in Faults(s)} :
           s \in DOMAIN KernelStream \cup {"transferFrom", "unknown"}}
  \cup UNION {{Tx(HUMANITY_HUB, s, f) : f \in Faults(s)} : s \in DOMAIN KernelHumanity \cup {"unknown"}}
  \cup UNION {{Tx(CONTRACT_HUB, s, f) : f \in Faults(s)} : s \in DOMAIN KernelContract \cup {"unknown"}}

Misfits ==
  {[Plain EXCEPT !.chain = "other"], [Plain EXCEPT !.from = None], [Plain EXCEPT !.to = None],
   [Plain EXCEPT !.value = "huge"], [Plain EXCEPT !.sel = "unknown"],
   [Tx(CONTRACT_HUB, "fundContract", "none") EXCEPT !.value = "huge"],
   [Tx(STREAM_HUB, "openStream", "none") EXCEPT !.value = "huge"]}

AllCalls == {Plain} \cup HubCalls \cup Misfits

\* h1 ranges over every call; h2 and h3 are fixed.
Open    == [Tx(STREAM_HUB, "openStream", "none") EXCEPT !.from = carol]
Verdict == Tx(HUMANITY_HUB, "submitVerdict", "none")

Blk(view, list, swept) == [view |-> view, txs |-> list, swept |-> swept]
In(h, out) == [hash |-> h, out |-> out]

MCContents ==
  {Blk(0, <<In(h1, "done")>>, {}), Blk(0, <<In(h1, "failed")>>, {bob}),
   Blk(0, <<In(h2, "done"), In(h1, "resolved")>>, {}), Blk(1, <<In(h2, "failed")>>, {bob}),
   Blk(0, <<In(h3, "resolved")>>, {}), Blk(1, <<>>, {})}

MCCalls ==
  {[h \in Hashes |-> IF h = h1 THEN t ELSE IF h = h2 THEN Open ELSE Verdict] : t \in AllCalls}

=============================================================================
