------------------------------- MODULE Oracle -------------------------------
(***************************************************************************)
(* The model-invocation layer, crates/oracle/src: from what a provider     *)
(* answers over HTTP to the verdict or the effect the runtime tallies.     *)
(*                                                                         *)
(* A reply is [provider, status, body].  The body of an Anthropic reply is *)
(* a sequence of content blocks [kind, text, input], that of the others is *)
(* the content of their one message.  A document (a text parsed as JSON,   *)
(* or a structured input) is kept as what the decoders can tell of it: it  *)
(* is absent, of no known shape, a verdict, or a list of operations, each  *)
(* with the names of the fields whose strings do not parse.                *)
(***************************************************************************)
EXTENDS SequencesExt

Absent  == [is |-> "absent"]
Unknown == [is |-> "unknown"]
StructuredVerdict(v)  == [is |-> "verdict", verdict |-> v]
StructuredEffect(ops) == [is |-> "effect", ops |-> ops]
StructuredOp(op, bad) == [op |-> op, bad |-> bad]

ContentBlock(kind, text, input) == [kind |-> kind, text |-> text, input |-> input]
from_text(text) == <<ContentBlock("text", text, Absent)>>

Ok(x) == [ok |-> TRUE, value |-> x]
OracleError == [ok |-> FALSE]

(***************************************************************************)
(* Transport: a failed call, a status other than 2xx and a body that is    *)
(* not the provider's envelope are errors; every provider's answer becomes *)
(* the same list of content blocks.                                        *)
(***************************************************************************)
send(reply) ==
  CASE reply.status # "success"       -> OracleError
    [] reply.provider = "Anthropic"   -> Ok(reply.body)
    [] reply.body = Absent            -> OracleError
    [] OTHER                          -> Ok(from_text(reply.body))

\* What a block offers the decoder, in the order it is tried.
candidates(block) ==
  <<block.input>> \o (IF block.kind = "text" THEN <<block.text>> ELSE <<>>)

\* The first document of the wanted shape, whatever its fields hold.
structured(blocks, shape) ==
  LET found == SelectSeq(FlattenSeq([i \in DOMAIN blocks |-> candidates(blocks[i])]),
                         LAMBDA doc : doc.is = shape)
  IN IF found = <<>> THEN OracleError ELSE Ok(Head(found))

(***************************************************************************)
(* Effects.  The tag of an operation selects the fields that are read; one *)
(* that is missing or does not parse fails the whole effect.               *)
(***************************************************************************)
fields(tag) ==
  CASE tag = "Transfer"   -> {"to", "amount"}
    [] tag = "Refund"     -> {"party", "amount"}
    [] tag = "OpenStream" -> {"to", "rate", "deposit"}
    [] tag = "StopStream" -> {"id"}
    [] tag = "SetVar"     -> {"key", "value"}
    [] tag = "Abort"      -> {"reason_hash"}

to_canonical(effect) ==
  IF \E i \in DOMAIN effect.ops : effect.ops[i].bad \cap fields(effect.ops[i].op.op) # {}
    THEN OracleError
    ELSE Ok([i \in DOMAIN effect.ops |-> effect.ops[i].op])

abort_effect == <<[op |-> "Abort"]>>

\* The decoded effect, or the error some step of the call ended in.
decoded(reply) ==
  LET resp == send(reply)
      doc  == structured(resp.value, "effect")
  IN IF ~resp.ok THEN OracleError
     ELSE IF ~doc.ok THEN OracleError
     ELSE to_canonical(doc.value)

interpret(reply) ==
  LET d == decoded(reply) IN IF d.ok THEN d.value ELSE abort_effect

(***************************************************************************)
(* Verdicts.                                                               *)
(***************************************************************************)
abort_verdict == [verdict |-> "Uncertain", confidence |-> "Low"]

grade(reply) ==
  LET resp == send(reply)
      doc  == structured(resp.value, "verdict")
  IN IF ~resp.ok THEN abort_verdict
     ELSE IF ~doc.ok THEN abort_verdict
     ELSE doc.value.verdict

=============================================================================
