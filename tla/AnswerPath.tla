----------------------------- MODULE AnswerPath -----------------------------
(***************************************************************************)
(* Bodies as the gateway reads them: the body of a request, and the answer  *)
(* of the upstream, chunk by chunk against their limits; then the look the  *)
(* safe cache takes at an answer before it keeps it for replay, and the     *)
(* facts the observer draws from it for a later checkpoint.                 *)
(*                                                                          *)
(* A chunk is [kind, size, form].  The chunks of an answer, in order, are   *)
(* its head, its blocks (text, event_text, tool_use) and its stop reason    *)
(* (stop_end, stop_tool); the last closes a JSON answer.  event_text is a   *)
(* text block that contains "event: ".  An answer is judged by its text, so *)
(* a chunk has a form, the set of what is true of how it is written:        *)
(*   "event"    a line with "event: ", and a space, comes before its data   *)
(*   "bare"     "data:" comes first in it                                   *)
(*   "data"     its data follow "data: ", with a space                      *)
(*   "compact"  its JSON has no space after a colon or a comma              *)
(*   "first"    the type is the first key of its block                      *)
(***************************************************************************)
EXTENDS Integers, FiniteSets, SequencesExt

CONSTANT Bodies   \* records [side, declared, max, chunks, faulty, sse, status, cached, max_entry]

ChunkKinds == {"data", "head", "text", "event_text", "tool_use", "stop_end", "stop_tool"}

Forms == {"event", "bare", "data", "compact", "first"}

ASSUME ChunkAssumption ==
  \A b \in Bodies : b.chunks \in Seq([kind : ChunkKinds, size : Nat, form : SUBSET Forms])

VARIABLES
  ex,             \* the body being handled, or <<>> in the behaviours of another part
  facts,          \* the observer's static, of the gateway and of a command
  checkpoint      \* the facts of the saved checkpoint: a set, or <<>> before

answerVars == <<ex, facts, checkpoint>>

NoLength == -1    \* no Content-Length

Size(chunks) == SumFunction([i \in DOMAIN chunks |-> chunks[i].size])

\* hyper sees to it that a Content-Length is that of the body.
ASSUME LengthAssumption ==
  \A b \in Bodies : b.max \in Nat /\ b.declared \in {NoLength, Size(b.chunks)}

Kinds(chunks) == {chunks[i].kind : i \in DOMAIN chunks}

NoFacts == [gateway |-> {}, command |-> {}]

AnswerInit ==
  /\ ex \in {[body |-> b, got |-> <<>>, kept |-> "no", pc |-> "begin"] : b \in Bodies}
  /\ facts = NoFacts
  /\ checkpoint = <<>>

AnswerIdle == ex = <<>> /\ facts = NoFacts /\ checkpoint = <<>>

At(pc) == ex # <<>> /\ ex.pc = pc

Reading == /\ At("read")
           /\ Len(ex.got) < Len(ex.body.chunks)

(***************************************************************************)
(* read_body_limited for requests, and the loop of forward_to_upstream,     *)
(* which does not look at a Content-Length.                                 *)
(***************************************************************************)
CheckLength ==
  /\ At("begin")
  /\ ex' = [ex EXCEPT !.pc =
              IF ex.body.side = "request" /\ ex.body.declared > ex.body.max THEN "413" ELSE "read"]
  /\ UNCHANGED <<facts, checkpoint>>

\* Mutant of WithinLimit: every chunk is measured alone.
WithinLimitAlone(chunk) == chunk.size <= ex.body.max

WithinLimit(chunk) == Size(ex.got) + chunk.size <= ex.body.max

ReadChunk ==
  /\ Reading
  /\ LET chunk == ex.body.chunks[Len(ex.got) + 1]
     IN ex' = IF WithinLimit(chunk) THEN [ex EXCEPT !.got = Append(@, chunk)]
              ELSE [ex EXCEPT !.pc = IF ex.body.side = "request" THEN "413" ELSE "502"]
  /\ UNCHANGED <<facts, checkpoint>>

\* The connection breaks.  A request is refused; of an answer the error is
\* logged, and what has come is taken for the answer.
BreakOff ==
  /\ Reading
  /\ ex.body.faulty
  /\ ex' = [ex EXCEPT !.pc = IF ex.body.side = "request" THEN "400" ELSE "collected"]
  /\ UNCHANGED <<facts, checkpoint>>

EndOfBody ==
  /\ At("read")
  /\ Len(ex.got) = Len(ex.body.chunks)
  /\ ex' = [ex EXCEPT !.pc = IF ex.body.side = "request" THEN "accepted" ELSE "collected"]
  /\ UNCHANGED <<facts, checkpoint>>

(***************************************************************************)
(* inspect_response.  A text with "event: " anywhere in it, or one that     *)
(* begins with "data:", is read as an event stream.  Tool calls are looked  *)
(* for in lines that begin with "data: " and as compact JSON with the keys  *)
(* in one order; without one, compact JSON of a text block anywhere will do.*)
(***************************************************************************)
LooksLikeSse(body, got) ==
  \/ "event_text" \in Kinds(got)
  \/ body.sse /\ \E i \in DOMAIN got : "event" \in got[i].form \/ (i = 1 /\ "bare" \in got[i].form)

ShowsTool(chunk) ==
  /\ {"data", "compact"} \subseteq chunk.form
  /\ chunk.kind = "stop_tool" \/ (chunk.kind = "tool_use" /\ "first" \in chunk.form)

ShowsText(chunk) == chunk.kind \in {"text", "event_text"} /\ "compact" \in chunk.form

InspectSse(body, got) ==
  /\ body.sse => \A i \in DOMAIN got : ~ShowsTool(got[i])
  /\ \E i \in DOMAIN got : ShowsText(got[i])

Tools == {"tool_use", "stop_tool"}

Parses(body, got) == ~body.sse /\ got = body.chunks

\* Mutant of InspectJson: what came first decides.
InspectBegun(body, got) ==
  /\ Kinds(got) \cap Tools = {}
  /\ "text" \in Kinds(got)

\* No content, or one without blocks, is not kept.
InspectJson(body, got) ==
  /\ Parses(body, got)
  /\ Kinds(got) \cap Tools = {}
  /\ "text" \in Kinds(got)

InspectResponse(body, got) ==
  /\ got # <<>>
  /\ IF LooksLikeSse(body, got) THEN InspectSse(body, got) ELSE InspectJson(body, got)

Keep ==
  /\ At("collected")
  /\ LET looked == ex.body.cached /\ ex.body.status \in 200..299
         safe == InspectResponse(ex.body, ex.got)
     IN ex' = [ex EXCEPT
                 !.kept = CASE looked /\ safe /\ Size(ex.got) <= ex.body.max_entry -> "stored"
                            [] looked /\ ~safe -> "rejected"
                            [] OTHER -> "no",
                 !.pc = "answer"]
  /\ UNCHANGED <<facts, checkpoint>>

\* extract_facts: the tools an answer asks for, from the lines of a stream that
\* begin with "data: ", each of them parsed, or the blocks of a JSON answer,
\* which also names its model.
ExtractFacts(body, got) ==
  IF LooksLikeSse(body, got)
  THEN Kinds(SelectSeq(got, LAMBDA chunk : body.sse /\ "data" \in chunk.form)) \cap {"tool_use"}
  ELSE IF Parses(body, got) THEN {"model"} \cup (Kinds(got) \cap {"tool_use"}) ELSE {}

Observe ==
  /\ At("answer")
  /\ facts' = [facts EXCEPT !.gateway = @ \cup ExtractFacts(ex.body, ex.got)]
  /\ ex' = [ex EXCEPT !.pc = "answered"]
  /\ UNCHANGED checkpoint

\* toche checkpoint save drains the static of its own process.
SaveCheckpoint ==
  /\ ex # <<>>
  /\ ex.body.side = "answer"
  /\ checkpoint = <<>>
  /\ checkpoint' = <<facts.command>>
  /\ facts' = [facts EXCEPT !.command = {}]
  /\ UNCHANGED ex
-----------------------------------------------------------------------------
(***************************************************************************)
(* A body is refused for its length exactly when it is too long, however it *)
(* is cut into chunks and wherever it breaks off: one of max bytes passes   *)
(* whole, one of max + 1 does not (bounded_body.rs:12, routes.rs:87).  A    *)
(* Content-Length that is sent is the length of the body, which hyper sees  *)
(* to.                                                                      *)
(***************************************************************************)
LimitsAreExact ==
  ex # <<>> =>
    LET full == Size(ex.body.chunks)
    IN /\ ex.pc \in {"413", "502"} => full > ex.body.max
       /\ ex.pc = "accepted" => full <= ex.body.max /\ ex.got = ex.body.chunks
       /\ ex.pc \in {"collected", "answer", "answered"} => Size(ex.got) <= ex.body.max
       /\ full <= ex.body.max /\ ~ex.body.faulty => ex.pc \notin {"413", "502", "400"}

(***************************************************************************)
(* What the safe cache keeps can be replayed (inspect.rs:13).  Of a stream, *)
(* which may have been read as anything, no tool call is kept in the form   *)
(* the Messages API writes it; a JSON answer is kept without tool calls,    *)
(* and whole even when the connection broke off, unless a text contains     *)
(* "event: ".  In any form, and with any text, StoredHasNoTools is refuted: *)
(* tool calls after "data:", with spaces or with the type as a later key    *)
(* are kept, and those of a JSON answer with "event: " in a text.           *)
(* StoredIsWhole is refuted by a stream that broke off.                     *)
(***************************************************************************)
Documented == {"event", "data", "compact", "first"}

ReplayIsSafe ==
  (ex # <<>> /\ ex.kept = "stored") =>
    IF ex.body.sse
    THEN \A i \in DOMAIN ex.got : ex.got[i].kind \in Tools => ~(Documented \subseteq ex.got[i].form)
    ELSE "event_text" \notin Kinds(ex.body.chunks) =>
           Kinds(ex.got) \cap Tools = {} /\ ex.got = ex.body.chunks

StoredHasNoTools ==
  (ex # <<>> /\ ex.kept = "stored") => Kinds(ex.got) \cap Tools = {}

StoredIsWhole == (ex # <<>> /\ ex.kept = "stored") => ex.got = ex.body.chunks

(***************************************************************************)
(* "The gateway pushes response body bytes through `observe_response`, and  *)
(* CLI commands drain facts via `drain_facts`" (observer.rs:12): what was   *)
(* observed before a checkpoint is saved is in it.  Refuted: the command    *)
(* has a static of its own.                                                 *)
(***************************************************************************)
FactsReachCheckpoint ==
  [][SaveCheckpoint => facts.gateway \subseteq checkpoint'[1]]_answerVars
=============================================================================
