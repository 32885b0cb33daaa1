----------------------------- MODULE RequestPath ----------------------------
(***************************************************************************)
(* The way of Messages requests through the handler, src/gateway/routes.rs, *)
(* between their arrival and their leaving for the upstream: one client     *)
(* sends the turns of a conversation, or variants of one request, one after *)
(* the other.  What several requests do to the shield at once is in         *)
(* Gateway; what becomes of the stored blobs in SafeCache.                  *)
(***************************************************************************)
EXTENDS RequestBody

CONSTANTS
  Defs,        \* the filter definitions, in the order of the registry
  PathScenes   \* records [resolved, turns, bypasses, faults]

\* Each turn is the body of a request.
ASSUME TurnAssumption == \A s \in PathScenes : s.turns \in Seq(RequestBodies)

VARIABLES
  scene,       \* the scene of this behaviour, None in those of another part
  rq,          \* the request being handled, or None
  cas,         \* the texts stored as blobs
  registered,  \* the hashes in the registry of the reducer
  sent         \* what came of each turn

pathVars == <<scene, rq, cas, registered, sent>>

PathInit ==
  /\ scene \in PathScenes
  /\ rq = None
  /\ cas = {}
  /\ registered = {}
  /\ sent = <<>>

PathIdle == scene = None /\ rq = None /\ cas = {} /\ registered = {} /\ sent = <<>>

Bypassed(what) == rq.bypass \cap {"all", what} # {}

\* A request comes with its bypass headers; a model that the integration does
\* not list is refused.
Receive ==
  /\ scene # None
  /\ rq = None
  /\ Len(sent) < Len(scene.turns)
  /\ \E bypass \in scene.bypasses :
       LET body == scene.turns[Len(sent) + 1]
           models == scene.resolved.models
           new == [client |-> body, bypass |-> bypass,
                   key |-> FlightKey(scene.resolved, body, bypass),
                   body |-> body, hashes |-> <<>>, plan |-> NoBreakpoints, pc |-> "reduce"]
       IN IF models # {} /\ ExtractModel(body) \notin models
          THEN /\ sent' = Append(sent, [new EXCEPT !.key = None, !.pc = "400"])
               /\ UNCHANGED rq
          ELSE /\ rq' = new
               /\ UNCHANGED sent
  /\ UNCHANGED <<scene, cas, registered>>

\* reduce_body_at, with the store failing at one of the blobs.
Reduce ==
  /\ rq # None
  /\ rq.pc = "reduce"
  /\ \E failing \in IF "cas" \in scene.faults THEN 0..2 ELSE {0} :
       LET r == ReduceBody(Defs, scene.resolved, rq.client, Bypassed("reduce"), failing)
       IN /\ rq' = [rq EXCEPT !.body = r.body, !.hashes = r.hashes, !.pc = "instruct"]
          /\ cas' = cas \cup Range(r.stored)
  /\ UNCHANGED <<scene, registered, sent>>

Instruct ==
  /\ rq # None
  /\ rq.pc = "instruct"
  /\ LET instruction == IF Bypassed("efficiency") THEN None ELSE Instruction(scene.resolved)
     IN rq' = [rq EXCEPT !.body = InjectEfficiency(@, instruction), !.pc = "mark"]
  /\ UNCHANGED <<scene, cas, registered, sent>>

\* Breakpoints are looked for in every mode and set in auto.
Mark ==
  /\ rq # None
  /\ rq.pc = "mark"
  /\ LET cache == scene.resolved.cache
         plan == IF cache # None /\ cache.enabled /\ ~Bypassed("cache")
                 THEN FindBreakpoints(rq.body, cache.breakpoint) ELSE NoBreakpoints
     IN rq' = IF plan # NoBreakpoints /\ cache.mode = "auto"
              THEN [rq EXCEPT !.body = InjectCacheControl(@, plan), !.plan = plan, !.pc = "register"]
              ELSE [rq EXCEPT !.pc = "register"]
  /\ UNCHANGED <<scene, cas, registered, sent>>

\* The hashes go into the registry before the body goes out; a ledger that
\* cannot be opened, or a statement that fails, is passed over.
Register ==
  /\ rq # None
  /\ rq.pc = "register"
  /\ \E noted \in IF "db" \in scene.faults THEN SUBSET Range(rq.hashes) ELSE {Range(rq.hashes)} :
       registered' = registered \cup noted
  /\ rq' = [rq EXCEPT !.pc = "send"]
  /\ UNCHANGED <<scene, cas, sent>>

Send ==
  /\ rq # None
  /\ rq.pc = "send"
  /\ sent' = Append(sent, rq)
  /\ rq' = None
  /\ UNCHANGED <<scene, cas, registered>>

PathNext == Receive \/ Reduce \/ Instruct \/ Mark \/ Register \/ Send
-----------------------------------------------------------------------------
Forwarded == {i \in DOMAIN sent : sent[i].pc = "send"}

\* A block as the model could read it after toche expand.
Expanded(block) ==
  [StripCacheControl(block) EXCEPT
     !.parts = IF block.marker = <<>> THEN <<ExtractText(block)>> ELSE <<block.marker[1].hash>>,
     !.marker = <<>>]

\* A body but for its cache marks and the form of its answer.
Unmarked(body) ==
  [MapContent(body, StripCacheControl) EXCEPT
     !.stream = FALSE, !.system.blocks = [b \in DOMAIN @ |-> StripCacheControl(@[b])]]

ExpandedBody(body) == Unmarked(MapContent(body, Expanded))

(***************************************************************************)
(* Nothing a client sent is lost on the way: with every marker replaced by  *)
(* the blob it names, the messages that left for the upstream are those     *)
(* that came, and every such blob is stored and, if the ledger works,       *)
(* registered.  This also when storing one blob of several fails: the whole *)
(* body is then the original (routes.rs:412, transform.rs:129).             *)
(***************************************************************************)
MarkersRestore ==
  \A i \in Forwarded :
    LET now == sent[i].body
        named == {b.marker[1].hash : b \in {c \in Range(Content(now)) : c.marker # <<>>}}
    IN /\ ExpandedBody(now).messages = ExpandedBody(sent[i].client).messages
       /\ named \subseteq cas
       /\ "db" \notin scene.faults => named \subseteq registered

(***************************************************************************)
(* Two requests with one flight key ask the upstream the same: the waiter   *)
(* of the shield is answered with what the leader got (routes.rs:294).  The *)
(* header that keeps the instruction out is not in the key, so the requests *)
(* compared agree on it; SharedAnswerFitsAlways is refuted without that.    *)
(***************************************************************************)
SharedAnswerFitsIf(Comparable(_, _)) ==
  \A i, j \in Forwarded :
    (sent[i].key = sent[j].key /\ sent[i].key # None /\ Comparable(sent[i], sent[j])) =>
      ExpandedBody(sent[i].body) = ExpandedBody(sent[j].body)

InstructedAlike(a, b) == ("efficiency" \in a.bypass) = ("efficiency" \in b.bypass)

SharedAnswerFits == SharedAnswerFitsIf(InstructedAlike)

SharedAnswerFitsAlways == SharedAnswerFitsIf(LAMBDA a, b : TRUE)

\* A later turn: the earlier one with messages added.
Extends(body, earlier) ==
  /\ IsPrefix(earlier.messages, body.messages)
  /\ [body EXCEPT !.messages = <<>>] = [earlier EXCEPT !.messages = <<>>]

\* Tool results come in messages of the user, as the Messages API demands.
ResultsFromUser(body) ==
  \A m \in DOMAIN body.messages : Has(body.messages[m], "tool_result") => body.messages[m].role = "user"

\* No tool use of the messages added has the identifier of an earlier tool result.
UsesAreNew(body, earlier) ==
  \A u \in ToolUses(body) \ ToolUses(earlier), b \in Range(Content(earlier)) :
    b.type = "tool_result" => b.id # u.use.id

\* The blocks of the system prompt, and of the messages up to a position.
PromptUpTo(body, m, b) ==
  LET unmarked == Unmarked(body)
  IN <<unmarked.system.blocks,
       [k \in 1..m |-> IF k = m THEN SubSeq(unmarked.messages[k].blocks, 1, b)
                       ELSE unmarked.messages[k].blocks]>>

(***************************************************************************)
(* What the provider has cached for a turn is found again in the next one.  *)
(* Up to a breakpoint that was set, a later turn has the same prompt, even  *)
(* if storing a blob failed in one of them; and if none failed and no tool  *)
(* use comes later for a result that was there, all that was sent is, so    *)
(* that the breakpoints a client sets beyond the first tool interaction     *)
(* hold as well.                                                            *)
(***************************************************************************)
CachedPrefixStable ==
  \A i, j \in Forwarded :
    (i < j /\ sent[i].bypass = sent[j].bypass /\ Extends(sent[j].client, sent[i].client)) =>
      /\ ResultsFromUser(sent[i].client) =>
           \A at \in sent[i].plan.message_blocks :
             PromptUpTo(sent[j].body, at[1], at[2]) = PromptUpTo(sent[i].body, at[1], at[2])
      /\ ("cas" \notin scene.faults /\ UsesAreNew(sent[j].client, sent[i].client)) =>
           IsPrefix(Unmarked(sent[i].body).messages, Unmarked(sent[j].body).messages)

\* A percentage is a share; refuted where a filter lengthens a short text.
PercentIsShare ==
  \A i \in Forwarded : \A k \in DOMAIN Content(sent[i].body) :
    LET marker == Content(sent[i].body)[k].marker IN marker # <<>> => marker[1].percent \in 0..100
=============================================================================
