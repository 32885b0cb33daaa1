----------------------------- MODULE RequestBody ----------------------------
(***************************************************************************)
(* What the gateway does to the body of a Messages request: its fingerprint *)
(* and flight key, the reduction of tool results, the efficiency            *)
(* instruction and the cache breakpoints.  A body is                        *)
(*   [json, model, stream, system, messages]                                *)
(* where json tells whether it parses, system is [form, blocks] and a       *)
(* message is [role, form, blocks]; form is "string", "blocks" or "none".   *)
(* The text of a block is a sequence of lines for each of its text parts.   *)
(***************************************************************************)
EXTENDS LineFilter, Resolution

Block(type, id, parts) ==
  [type |-> type, id |-> id, name |-> "", command |-> None, parts |-> parts,
   cache_control |-> FALSE, marker |-> <<>>]

TextBlock(line) == Block("text", "", <<<<line>>>>)
ToolUse(id, name, command) == [Block("tool_use", id, <<>>) EXCEPT !.name = name, !.command = command]
ToolResult(id, parts) == Block("tool_result", id, parts)

\* What a client sends: no block of it names a blob.
Blocks ==
  [type : {"text", "tool_use", "tool_result"}, id : STRING, name : STRING,
   command : Seq(STRING) \cup {None}, parts : Seq(Seq(Lines)), cache_control : BOOLEAN, marker : {<<>>}]
Messages ==
  {g \in [role : STRING, form : {"string", "blocks", "none"}, blocks : Seq(Blocks)] :
     g.form # "blocks" => \A b \in DOMAIN g.blocks : g.blocks[b].type = "text"}
RequestBodies ==
  [json : BOOLEAN, model : STRING \cup {None}, stream : BOOLEAN,
   system : [form : {"string", "blocks", "none"}, blocks : Seq(Blocks)], messages : Seq(Messages)]

Has(message, type) == \E i \in DOMAIN message.blocks : message.blocks[i].type = type

\* The messages with other content blocks, new[m] in the message m.
WithBlocks(body, new) ==
  [body EXCEPT !.messages = [m \in DOMAIN @ |-> [@[m] EXCEPT !.blocks = new[m]]]]

\* F on every content block of the messages, where content is an array.
MapContent(body, F(_)) ==
  WithBlocks(body, [m \in DOMAIN body.messages |->
                      [b \in DOMAIN body.messages[m].blocks |-> F(body.messages[m].blocks[b])]])

Content(body) ==
  FlattenSeq([m \in DOMAIN body.messages |-> body.messages[m].blocks])

(***************************************************************************)
(* The fingerprint leaves out stream and cache_control; the key adds what   *)
(* the gateway resolved.  Headers of the client are in neither.             *)
(***************************************************************************)
StripCacheControl(block) == [block EXCEPT !.cache_control = FALSE]

\* Mutant of Normalize: the system prompt is forgotten.
NormalizeMessages(body) ==
  [MapContent(body, StripCacheControl) EXCEPT !.stream = FALSE, !.system = [form |-> "none", blocks |-> <<>>]]

Normalize(body) ==
  [MapContent(body, StripCacheControl) EXCEPT
     !.stream = FALSE,
     !.system.blocks = [b \in DOMAIN @ |-> StripCacheControl(@[b])]]

Fingerprint(body) == IF body.json THEN Normalize(body) ELSE body

ExtractModel(body) == IF body.json /\ body.model # None THEN body.model ELSE "unknown"

IsStreaming(body) == body.json /\ body.stream

PolicyHash(resolved) ==
  << IF resolved.cache = None THEN <<FALSE, "observe", "standard">>
     ELSE <<resolved.cache.enabled, resolved.cache.mode, resolved.cache.breakpoint>>,
     resolved.reduce # None,
     IF resolved.efficiency = None THEN "normal" ELSE resolved.efficiency,
     resolved.safe_cache # None /\ resolved.safe_cache.enabled >>

\* A secret that the configuration holds inline is displayed as inline(***).
DisplaySecret(secret) ==
  IF secret.type = "legacy_inline" THEN [secret EXCEPT !.value = "***"] ELSE secret

TrustDomain(resolved) ==
  <<resolved.id, resolved.name, resolved.id, DisplaySecret(resolved.auth.secret_ref)>>

\* Bypassed requests and streams do not go through the shield.
FlightKey(resolved, body, bypass) ==
  IF bypass \cap {"all", "shield"} # {} \/ IsStreaming(body) THEN None
  ELSE <<resolved.upstream_url, Fingerprint(body), TrustDomain(resolved), PolicyHash(resolved)>>

(***************************************************************************)
(* Reduction.  The last tool_use of an assistant with an identifier names   *)
(* the tool, and the last one whose command can be resolved the command.    *)
(***************************************************************************)
\* trim_start_matches: every leading w that a space follows.
DropLeading(w, command) ==
  LET stays == {i \in DOMAIN command : command[i] # w \/ i = Len(command)}
  IN SubSeq(command, Min(stays), Len(command))

ResolveCommand(use) ==
  IF use.name # "Bash" \/ use.command = None THEN None
  ELSE DropLeading("rtk", DropLeading("sudo", use.command))

ToolUses(body) ==
  UNION {{[at |-> <<m, b>>, use |-> body.messages[m].blocks[b]] :
            b \in {k \in DOMAIN body.messages[m].blocks : body.messages[m].blocks[k].type = "tool_use"}} :
         m \in {k \in DOMAIN body.messages : body.messages[k].role = "assistant"}}

Before(a, b) == a[1] < b[1] \/ (a[1] = b[1] /\ a[2] < b[2])

LatestUse(uses) == (CHOOSE u \in uses : \A v \in uses : ~Before(u.at, v.at)).use

LiteralName(uses, id) ==
  LET mine == {u \in uses : u.use.id = id} IN IF mine = {} THEN "" ELSE LatestUse(mine).name

EffectiveCommand(uses, id) ==
  LET mine == {u \in uses : u.use.id = id /\ ResolveCommand(u.use) # None}
  IN IF mine = {} THEN None ELSE ResolveCommand(LatestUse(mine))

FilterCommand(uses, id) ==
  IF EffectiveCommand(uses, id) # None THEN EffectiveCommand(uses, id)
  ELSE <<LiteralName(uses, id)>>

ExtractText(block) == FlattenSeq(block.parts)

\* The first text part takes the new text, the others are emptied.
ReplaceContent(block, text) ==
  [block EXCEPT !.parts =
     IF @ = <<>> THEN <<text>> ELSE [i \in DOMAIN @ |-> IF i = 1 THEN text ELSE <<>>]]

EstimateTokens(text) == (Characters(text) + 3) \div 4

\* Stands for u32::MAX, which is outside the integers of TLC.
Saturated == 2147483647

\* u64 arithmetic of a release build and a saturating cast to u32, but for the
\* rounding of f64, which may lose one percent; in a debug build the subtraction
\* panics, which is an outcome of Gateway.
Percent(raw, reduced) ==
  IF raw = 0 THEN 0 ELSE IF reduced > raw THEN Saturated ELSE ((raw - reduced) * 100) \div raw

\* Whether a block is a tool result that a filter applies to.
Reducible(defs, config, uses, block) ==
  /\ block.type = "tool_result"
  /\ LiteralName(uses, block.id) \notin config.command_bypass
  /\ ExtractText(block) # <<>>
  /\ CommandMatchesFilter(defs, FilterCommand(uses, block.id))
  /\ FindMatchingFilter(defs, FilterCommand(uses, block.id)) # <<>>

ReducedText(defs, uses, block) ==
  ApplyFilter(FindMatchingFilter(defs, FilterCommand(uses, block.id))[1], ExtractText(block)).text

\* The SHA-256 of a text, which stands for the text.
Hash(text) == text

\* Mutant of ReduceBlock: the marker names what is left.
ReduceBlockNamed(defs, config, uses, block) ==
  IF ~Reducible(defs, config, uses, block) THEN block
  ELSE LET reduced == ReducedText(defs, uses, block)
       IN [ReplaceContent(block, reduced) EXCEPT !.marker = <<[hash |-> Hash(reduced), percent |-> 0]>>]

ReduceBlock(defs, config, uses, block) ==
  IF ~Reducible(defs, config, uses, block) THEN block
  ELSE LET raw == ExtractText(block)
           reduced == ReducedText(defs, uses, block)
       IN [ReplaceContent(block, reduced) EXCEPT
             !.marker = <<[hash |-> Hash(raw),
                           percent |-> Percent(EstimateTokens(raw), EstimateTokens(reduced))]>>]

\* The blobs are stored one after the other; with failing = k the k-th write
\* fails, and the body that was parsed is given up for the one that came.
ReduceBody(defs, resolved, body, bypassed, failing) ==
  LET config == IF resolved.reduce = None THEN [enabled |-> TRUE, command_bypass |-> {}]
                ELSE resolved.reduce
      uses == ToolUses(body)
      content == Content(body)
      Reduced(b) == ReduceBlock(defs, config, uses, b)
      found == Those(content, {b \in Range(content) : Reducible(defs, config, uses, b)})
      hashes == [i \in DOMAIN found |-> Hash(ExtractText(found[i]))]
      total == Len(Those(content, {b \in Range(content) : b.type = "tool_result"}))
      kept == [body |-> body, hashes |-> <<>>, stored |-> <<>>, reductions |-> 0,
               passthroughs |-> 0]
  IN IF ~config.enabled \/ bypassed \/ ~body.json THEN kept
     ELSE IF failing \in DOMAIN hashes
     THEN [kept EXCEPT !.stored = SubSeq(hashes, 1, failing - 1)]
     ELSE [body |-> MapContent(body, Reduced),
           hashes |-> hashes, stored |-> hashes, reductions |-> Len(found),
           passthroughs |-> total - Len(found)]

(***************************************************************************)
(* The instruction is one more block at the end of the system prompt, if    *)
(* there is one.                                                            *)
(***************************************************************************)
Instruction(resolved) ==
  IF resolved.efficiency \in {"concise", "careful"} THEN TextBlock(Line(resolved.efficiency, 8)) ELSE None

InjectEfficiency(body, instruction) ==
  IF instruction = None \/ ~body.json \/ body.system.form = "none" THEN body
  ELSE [body EXCEPT !.system = [form |-> "blocks", blocks |-> Append(@.blocks, instruction)]]

(***************************************************************************)
(* Breakpoints: the last block of the system prompt, and the last block     *)
(* before the first tool interaction.  A content that is a string is passed *)
(* over.                                                                    *)
(***************************************************************************)
ToolInteraction(message) ==
  \/ message.role = "assistant" /\ Has(message, "tool_use")
  \/ message.role = "user" /\ Has(message, "tool_result")

\* Mutant of FindBreakpoints: tools do not stop the search.
BreakpointsAtEnd(body, breakpoint) ==
  LET indexed == {m \in DOMAIN body.messages : body.messages[m].form = "blocks"
                                               /\ body.messages[m].blocks # <<>>}
      last == Max(indexed)
  IN [system_block_index |-> 0,
      message_blocks |-> IF indexed = {} THEN {} ELSE {<<last, Len(body.messages[last].blocks)>>}]

FindBreakpoints(body, breakpoint) ==
  LET indexed == {m \in DOMAIN body.messages : body.messages[m].form = "blocks"
                                               /\ body.messages[m].blocks # <<>>}
      stops == {m \in indexed : ToolInteraction(body.messages[m])}
      before == {m \in indexed : \A s \in stops : m < s}
      last == Max(before)
  IN [system_block_index |->
        IF body.json /\ body.system.form = "blocks" THEN Len(body.system.blocks) ELSE 0,
      message_blocks |->
        IF ~body.json \/ breakpoint = "system_only" \/ before = {} THEN {}
        ELSE {<<last, Len(body.messages[last].blocks)>>}]

NoBreakpoints == [system_block_index |-> 0, message_blocks |-> {}]

MarkedIf(marks, block) == IF marks THEN [block EXCEPT !.cache_control = TRUE] ELSE block

InjectCacheControl(body, plan) ==
  LET marked ==
        WithBlocks(body,
          [m \in DOMAIN body.messages |->
             [b \in DOMAIN body.messages[m].blocks |->
                MarkedIf(<<m, b>> \in plan.message_blocks, body.messages[m].blocks[b])]])
  IN [marked EXCEPT !.system.blocks =
        [b \in DOMAIN @ |-> MarkedIf(b = plan.system_block_index, @[b])]]
=============================================================================
