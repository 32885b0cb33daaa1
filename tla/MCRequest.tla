------------------------------ MODULE MCRequest -----------------------------
(***************************************************************************)
(* Instances of Request: the filters, conversations, bodies and profiles    *)
(* that TLC follows.                                                        *)
(***************************************************************************)
EXTENDS Request

(***************************************************************************)
(* Filters: every mixture of small limits on texts of up to four lines, and *)
(* a few that replace, answer for the text, or do not compile.              *)
(***************************************************************************)
Plain ==
  [match_command |-> {"make"}, bad_regex |-> FALSE, strip_ansi |-> FALSE, replace |-> <<>>,
   match_output |-> <<>>, strip_lines_matching |-> {}, keep_lines_matching |-> {},
   truncate_lines_at |-> Absent, head_lines |-> Absent, tail_lines |-> Absent,
   max_lines |-> Absent, on_empty |-> <<>>]

Long == Line("error", 9)
Noise == Line("noise", 5)
EmptyLine == Line("blank", 1)
Red == [Line("error", 13) EXCEPT !.ansi = 5]

UpTo(n, lines) == UNION {[1..k -> lines] : k \in 0..n}

LimitedDefs ==
  {[Plain EXCEPT !.head_lines = h, !.tail_lines = t, !.max_lines = x, !.truncate_lines_at = w,
                 !.strip_lines_matching = s, !.on_empty = <<Line("ok", 8)>>] :
     h, t, x \in {Absent, 0, 1, 2}, w \in {Absent, 5}, s \in {{}, {"noise"}}}

WordDefs ==
  {[Plain EXCEPT !.strip_ansi = a, !.replace = r, !.match_output = o, !.keep_lines_matching = k,
                 !.max_lines = x, !.truncate_lines_at = w] :
     a \in BOOLEAN, r \in {<<>>, <<[from |-> "error", to |-> Noise], [from |-> "noise", to |-> EmptyLine]>>},
     o \in {<<>>, <<[pattern |-> "noise", unless |-> "error", message |-> <<Line("ok", 8)>>],
                    [pattern |-> "blank", unless |-> "", message |-> <<Line("fine", 10)>>]>>},
     k \in {{}, {"error", "blank"}}, x \in {Absent, 1}, w \in {Absent, 2}}

MCFilterCases ==
  [def : LimitedDefs, text : UpTo(4, {Long, Noise})]
  \cup [def : LimitedDefs, text : UpTo(2, {EmptyLine, Noise})]
  \cup [def : WordDefs, text : UpTo(3, {Red, Noise, EmptyLine})]

(***************************************************************************)
(* Conversations: a tool is used and answered, its identifier comes again,  *)
(* requests differ by what the fingerprint leaves out and by what it keeps. *)
(***************************************************************************)
MCDefs ==
  << [Plain EXCEPT !.match_command = {"cargo"}, !.bad_regex = TRUE],
     [Plain EXCEPT !.max_lines = 1],
     [Plain EXCEPT !.match_command = {"make", "Read"}, !.head_lines = 0] >>

Output == <<<<Long, Noise, Noise>>, <<Long>>>>
Short == <<<<Line("ok", 2)>>>>

Message(role, blocks) == [role |-> role, form |-> "blocks", blocks |-> blocks]
Hello == Message("user", <<TextBlock(Line("hello", 6))>>)
HelloString == [Hello EXCEPT !.form = "string"]
UseMake == Message("assistant", <<TextBlock(Line("so", 3)), ToolUse("t1", "Bash", <<"sudo", "make", "all">>)>>)
Made == Message("user", <<ToolResult("t1", Output)>>)
UseMore == Message("assistant", <<ToolUse("t2", "Read", None), ToolUse("t3", "Bash", <<"rtk", "cargo">>),
                                  ToolUse("t4", "Bash", <<"rtk", "make">>)>>)
More == Message("user", <<ToolResult("t2", Short), ToolResult("t3", Output),
                          ToolResult("t4", Short), ToolResult("t5", Short)>>)
UseAgain == Message("assistant", <<ToolUse("t1", "Bash", <<"ls">>)>>)

Body(system, messages) ==
  [json |-> TRUE, model |-> "opus", stream |-> FALSE, system |-> system, messages |-> messages]

NoSystem == [form |-> "none", blocks |-> <<>>]
StringSystem == [form |-> "string", blocks |-> <<TextBlock(Line("system", 7))>>]
BlockSystem == [StringSystem EXCEPT !.form = "blocks"]

Conversations ==
  { <<Body(s, <<Hello>>), Body(s, <<Hello, UseMake, Made>>),
      Body(s, <<Hello, UseMake, Made, UseMore, More>>)>> : s \in {StringSystem, BlockSystem} }
  \cup { <<Body(BlockSystem, <<HelloString>>), Body(BlockSystem, <<HelloString, UseMake, Made>>)>>,
         <<Body(NoSystem, <<Hello, UseMake, Made>>), Body(NoSystem, <<Hello, UseMake, Made, UseAgain, More>>)>> }

Marked(body) == MapContent(body, LAMBDA b : [b EXCEPT !.cache_control = TRUE])

\* One request and another like it.
Variants ==
  LET body == Body(BlockSystem, <<Hello, UseMake, Made>>)
  IN {<<body, other>> :
        other \in {body, Marked(body), [body EXCEPT !.stream = TRUE], [body EXCEPT !.model = "haiku"],
                   [body EXCEPT !.model = None], [body EXCEPT !.system = NoSystem],
                   [body EXCEPT !.json = FALSE], [body EXCEPT !.messages = <<Hello, UseMake>>]}}

Auth == [type |-> "api_key", header_name |-> "x-api-key", value |-> "key1"]

Profile(name, cache, reduce, efficiency) ==
  [name |-> name, upstream_url |-> name.base \o ".example", headers |-> {<<"beta", name>>},
   auth_method |-> Auth, cache |-> cache, reduce |-> reduce, efficiency |-> efficiency,
   safe_cache |-> None, models |-> {}]

Name(base) == [base |-> base, upper |-> FALSE, padded |-> FALSE]

Cache(mode, breakpoint) == [enabled |-> TRUE, mode |-> mode, breakpoint |-> breakpoint]
Sparing == [enabled |-> TRUE, command_bypass |-> {"Bash"}]
Off == [enabled |-> FALSE, command_bypass |-> {}]

Under(cache, reduce, efficiency) ==
  LET p == Profile(Name("a"), cache, reduce, efficiency)
  IN Head(ResolveDefault(MigrateV1ToV2([default |-> p.name, profiles |-> <<p>>])))

PathScene(resolved, turns, bypasses, faults) ==
  [resolved |-> resolved, turns |-> turns, bypasses |-> bypasses, faults |-> faults]

MCPathScenes ==
  { PathScene(Under(cache, None, efficiency), turns, {{}}, {"cas"}) :
      cache \in {None, Cache("auto", "standard"), Cache("auto", "system_only"),
                 [Cache("auto", "standard") EXCEPT !.enabled = FALSE]},
      efficiency \in {None, "concise"}, turns \in Conversations }
  \cup { PathScene(Under(Cache("auto", "standard"), reduce, None), turns, {{}, {"reduce"}}, {"db"}) :
           reduce \in {None, Off, Sparing}, turns \in Conversations }
  \cup { PathScene(Under(cache, None, "careful"), turns,
                   {{}, {"reduce"}, {"efficiency"}, {"cache"}, {"shield"}, {"all"}}, {}) :
           cache \in {Cache("auto", "standard"), Cache("observe", "standard")}, turns \in Variants }
  \cup { PathScene([Under(None, None, None) EXCEPT !.models = {"opus"}], turns, {{}}, {}) :
           turns \in Variants }

(***************************************************************************)
(* Bodies of three bytes and more against limits around their length.       *)
(***************************************************************************)
Chunk(kind, size, form) == [kind |-> kind, size |-> size, form |-> form]

Data == {Chunk("data", size, {}) : size \in 1..2}

Requests ==
  [side : {"request"}, declared : {NoLength}, max : 1..5, chunks : UpTo(3, Data),
   faulty : BOOLEAN, sse : {FALSE}, status : {0}, cached : {FALSE}, max_entry : {0}]

Declared == {[r EXCEPT !.declared = Size(r.chunks)] : r \in Requests}

(***************************************************************************)
(* Answers [sse, tool, rest]: how the chunks with a tool call are written,  *)
(* and how the others are.  JSON answers with spaces and without; streams   *)
(* as the Messages API writes them but for the tool calls, streams without  *)
(* the space after "data:", and without the space after "event:".           *)
(***************************************************************************)
NoSpace == {"bare", "compact", "first"}

Written ==
  {[sse |-> FALSE, tool |-> form, rest |-> form] : form \in {{}, {"compact"}}}
  \cup {[sse |-> TRUE, tool |-> form, rest |-> Documented] :
          form \in {Documented, NoSpace} \cup {Documented \ {f} : f \in {"data", "compact", "first"}}}
  \cup {[sse |-> TRUE, tool |-> form, rest |-> form] :
          form \in {NoSpace, Documented \ {"event"}, Documented \ {"compact"}}}
  \cup {[sse |-> TRUE, tool |-> Documented, rest |-> NoSpace]}

Answers ==
  {[side |-> "answer", declared |-> NoLength, max |-> max,
    chunks |-> [i \in DOMAIN kinds |->
                  Chunk(kinds[i], 1, IF kinds[i] \in Tools THEN w.tool ELSE w.rest)],
    faulty |-> f, sse |-> w.sse, status |-> st, cached |-> c, max_entry |-> 4] :
     max \in {3, 4, 5}, f, c \in BOOLEAN, st \in {200, 299, 300}, w \in Written,
     kinds \in {<<"head">> \o blocks \o <<stop>> :
                  blocks \in UpTo(2, {"text", "event_text", "tool_use"}), stop \in {"stop_end", "stop_tool"}}}

MCBodies == Requests \cup Declared \cup Answers

(***************************************************************************)
(* Two profiles, with the spellings of their names and of the default.      *)
(***************************************************************************)
Names == [base : {"a", "b"}, upper : BOOLEAN, padded : BOOLEAN]

MCProfileFiles ==
  {[default |-> d, profiles |-> <<
      [Profile(n, Cache("auto", "standard"), Sparing, "concise") EXCEPT !.auth_method = auth],
      Profile(Name("b"), None, None, None) >>] :
     d \in Names \cup {None}, n \in Names,
     auth \in {Auth, [type |-> "bearer", value |-> "key2"], [type |-> "none"]}}

\* Starts one after the other, and at once, with what may go wrong.
MCIdentityScenes == SUBSET {"together", "io", "crash"}

MCEnvironment == [v \in {"OTHER_KEY"} |-> "key3"]

(***************************************************************************)
(* A ledger of three calls, of which two are like, with a report in between;*)
(* models without a price or a name, both protocols, a filter that          *)
(* lengthens its text, rows that grow old.                                  *)
(***************************************************************************)
Call(model, protocol, tokens, raw, reduced) ==
  [model |-> model, protocol |-> protocol, tokens |-> tokens, raw |-> raw, reduced |-> reduced,
   priced |-> model = "opus"]

Asking == Call("opus", "anthropic", 1, 2, 1)

MCUsageScenes ==
  {[calls |-> <<Asking, Asking, other>>, filter |-> AnyProtocol, limit |-> limit, retention |-> Forever, last |-> 0] :
     other \in {Call("gpt", "openai-responses", 2, 0, 0), Call("unknown", "anthropic", 4, 1, 2),
               Call("", "anthropic", 2, 0, 0)},
     limit \in {1, 3}}
  \cup {[calls |-> <<Asking, Call("gpt", "openai-responses", 2, 0, 0)>>, filter |-> filter, limit |-> 1,
         retention |-> 1, last |-> 2] : filter \in {AnyProtocol, "anthropic"}}

\* Three saves in two projects, which overlap one another, edits, and deletes or a git that fails.
MCCheckpointScenes == {{"edit", "nogit"}, {"edit", "delete"}}
=============================================================================
