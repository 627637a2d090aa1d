-------------------------- MODULE StreamTranslator --------------------------
(***************************************************************************)
(* StreamTranslator (crates/xrouter-server/src/lib.rs) and the stateful    *)
(* chunk translators it calls (translate.rs): a streamed answer is turned, *)
(* line by line, from the protocol of the upstream into that of the        *)
(* client.  It is used when the two differ, so an OpenAI upstream feeds an *)
(* Anthropic client and the other way round.  A client of the Responses    *)
(* API is fed by ResponsesStreamTranslator, from a Chat Completions stream *)
(* ("chat"), which may be what StreamTranslator made of an Anthropic one.  *)
(*                                                                         *)
(* A line is what one SSE event says; SseLineBuffer puts lines together    *)
(* from network chunks, and a last line without its newline is handled by  *)
(* flush.  Texts, names and arguments are left out: an event is its type   *)
(* and the block or tool it is for.                                        *)
(***************************************************************************)
EXTENDS Integers, Sequences, SequencesExt, Sorting

CONSTANTS
  ToolIndex,     (* `index` values of the tool calls of an OpenAI stream.  *)
  Block,         (* Indexes of the blocks of an Anthropic stream, 0..n.    *)
  MaxLines       (* Bounds the model: lines before the stream closes.      *)

ASSUME StreamAssumption ==
  /\ ToolIndex \subseteq Nat
  /\ Block \subseteq Nat
  /\ MaxLines \in Nat

VARIABLES
  protocol,      (* Which protocol the upstream speaks.                    *)
  source,        (* What an upstream that keeps to it may still send; and  *)
                 (* whether it has named each tool before sending for it.  *)
  st,            (* The translator's state, and all it has sent (out).     *)
  lines,         (* Lines read so far.                                     *)
  usage          (* History: the last number of tokens, not zero, that a   *)
                 (* "chat" upstream has reported.                          *)

streamVars == <<protocol, source, st, lines, usage>>

Absent == -1

(* OaToAnthStreamState and AnthToOaStreamState.                            *)
ToAnthropic ==
  [out |-> <<>>, started |-> FALSE, textOpen |-> FALSE, textIndex |-> 0, next |-> 0,
   block |-> [i \in ToolIndex |-> Absent], begun |-> {}, finished |-> FALSE]
ToOpenai ==
  [out |-> <<>>, tool |-> [b \in Block |-> Absent], next |-> 0, finished |-> FALSE]

(* ResponsesStreamTranslator; a piece of text is the line it came with.    *)
ToResponses ==
  [out |-> <<>>, started |-> FALSE, text |-> <<>>, usage |-> 0, finished |-> FALSE]

StreamInit ==
  /\ \/ protocol = "openai" /\ st = ToAnthropic
     \/ protocol = "anthropic" /\ st = ToOpenai
     \/ protocol = "chat" /\ st = ToResponses
  /\ source = [phase |-> "open", at |-> Absent, kind |-> "text", named |-> TRUE]
  /\ lines = 0 /\ usage = 0

Emit(x, events) == [x EXCEPT !.out = @ \o events]

-----------------------------------------------------------------------------
(* An OpenAI upstream: a chunk is translated in the order message, text,   *)
(* tool call, finish.                                                      *)

WithMessage(x) ==
  IF x.started THEN x
  ELSE Emit([x EXCEPT !.started = TRUE], <<<<"message_start">>>>)

(* Mutant: the index of the block is not used up.                          *)
TextBlockUncounted(x) ==
  IF x.textOpen THEN x
  ELSE Emit([x EXCEPT !.textOpen = TRUE, !.textIndex = x.next], <<<<"block_start", x.next>>>>)

TextBlock(x) ==
  IF x.textOpen THEN x
  ELSE Emit([x EXCEPT !.textOpen = TRUE, !.textIndex = x.next, !.next = @ + 1],
            <<<<"block_start", x.next>>>>)

WithText(x) == Emit(TextBlock(x), <<<<"block_delta", TextBlock(x).textIndex>>>>)

TextClosed(x) ==
  IF x.textOpen THEN Emit([x EXCEPT !.textOpen = FALSE], <<<<"block_stop", x.textIndex>>>>) ELSE x

(* A tool call gets its block on its first piece, but the block is started *)
(* by the first that has an id or a name; arguments do not wait for that.  *)
WithTool(x, piece) ==
  LET i == piece.index
      c == TextClosed(x)
      a == IF c.block[i] = Absent THEN [c EXCEPT !.block[i] = c.next, !.next = @ + 1] ELSE c
      b == IF piece.named /\ i \notin a.begun
           THEN Emit([a EXCEPT !.begun = @ \cup {i}], <<<<"block_start", a.block[i]>>>>)
           ELSE a
  IN IF piece.args THEN Emit(b, <<<<"block_delta", b.block[i]>>>>) ELSE b

(* Mutant: only the text block is closed.                                  *)
FinishedEarly(x) ==
  IF x.finished THEN {x}
  ELSE {Emit([TextClosed(x) EXCEPT !.finished = TRUE], <<<<"message_delta">>, <<"message_stop">>>>)}

(* The first finish reason closes every block, the tools' in the order of  *)
(* a hash map, which may be any.                                           *)
Finished(x) ==
  IF x.finished THEN {x}
  ELSE { Emit([TextClosed(x) EXCEPT !.finished = TRUE],
              stops \o <<<<"message_delta">>, <<"message_stop">>>>) :
           stops \in SetToSeqs({<<"block_stop", x.block[i]>> : i \in x.begun}) }

(* [DONE] to an Anthropic client, and the end of a stream without one.     *)
Stopped(x) == Emit([x EXCEPT !.finished = TRUE], <<<<"message_stop">>>>)

(* Mutant: the end of the stream is not marked.                            *)
FlushedSilently(x) == x

Flushed(x) == IF x.finished THEN x ELSE Stopped(x)

NoTool == [index |-> Absent, named |-> FALSE, args |-> FALSE]
Pieces == [index : ToolIndex, named : BOOLEAN, args : BOOLEAN]

Chunk(text, piece) ==
  LET m == WithMessage(st)
      t == IF text THEN WithText(m) ELSE m
  IN IF piece = NoTool THEN t ELSE WithTool(t, piece)

(* What an upstream sends for a tool comes with its name, or after it.     *)
Named(piece) == piece = NoTool \/ piece.named \/ piece.index \in st.begun

Readable == lines < MaxLines /\ source.phase # "closed"
Read == lines' = lines + 1 /\ UNCHANGED <<protocol, usage>>

(* A chunk with any of text, a piece of a tool call, and a finish reason.  *)
OpenaiChunk(text, piece) ==
  /\ protocol = "openai" /\ Readable /\ Read
  /\ source.phase = "open"
  /\ LET named == source.named /\ Named(piece) IN
     \/ /\ st' = Chunk(text, piece)
        /\ source' = [source EXCEPT !.named = named]
     \/ /\ st' \in Finished(Chunk(text, piece))
        /\ source' = [source EXCEPT !.named = named, !.phase = "finished"]

OpenaiDone ==
  /\ protocol = "openai" /\ Readable /\ Read
  /\ source.phase \in {"open", "finished"}
  /\ st' = Stopped(st)
  /\ source' = [source EXCEPT !.phase = "done"]

-----------------------------------------------------------------------------
(* An Anthropic upstream: message_start, then blocks one after the other,  *)
(* then message_delta and message_stop.  `at` is the block it is in.       *)
AnthropicMessage ==
  /\ protocol = "anthropic" /\ Readable /\ Read
  /\ source.phase = "open" /\ st.out = <<>>
  /\ st' = Emit(st, <<<<"role">>>>)
  /\ source' = [source EXCEPT !.phase = "blocks"]

(* Mutant: a tool is numbered by its block.                                *)
ToolByBlock(x, b) ==
  Emit([x EXCEPT !.tool[b] = b, !.next = @ + 1], <<<<"tool", b>>>>)

(* Tool blocks are numbered for the client; text blocks are not announced. *)
ToolBegun(x, b) ==
  Emit([x EXCEPT !.tool[b] = x.next, !.next = @ + 1], <<<<"tool", x.next>>>>)

AnthropicBlock(b, kind) ==
  /\ protocol = "anthropic" /\ Readable /\ Read
  /\ source.phase = "blocks"
  /\ b = IF source.at = Absent THEN 0 ELSE source.at + 1
  /\ st' = IF kind = "tool" THEN ToolBegun(st, b) ELSE st
  /\ source' = [source EXCEPT !.phase = "block", !.at = b, !.kind = kind]

AnthropicDelta ==
  /\ protocol = "anthropic" /\ Readable /\ Read
  /\ source.phase = "block"
  /\ st' = Emit(st, IF source.kind = "text" THEN <<<<"content">>>>
                    ELSE IF st.tool[source.at] = Absent THEN <<>>
                    ELSE <<<<"args", st.tool[source.at]>>>>)
  /\ UNCHANGED source

(* content_block_stop, which is not passed on.                             *)
AnthropicBlockStop ==
  /\ protocol = "anthropic" /\ Readable /\ Read
  /\ source.phase = "block"
  /\ source' = [source EXCEPT !.phase = "blocks"]
  /\ UNCHANGED st

AnthropicFinish ==
  /\ protocol = "anthropic" /\ Readable /\ Read
  /\ source.phase = "blocks"
  /\ st' = Emit(st, <<<<"finish">>>>)
  /\ source' = [source EXCEPT !.phase = "finished"]

AnthropicStop ==
  /\ protocol = "anthropic" /\ Readable /\ Read
  /\ source.phase = "finished" /\ ~st.finished
  /\ st' = Emit([st EXCEPT !.finished = TRUE], <<<<"done">>>>)
  /\ source' = [source EXCEPT !.phase = "done"]

-----------------------------------------------------------------------------
(* A Chat Completions stream for a client of the Responses API.  The first *)
(* bytes of the stream, whatever they are, announce the response.          *)
Created(x) ==
  IF x.started THEN x ELSE Emit([x EXCEPT !.started = TRUE], <<<<"created">>>>)

WithDelta(x, piece) ==
  Emit([x EXCEPT !.text = Append(@, piece)], <<<<"delta", piece>>>>)

(* Mutant: a later zero replaces what was reported before.                 *)
UsageReplaced(x, n) == [x EXCEPT !.usage = n]

UsageTaken(x, n) == IF n > 0 THEN [x EXCEPT !.usage = n] ELSE x

Completed(x) ==
  IF x.finished THEN x
  ELSE Emit([x EXCEPT !.finished = TRUE], <<<<"completed", x.text, x.usage>>>>)

Reports(n) == usage' = IF n > 0 THEN n ELSE usage

(* Text, tokens used (Absent if it says nothing of it), or both; a tool   *)
(* call is not passed on.                                                  *)
ChatChunk(text, n) ==
  /\ protocol = "chat" /\ Readable
  /\ source.phase = "open"
  /\ LET x == IF text THEN WithDelta(Created(st), lines + 1) ELSE Created(st)
     IN st' = IF n = Absent THEN x ELSE UsageTaken(x, n)
  /\ Reports(n)
  /\ lines' = lines + 1
  /\ UNCHANGED <<protocol, source>>

ChatDone ==
  /\ protocol = "chat" /\ Readable /\ Read
  /\ source.phase = "open"
  /\ st' = Created(st)
  /\ source' = [source EXCEPT !.phase = "done"]

(* The first bytes may be less than a line.                                *)
ChatBytes ==
  /\ protocol = "chat" /\ source.phase = "open" /\ ~st.started
  /\ st' = Created(st)
  /\ UNCHANGED <<protocol, source, lines, usage>>

(* At the end, of a last line without its newline only the tokens count.   *)
ChatEnds(n) ==
  /\ protocol = "chat" /\ source.phase # "closed"
  /\ n # Absent => st.started
  /\ st' = Completed(IF n = Absent THEN st ELSE UsageTaken(st, n))
  /\ Reports(n)
  /\ source' = [source EXCEPT !.phase = "closed", !.kind = "ended"]
  /\ UNCHANGED <<protocol, lines>>

(* An error of the connection is passed on, and is the end of the stream.  *)
ChatBreaks ==
  /\ protocol = "chat" /\ source.phase # "closed"
  /\ source' = [source EXCEPT !.phase = "closed", !.kind = "broken"]
  /\ UNCHANGED <<protocol, st, lines, usage>>

-----------------------------------------------------------------------------
(* Lines that say nothing: comments, unknown events, no choices, JSON that *)
(* does not parse.                                                         *)
Noise ==
  /\ Readable /\ Read
  /\ st' = IF protocol = "chat" THEN Created(st) ELSE st
  /\ UNCHANGED source

(* The upstream ends or breaks off, at any time: to this translator an     *)
(* error of the connection is a chunk of no bytes, and the end comes next. *)
Close ==
  /\ protocol # "chat" /\ source.phase # "closed"
  /\ source' = [source EXCEPT !.phase = "closed"]
  /\ st' = IF protocol = "openai" THEN Flushed(st) ELSE st
  /\ UNCHANGED <<protocol, lines, usage>>

StreamNext ==
  \/ \E text \in BOOLEAN, piece \in Pieces \cup {NoTool} : OpenaiChunk(text, piece)
  \/ OpenaiDone
  \/ AnthropicMessage
  \/ \E b \in Block, kind \in {"text", "tool"} : AnthropicBlock(b, kind)
  \/ AnthropicDelta \/ AnthropicBlockStop \/ AnthropicFinish \/ AnthropicStop
  \/ \E n \in {Absent, 0, lines + 1} : (\E text \in BOOLEAN : ChatChunk(text, n)) \/ ChatEnds(n)
  \/ ChatBytes \/ ChatDone \/ ChatBreaks
  \/ Noise
  \/ Close

StreamSpec == StreamInit /\ [][StreamNext]_streamVars
-----------------------------------------------------------------------------
sent == st.out
Events(kind) == {n \in DOMAIN sent : sent[n][1] = kind}
Sent(e) == {n \in DOMAIN sent : sent[n] = e}

(* The events of a kind have the numbers 0, 1, 2 and so on.                *)
Numbered(kind) ==
  \A n \in Events(kind) :
    {sent[m][2] : m \in {m \in Events(kind) : m < n}} = 0..(sent[n][2] - 1)

(* The pieces of text that were sent, in their order.                      *)
TextSent ==
  LET at == Ascending(Events("delta")) IN [n \in DOMAIN at |-> sent[at[n]][2]]

StreamTypeOK ==
  /\ protocol \in {"openai", "anthropic", "chat"}
  /\ lines \in 0..MaxLines
  /\ usage \in Nat
  /\ protocol # "chat" => st.next \in Nat
  /\ protocol = "openai" =>
       /\ st.textOpen => st.textIndex \in 0..(st.next - 1)
       /\ st.block \in [ToolIndex -> (0..(st.next - 1)) \cup {Absent}]
       /\ st.begun \subseteq ToolIndex
  /\ protocol = "anthropic" => st.tool \in [Block -> (0..(st.next - 1)) \cup {Absent}]

(* Safety: whatever an Anthropic client is sent, the first event is        *)
(* message_start, the only one, unless the upstream said nothing and all   *)
(* there is are message_stops; and once its stream is closed it has a      *)
(* message_stop, last ("a clean terminal event if the upstream closed      *)
(* without one", flush).  That is so when the upstream breaks off, too:    *)
(* the client cannot tell, though the plan would have it sent an error     *)
(* event (plan/04:58, plan/08:17,30).                                      *)
MessageFramed ==
  protocol = "openai" =>
    /\ \A n \in DOMAIN sent : sent[n] # <<"message_stop">> =>
         (sent[n] = <<"message_start">> <=> n = 1)
    /\ source.phase = "closed" => sent # <<>> /\ sent[Len(sent)] = <<"message_stop">>

(* Safety: if the upstream names each tool call before it sends arguments  *)
(* for it, then each block an Anthropic client gets is started once and    *)
(* stopped at most once, with all its deltas in between, and blocks are    *)
(* numbered from 0 in the order they start, however text and tool calls    *)
(* alternate; and when the client is told how the message ended            *)
(* (message_delta, which only a finish reason brings), every block that    *)
(* was started has been stopped ("close all blocks", translate.rs).  After *)
(* [DONE], or a break, without a finish reason blocks stay open.           *)
BlocksNest ==
  protocol = "openai" /\ source.named =>
    /\ Numbered("block_start")
    /\ \A n \in DOMAIN sent : sent[n][1] \in {"block_delta", "block_stop"} =>
         LET b == sent[n][2] IN
         /\ \E m \in Sent(<<"block_start", b>>) : m < n
         /\ \A m \in Sent(<<"block_stop", b>>) : m >= n
    /\ \A n \in Sent(<<"message_delta">>), b \in 0..Len(sent) :
         Sent(<<"block_start", b>>) # {} => \E m \in Sent(<<"block_stop", b>>) : m < n

(* Safety: an OpenAI client gets the tools numbered from 0 in the order of *)
(* the upstream's blocks, with text blocks in between or not, and each     *)
(* piece of arguments right after the announcement of its own tool.        *)
ArgumentsFollowTheirTool ==
  /\ Numbered("tool")
  /\ \A n \in DOMAIN sent : sent[n][1] = "args" =>
       \E m \in Sent(<<"tool", sent[n][2]>>) :
         m < n /\ \A l \in (m + 1)..(n - 1) : sent[l] = sent[n]

(* Safety: a client of the Responses API gets response.created before any  *)
(* text, and, unless the connection breaks, one response.completed, last,  *)
(* which has all the text that was sent before, in order, and the tokens   *)
(* the upstream reported last, a last line without its newline included.   *)
ResponseCompletes ==
  protocol = "chat" =>
    /\ \A n \in DOMAIN sent : sent[n][1] = "delta" => sent[1] = <<"created">>
    /\ \A n \in DOMAIN sent : sent[n][1] = "completed" => n = Len(sent)
    /\ source.kind = "ended" =>
         sent[Len(sent)] = <<"completed", TextSent, usage>>
=============================================================================
