----------------------------- MODULE ProviderStream -----------------------------
(***************************************************************************)
(* Reading a provider's event stream into a completion.  The provider      *)
(* sends text and tool calls piece by piece, in any order it likes; the    *)
(* connection may end at any point.                                        *)
(*                                                                         *)
(* The arguments of a call come in Pieces pieces (of one by google), and   *)
(* are JSON when all of them are there.  A reasoning detail of openai is   *)
(* attached to its call by id, whichever comes first.  responses and pi    *)
(* send whole items as well, which are taken where the pieces were left    *)
(* out: all pieces of a text or none are.                                  *)
(***************************************************************************)
EXTENDS Naturals, FiniteSets, SequencesExt

CONSTANTS
  Indices, \* of tool calls
  MaxText, \* pieces of text
  Pieces   \* of a call's arguments

ASSUME StreamAssumption ==
  /\ Indices \subseteq Nat /\ IsFiniteSet(Indices)
  /\ {MaxText, Pieces} \subseteq Nat

VARIABLES
  provider,   \* openai, responses, anthropic, google, pi or bedrock
  spoken,     \* pieces of text sent
  started,    \* indices of the calls sent, in the order they began
  told,       \* by index, pieces of arguments sent
  details,    \* indices whose reasoning detail was sent
  finish,     \* the finish reason sent, or "none"
  connection, \* open, stopped after the last event, or ended
  text,       \* what the reader has accumulated ...
  calls,      \* ... by index: pieces, and the signature
  unmatched,  \* details without a call yet
  terminal,
  completion  \* what Stream returns

streamVars == <<provider, spoken, started, told, details, finish, connection, text,
                calls, unmatched, terminal, completion>>

Nothing == [error |-> FALSE, text |-> 0, calls |-> <<>>, stop |-> "none"]

StreamInit ==
  /\ provider \in {"openai", "responses", "anthropic", "google", "pi", "bedrock"}
  /\ spoken = 0 /\ started = <<>> /\ told = [i \in Indices |-> 0] /\ details = {}
  /\ finish = "none" /\ connection = "open"
  /\ text = 0 /\ calls = <<>> /\ unmatched = {} /\ terminal = FALSE
  /\ completion = Nothing

Sending == connection = "open" /\ finish = "none"
Began   == ToSet(started)
Whole(i) == told[i] = Pieces

\* Each action is an event and what onData does with it.
Text ==
  /\ Sending /\ spoken < MaxText
  /\ spoken' = spoken + 1 /\ text' = text + 1
  /\ UNCHANGED <<provider, started, told, details, finish, connection, calls, unmatched,
                 terminal, completion>>

\* The first piece of a call.  google sends calls whole, and they are kept in
\* the order they come.
BeginCall(i) ==
  LET key == IF provider = "google" THEN Len(started) ELSE i
      got == IF provider = "google" THEN Pieces ELSE 0
  IN  /\ Sending /\ i \notin Began
      /\ started' = Append(started, i)
      /\ told' = [told EXCEPT ![i] = got]
      /\ calls' = [k \in DOMAIN calls \cup {key} |->
                     IF k = key THEN [index |-> i, pieces |-> got, signed |-> i \in unmatched]
                     ELSE calls[k]]
      /\ unmatched' = unmatched \ {i}
      /\ UNCHANGED <<provider, spoken, details, finish, connection, text, terminal, completion>>

PartialArguments(i) ==
  /\ Sending /\ i \in Began /\ ~Whole(i)
  /\ told' = [told EXCEPT ![i] = @ + 1]
  /\ calls' = [calls EXCEPT ![i].pieces = @ + 1]
  /\ UNCHANGED <<provider, spoken, started, details, finish, connection, text, unmatched,
                 terminal, completion>>

ReasoningDetail(i) ==
  /\ Sending /\ i \notin details
  /\ details' = details \cup {i}
  /\ IF i \in DOMAIN calls
     THEN calls' = [calls EXCEPT ![i].signed = TRUE] /\ UNCHANGED unmatched
     ELSE unmatched' = unmatched \cup {i} /\ UNCHANGED calls
  /\ UNCHANGED <<provider, spoken, started, told, finish, connection, text, terminal,
                 completion>>

\* Whole arguments, calls and messages.  What an item says of a call replaces the
\* pieces; its text only stands in for them.
WholeCall(i) == [index |-> i, pieces |-> Pieces, signed |-> FALSE]
Message      == IF spoken = 0 THEN MaxText ELSE spoken
Missing      == IF text = 0 THEN Message ELSE text

ArgumentsDone(i) ==
  /\ Sending /\ i \in Began
  /\ told' = [told EXCEPT ![i] = Pieces]
  /\ calls' = [calls EXCEPT ![i].pieces = Pieces]
  /\ UNCHANGED <<provider, spoken, started, details, finish, connection, text, unmatched,
                 terminal, completion>>

CallDone(i) ==
  /\ Sending
  /\ started' = IF i \in Began THEN started ELSE Append(started, i)
  /\ told' = [told EXCEPT ![i] = Pieces]
  /\ calls' = [k \in DOMAIN calls \cup {i} |-> IF k = i THEN WholeCall(i) ELSE calls[k]]
  /\ UNCHANGED <<provider, spoken, details, finish, connection, text, unmatched, terminal,
                 completion>>

MessageDone ==
  /\ Sending
  /\ spoken' = Message /\ text' = Missing
  /\ UNCHANGED <<provider, started, told, details, finish, connection, calls, unmatched,
                 terminal, completion>>

\* The whole response, with calls that came in no other event; of an incomplete
\* one, the calls as far as they go.
ResponseCompleted(more) ==
  /\ Sending /\ more \cap Began = {}
  /\ finish' = "stop" /\ terminal' = TRUE
  /\ spoken' = Message /\ text' = Missing
  /\ started' = started \o SetToSeq(more)
  /\ told' = [i \in Indices |-> IF i \in Began \cup more THEN Pieces ELSE told[i]]
  /\ calls' = [i \in Began \cup more |-> WholeCall(i)]
  /\ UNCHANGED <<provider, details, connection, unmatched, completion>>

ResponseIncomplete(reason) ==
  /\ Sending
  /\ finish' = reason /\ terminal' = TRUE
  /\ UNCHANGED <<provider, spoken, started, told, details, connection, text, calls,
                 unmatched, completion>>

\* The model is done; or it is out of tokens or stopped by a filter or a refusal,
\* perhaps within a call.  A reason that normalizeStopReason does not know is
\* handed on and counts as "error" here.
FinishReason(reason) ==
  /\ Sending
  /\ \/ reason \in {"length", "error"}
     \/ (reason = "tool_calls" <=> Began # {}) /\ \A i \in Began : Whole(i)
  /\ finish' = reason
  /\ terminal' = (provider \in {"openai", "pi"})
  /\ UNCHANGED <<provider, spoken, started, told, details, connection, text, calls,
                 unmatched, completion>>

\* message_stop of anthropic; the others have nothing left that matters.
MessageStop ==
  /\ connection = "open" /\ finish # "none"
  /\ connection' = "stopped"
  /\ terminal' = (terminal \/ provider = "anthropic")
  /\ UNCHANGED <<provider, spoken, started, told, details, finish, text, calls, unmatched,
                 completion>>

\* In the order of the indices.  Arguments that are no JSON become an empty object.
toolCallsFromAccumulators ==
  LET at(k) == CHOOSE i \in DOMAIN calls : Cardinality({j \in DOMAIN calls : j < i}) = k - 1
  IN  [k \in 1..Cardinality(DOMAIN calls) |->
         LET call == calls[at(k)]
         IN  [call EXCEPT !.pieces = IF @ = Pieces THEN @ ELSE 0]]

Completion(error) ==
  [error |-> error, text |-> text, calls |-> toolCallsFromAccumulators,
   stop |-> IF provider = "google" /\ calls # <<>> THEN "tool_calls" ELSE finish]

\* A slip, for the check of the properties: the end of the stream is its end.
BadEndOfStream ==
  /\ connection # "ended"
  /\ connection' = "ended"
  /\ completion' = Completion(FALSE)
  /\ UNCHANGED <<provider, spoken, started, told, details, finish, text, calls, unmatched,
                 terminal>>

\* google and bedrock may just end; of the others something is awaited.
Unmarked == provider \in {"google", "bedrock"}

\* Only openai turns the reason "error" into an error of the call.
StreamError ==
  \/ ~Unmarked /\ ~terminal
  \/ provider = "openai" /\ finish = "error"

\* The connection is closed, after the last event or before.
EndOfStream ==
  /\ connection # "ended"
  /\ connection' = "ended"
  /\ completion' = Completion(StreamError)
  /\ UNCHANGED <<provider, spoken, started, told, details, finish, text, calls, unmatched,
                 terminal>>

\* A reset, an error event, or an event cut in the middle.
Fail ==
  /\ connection # "ended"
  /\ connection' = "ended"
  /\ completion' = Completion(TRUE)
  /\ UNCHANGED <<provider, spoken, started, told, details, finish, text, calls, unmatched,
                 terminal>>

Finishes == \E reason \in {"stop", "tool_calls", "length"} : FinishReason(reason)
Filtered == FinishReason("error")

\* What each of them sends; pi has an error event instead of the reason "error".
openAIProvider ==
  \/ Text \/ Finishes \/ Filtered
  \/ \E i \in Indices : BeginCall(i) \/ PartialArguments(i) \/ ReasoningDetail(i)
anthropicProvider ==
  Text \/ Finishes \/ Filtered \/ \E i \in Indices : BeginCall(i) \/ PartialArguments(i)
googleProvider ==
  Text \/ Finishes \/ Filtered \/ \E i \in Indices : BeginCall(i)
consumeBedrockStream ==
  Text \/ Finishes \/ Filtered \/ \E i \in Indices : BeginCall(i) \/ PartialArguments(i)
piMessagesProvider ==
  \/ Text \/ MessageDone \/ Finishes
  \/ \E i \in Indices : BeginCall(i) \/ PartialArguments(i) \/ CallDone(i)
responsesProvider ==
  \/ Text \/ MessageDone \/ ResponseIncomplete("length") \/ ResponseIncomplete("error")
  \/ \E i \in Indices : BeginCall(i) \/ PartialArguments(i) \/ ArgumentsDone(i) \/ CallDone(i)
  \/ \E more \in SUBSET Indices : ResponseCompleted(more)

StreamNext ==
  \/ provider = "openai"    /\ openAIProvider
  \/ provider = "anthropic" /\ anthropicProvider
  \/ provider = "google"    /\ googleProvider
  \/ provider = "bedrock"   /\ consumeBedrockStream
  \/ provider = "pi"        /\ piMessagesProvider
  \/ provider = "responses" /\ responsesProvider
  \/ MessageStop \/ EndOfStream \/ Fail

StreamSpec == StreamInit /\ [][StreamNext]_streamVars

-----------------------------------------------------------------------------
(* Properties.                                                             *)

\* A completion without an error is what the provider said: the whole text and
\* every call once, in the order of the indices, with its reasoning detail, and
\* with whole arguments unless a reason says that the answer is not whole ("length",
\* "error") or there is none.  That there is a reason holds where a last event
\* is awaited; StreamsTerminated is about the others.
CompletionWhole ==
  connection = "ended" /\ ~completion.error =>
    /\ completion.text = spoken
    /\ Len(completion.calls) = Cardinality(Began)
    /\ {completion.calls[k].index : k \in DOMAIN completion.calls} = Began
    /\ \A k \in DOMAIN completion.calls :
         LET call == completion.calls[k]
         IN  /\ completion.stop \notin {"length", "error", "none"} => call.pieces = Pieces
             /\ call.signed <=> call.index \in details
             /\ provider # "google" =>
                  \A j \in 1..(k - 1) : completion.calls[j].index < call.index
    /\ ~Unmarked => finish # "none" /\ completion.stop = finish

\* No stream that was cut before its last event passes for an answer ("Streaming
\* adapters ... verify terminal events when streams end early",
\* docs/PI-PARITY.md:43; "terminal-event checks", docs/CONFORMANCE.md:26).
StreamsTerminated ==
  connection = "ended" /\ ~completion.error => finish # "none"
=============================================================================
