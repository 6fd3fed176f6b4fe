----------------------------- MODULE AutoReview -----------------------------
(***************************************************************************)
(* The assessment of one stack by a model: the choice of the model in the  *)
(* models file, and the conversation with the provider.  The provider      *)
(* answers every request with items: calls of the tools that read the two  *)
(* commits of the stack, or one message with the verdict.  Timber runs the *)
(* calls and sends the whole conversation again.  Whatever the provider    *)
(* answers, an error or a verdict ends the assessment within its budgets.  *)
(***************************************************************************)
EXTENDS Integers, Sequences, FiniteSets, SequencesExt

CONSTANTS
    Providers,          \* names of providers
    ModelIds,           \* model IDs: sequences of path elements
    DefaultMaxRequests, \* requests of an assessment without a budget
    MaxRequestFlags,    \* the budgets that a caller gives; 0 for none
    MaxCalls,           \* tool calls of an assessment (16 in the code)
    MaxInputBytes, MaxContextBytes,
    AutoContextLimit,   \* bytes of one result of a tool
    Sizes,              \* sizes of inputs and of tool results
    CallIds,            \* IDs that the provider gives to calls
    MaxItems            \* bound on the items of a response

ASSUME AutoReviewAssumption ==
    /\ {DefaultMaxRequests, MaxCalls} \subseteq Nat \ {0}
    /\ {MaxInputBytes, MaxContextBytes, AutoContextLimit, MaxItems} \subseteq Nat
    /\ MaxInputBytes <= MaxContextBytes
    /\ MaxRequestFlags \subseteq Nat /\ Sizes \subseteq Nat
    /\ "" \notin CallIds

\* A models file is finite; an ID has at least one element.
ASSUME ModelsAssumption ==
    /\ IsFiniteSet(Providers) /\ IsFiniteSet(ModelIds)
    /\ Providers \subseteq STRING /\ ModelIds \subseteq Seq(STRING) \ {<<>>}

VARIABLES
    catalog,    \* the models file: what each provider offers; none once chosen
    talk        \* the assessment

autoVars == <<catalog, talk>>
----------------------------------------------------------------------------
(***************************************************************************)
(* The models file.                                                        *)
(***************************************************************************)
\* callable: what the provider and the model say together passes Validate.
Absent == [there |-> FALSE, models |-> {}, callable |-> FALSE]
ProviderEntry == {Absent} \cup [there : {TRUE}, models : SUBSET ModelIds, callable : BOOLEAN]
Empty == [p \in Providers |-> Absent]

Offers(file) == {o \in Providers \X ModelIds : file[o[1]].there /\ o[2] \in file[o[1]].models}
Selectors == ModelIds \cup {<<o[1]>> \o o[2] : o \in Providers \X ModelIds}
NoSelector == <<>>

\* modelsNamed.
Named(file, selector) == {offer \in Offers(file) : offer[2] = selector}

\* resolveProviderModel: a selector whose first element names a provider.
NamesProvider(file, selector) ==
    Len(selector) > 1 /\ selector[1] \in Providers /\ file[selector[1]].there

\* Mutant: an ID that several providers offer names the model of any of them.
ResolveAnyModel(file, selector) ==
    LET all == Named(file, selector)
    IN  IF all # {} THEN {CHOOSE offer \in all : TRUE} ELSE {}

\* resolveUniqueModel: an ID that exactly one provider offers.
ResolveUniqueModel(file, selector) ==
    LET all == Named(file, selector) IN IF Cardinality(all) = 1 THEN all ELSE {}

\* Resolve: a named provider has the model or there is none.
Resolve(file, selector) ==
    IF NamesProvider(file, selector)
    THEN {<<selector[1], Tail(selector)>>} \cap Offers(file)
    ELSE ResolveUniqueModel(file, selector)

\* selectModel: the flag or the environment, then the only model of the file.
Only(file) == {<<o[1]>> \o o[2] : o \in Offers(file)}
SelectModel(file, flag) ==
    IF flag # NoSelector THEN {flag}
    ELSE IF Cardinality(Offers(file)) = 1 THEN Only(file) ELSE {}

\* resolveModel, Validate: no OAuth, the API of responses, no negative limit.
Callable(file, offer) == file[offer[1]].callable

\* resolveAutoModel: without a models file the selector is the model.
AutoModel(file, selector) ==
    IF \A p \in Providers : ~file[p].there THEN {<<"", selector>>}
    ELSE {o \in Resolve(file, selector) : Callable(file, o)}
----------------------------------------------------------------------------
(***************************************************************************)
(* The conversation.                                                       *)
(***************************************************************************)
Replies == {"approve", "approve without evidence", "needs-human-review", "no verdict"}
Decisions == {"approve", "needs-human-review"}

\* The items of a response: "other" stands for items of another type, for calls
\* and messages that are not completed, for calls without an ID, and for messages
\* of another form.
Items == [type : {"reasoning", "other"}] \cup [type : {"message"}, text : Replies]
           \cup [type : {"call"}, id : CallIds, tool : {"read_file", "search", "unknown"}]

\* sent: what the next request adds to the input: <<type, ID of the call>>.
NoTalk == [step |-> "select", model |-> <<>>, budget |-> 0, request |-> 0, calls |-> 0,
           bytes |-> 0, sent |-> <<>>, pending |-> <<>>, answer |-> <<>>, verdict |-> "none"]

AutoInit == catalog \in [Providers -> ProviderEntry] /\ talk = NoTalk

End(verdict) == talk' = [talk EXCEPT !.step = "done", !.verdict = verdict]
Fail == End("error")

\* RunE: the models file is read once; without a model, a key or the value of a
\* header nothing is sent.
Select ==
    /\ talk.step = "select"
    /\ catalog' = Empty
    /\ \E flag \in Selectors \cup {NoSelector} :
         LET chosen == UNION {AutoModel(catalog, s) : s \in SelectModel(catalog, flag)}
         IN  \/ Fail
             \/ \E model \in chosen :
                  talk' = [talk EXCEPT !.step = "input", !.model = <<flag, model>>]

\* Evaluate, encodeReviewInput, newResponseParams.
BeginTalk ==
    /\ talk.step = "input"
    /\ \E size \in Sizes, flag \in MaxRequestFlags :
         IF size > MaxInputBytes
         THEN Fail
         ELSE talk' = [NoTalk EXCEPT !.step = "ask", !.bytes = size,
                                     !.budget = IF flag = 0 THEN DefaultMaxRequests ELSE flag]
    /\ UNCHANGED catalog
----------------------------------------------------------------------------
Called(sent) == {sent[i][2] : i \in {j \in DOMAIN sent : sent[j][1] = "call"}}

\* Mutant: a call may have the ID of an earlier one.
AppendAnyCall(read, item) ==
    [read EXCEPT !.pending = Append(@, item), !.sent = Append(@, <<"call", item.id>>)]

\* appendFunctionCall.
AppendCall(read, item) ==
    IF item.id \in Called(read.sent)
    THEN [read EXCEPT !.ok = FALSE]
    ELSE [read EXCEPT !.pending = Append(@, item), !.sent = Append(@, <<"call", item.id>>)]

\* applyReviewItem.
Apply(read, item) ==
    CASE ~read.ok                 -> read
      [] read.ok /\ item.type = "other"     -> [read EXCEPT !.ok = FALSE]
      [] read.ok /\ item.type = "reasoning" -> [read EXCEPT !.sent = Append(@, <<"reasoning", "">>)]
      [] read.ok /\ item.type = "message"   -> [read EXCEPT !.texts = Append(@, item.text)]
      [] read.ok /\ item.type = "call"      -> AppendCall(read, item)

\* consumeReviewOutput: one item after the other.
Unread(sent) == [ok |-> TRUE, texts |-> <<>>, pending |-> <<>>, sent |-> sent]

Consumed(items) ==
    LET read[i \in 0 .. Len(items)] ==
            IF i = 0 THEN Unread(talk.sent) ELSE Apply(read[i - 1], items[i])
    IN  read[Len(items)]

\* Validate: a verdict of the schema, an approval with its evidence.
Validated(text) == IF text \in Decisions THEN text ELSE "error"

\* decodeReviewVerdict.
Decoded(texts) == IF Len(texts) = 1 THEN Validated(texts[1]) ELSE "error"

\* The calls of the last request that the budget allows are refused: nothing
\* could be asked with their results.
Affordable(pending) ==
    /\ talk.request + 1 < talk.budget
    /\ talk.calls + Len(pending) <= MaxCalls

\* reviewTurn with a completed response.
Completed(items) ==
    LET read == Consumed(items)
    IN  IF read.ok /\ read.pending # <<>> /\ read.texts = <<>> /\ Affordable(read.pending)
        THEN talk' = [talk EXCEPT !.step = "read", !.pending = read.pending, !.sent = read.sent,
                                  !.calls = @ + Len(read.pending), !.answer = items]
        ELSE talk' = [talk EXCEPT !.step = "done", !.answer = items, !.sent = read.sent,
                                  !.verdict = IF read.ok /\ read.pending = <<>>
                                              THEN Decoded(read.texts) ELSE "error"]

\* fetchReviewResponse, incompleteVerdict: one attempt; a truncated response
\* abstains, any other one is an error.
ReviewTurn ==
    /\ talk.step = "ask"
    /\ \/ \E items \in BoundedSeq(Items, MaxItems) : Completed(items)
       \/ End("needs-human-review")
       \/ Fail
    /\ UNCHANGED catalog

\* autoGit: what Git prints of the commit, up to the limit.
WithinOutput == {size \in Sizes : size <= AutoContextLimit}

\* commitContext.Search: without a match the result is empty.
SearchSizes == WithinOutput \cup {0}

\* readTool: an unknown tool has no result.
ToolSizes(tool) ==
    CASE tool = "read_file" -> WithinOutput
      [] tool = "search"    -> SearchSizes
      [] tool = "unknown"   -> {}

\* appendToolResult: a tool may also refuse its arguments or the path, or fail.
ReadCall ==
    /\ talk.step = "read"
    /\ LET call == Head(talk.pending)
           rest == Tail(talk.pending)
       IN  \/ Fail
           \/ \E size \in ToolSizes(call.tool) :
                IF talk.bytes + size > MaxContextBytes
                THEN Fail
                ELSE talk' = [talk EXCEPT !.bytes = @ + size, !.pending = rest,
                                !.sent = Append(@, <<"output", call.id>>),
                                !.step = IF rest = <<>> THEN "ask" ELSE "read",
                                !.request = IF rest = <<>> THEN @ + 1 ELSE @]
    /\ UNCHANGED catalog

AutoNext == Select \/ BeginTalk \/ ReviewTurn \/ ReadCall

AutoSpec == AutoInit /\ [][AutoNext]_autoVars
----------------------------------------------------------------------------
AutoTypeOK ==
    /\ catalog \in [Providers -> ProviderEntry]
    /\ talk.step \in {"select", "input", "ask", "read", "done"}
    /\ talk.verdict \in Decisions \cup {"none", "error"}
    /\ {talk.budget, talk.request, talk.calls, talk.bytes} \subseteq Nat
    /\ \A i \in DOMAIN talk.pending : talk.pending[i] \in Items

\* The model that is asked was named: by provider and ID, by an ID that no other
\* provider offers, or, without a selector, by being the only one of the file
\* (selectModel, Resolve).
SelectionIsNamed ==
    [][talk.step = "select" /\ talk'.step = "input" =>
         LET flag == talk'.model[1]
             id   == talk'.model[2][2]
             p    == talk'.model[2][1]
             rest == Offers(catalog) \ {<<p, id>>}
         IN  \/ /\ <<p, id>> \in Offers(catalog) /\ catalog[p].callable
                /\ \/ flag = <<p>> \o id
                   \/ flag = id /\ \A o \in rest : o[2] # id
                   \/ flag = NoSelector /\ rest = {}
             \/ Offers(catalog) = {} /\ flag = id /\ id # NoSelector]_autoVars

\* An approval comes from one message of a response without calls, and every call
\* of the conversation before it was answered once, after it was made, within the
\* budgets of requests, calls and bytes (collectVerdict).
ApprovalsAreEarned ==
    talk.verdict = "approve" =>
        /\ Cardinality({i \in DOMAIN talk.answer : talk.answer[i].type = "message"}) = 1
        /\ \A i \in DOMAIN talk.answer : talk.answer[i].type \in {"reasoning", "message"}
        /\ [type |-> "message", text |-> "approve"] \in ToSet(talk.answer)
        /\ \A i \in DOMAIN talk.sent : talk.sent[i][1] = "call" =>
             \E j \in (i + 1)..Len(talk.sent) :
               /\ talk.sent[j] = <<"output", talk.sent[i][2]>>
               /\ \A k \in DOMAIN talk.sent \ {i, j} : talk.sent[k][2] # talk.sent[i][2]
        /\ talk.request < talk.budget /\ talk.calls <= MaxCalls /\ talk.bytes <= MaxContextBytes
=============================================================================
