# A verification project for FlashFramework

FlashFramework is a C++26 HTTP framework: a server on Boost Asio and Beast
(`include/flash/server.hpp`), and above it a typed layer that routes, binds and
answers requests for endpoints it finds by reflection. This directory holds
TLA+ specifications of its run-time logic, the TLC configurations that check
them and proofs that TLAPS checks. Paths below are relative to the repository;
`server.hpp` and the like stand for `include/flash/server.hpp`.

## The system

| Component | State it keeps | Operations | Hard behaviour | What makes it correct |
|---|---|---|---|---|
| Server lifecycle (`server.hpp` 309-493) | started and stopping flags, acceptor, `sessions_`, `active_sessions_`, one shutdown timer, worker threads | start, stop, wait, accept loop, begin_stop, force_stop, session_complete | stop racing start, accept and completion; a timer cancelled when its handler is due; blocked workers; threads that cannot be created | no session escapes a stop, a drain is always timed, wait returns only when drained or after force, a stop ends the server |
| Connection session (`server.hpp` 52-305) | phase, stop source, cancellation signal, deadline, parser, response | read header, read body, call the handler, write, keep alive; request_session_stop | a stop at any suspension, a completion that is not resumed yet, a cancel between two reads, slow clients | at most one late request, no idle read after a stop, a graceful stop cuts no response off, a forced session starts nothing, no wait is endless |
| Route matching (`routing/route.hpp`, `routing/matcher.hpp`) | the best match so far, the Allow mask | match_route, more_specific, consider_routes, match_api | declaration order, HEAD falling back on GET, OPTIONS, empty segments and trailing slashes | the most specific endpoint wins in any order, Allow tells the truth, captures rebuild the path |
| Middleware and application (`middleware.hpp`, `dispatch.hpp` 365-394) | the request ID counter, a context per request | request_id, access_log, recover_exceptions in any order | requests on several workers, exceptions at any depth, layers in any order | one ID per request, unique generated IDs, logs that agree with what was sent |
| Typed dispatch (`dispatch.hpp`) | none between requests | dispatch_with_state, invoke_endpoint, adapt_response | an endpoint that throws, HEAD | every outcome is answered once |
| Documentation routes (`openapi/docs.hpp`) | none | documentation_response | none | its methods are answered |
| Binding (`binding/*.hpp`) | the position in a query, header or cookie list | find values, percent decoding, scalar parsing | duplicates, encodings, boundaries | duplicates are rejected, a value is decoded once |
| JSON reading (`json/read.hpp`) | a cursor, the call stack, the fields seen | read_value, read_object, read_vector, skip_value, parse_string, parse_number | nesting, limits, duplicates, UTF-8 and surrogates | accepts exactly the documents of the type, within its limits |
| Route grammar (`routing/route.hpp` 80-164) | a scan offset and the segments made | parse_route, at compile time | boundaries: empty segments, trailing slashes, stars, full arrays | accepts exactly the routes of the grammar, the pattern spells its source |
| Compile-time checks (`binding/meta.hpp`, `meta/reflection.hpp`, `routing/matcher.hpp` 16-36) | none | parameter_source, validate_endpoint_binding, validate_routes, the assertions of validate_document | names compared in several ways | what compiles never lacks a capture |
| OpenAPI document (`openapi/*.hpp`) | a type list, the paths written | collect types, append paths, operations, responses | recursive aggregates, two sources of the same truth | references resolve, each endpoint is documented once, and as it answers |
| JSON writing (`json/write.hpp`) | none | append | escapes, strings that are not UTF-8 | what is written is read back, or refused if it is not UTF-8 |
| JSON schema, views, configuration | none | generate text | none | golden tests |

How they interact: `raw_server` spawns one session coroutine per connection on
a strand of its own and talks to it through `session_control` only (stop
source, posted lambdas, cancellation signal). A session calls the handler it
was given, in the typed API an `application_handler`, which runs the middleware
layers and inside them the documentation routes or the dispatcher; the
dispatcher asks the matcher for an endpoint, binds its arguments (JSON bodies
included) and turns its result, or its error, into a `response_message`, which
the session writes.

## The modules

Each behaviour module models one component; a `...Proofs` module extends it
with its theorems, an `MC...` module with the constants of its TLC runs and the
reference definitions that only TLC evaluates.

| Module | Code | Extended or used by |
|---|---|---|
| `RawSession` | one connection: `raw_session`, `request_session_stop` | `RawServer` (composes it with the server), `MCRawSession`, `RawSessionProofs` |
| `RawServer` | `raw_server`, `serve_raw`, over any number of sessions | `MCRawServer`, `RawServerProofs` |
| `Lifecycle` | what `raw_server` promises its embedder (abstract) | `RawServer`, which implements it |
| `Connection` | what a session promises its client and the application (abstract) | `RawSession`, which implements it, alone and inside `RawServer` |
| `RoutePattern` | `route_pattern`, `route_segment` | `RouteGrammar`, `Router` |
| `RouteGrammar` | `parse_route` | `Endpoint` |
| `Router` | `match_route`, `more_specific`, `consider_routes`, `match_api`, `validate_route_pairs` | `Api`, `RouterProofs` |
| `Endpoint` | `wire_name`, `parameter_source`, `validate_endpoint_binding`; `append_operation` and what it calls | `Api` |
| `Components` | `collect_type`, `component_names_unique`, which components refer to which | `Api` |
| `Api` | the compiler's checks, `generate_document` and `dispatch_with_state`: the composition of the five above | `MCApi`, `ApiProofs` |
| `Application` | the middleware stack, documentation routes, `dispatch_with_state` | `MCApplication`, `ApplicationProofs` |
| `Binding` | `bind_parameter` for every parameter, `find_*_value`, `percent_decode`, `parse_scalar`, `invoke_endpoint` | `BindingTurns`, `BindingMeaning`, `MCBinding`, `BindingProofs` |
| `BindingTurns` | none: the property `GetsNearer` of `Binding`'s steps | `MCBinding`, `BindingProofs` |
| `BindingMeaning` | none: what a request means for a parameter, by sets of places instead of loops, and what a client sends; the properties `BoundAsMeant` and `SentIsReceived` | `MCBinding`, `BindingProofs` |
| `JsonReader` | `json::read` and everything it calls, on tokens | `MCJsonReader`, `JsonReaderProofs` |
| `JsonText` | how one token is read: `parse_string`, `parse_number`, `valid_utf8`, the conversion, `validate_constraint`; `append_escaped_string` | `JsonMeaning` |
| `JsonMeaning` | none: what a string or a number of a text means, by the table of well-formed UTF-8 and the grammar of RFC 8259; the property `TextMeans` | `MCJsonReader`, `JsonReaderProofs` |
| `Positions` | none: lemmas about first and last positions, `Append`, and functions defined by recursion over a range | `JsonReaderProofs`, `BindingProofs`, `ApiProofs` |

### RawSession

One action is what the program does without giving the strand back: a segment
of the coroutine between two `co_await`s, a lambda that
`request_session_stop` posted, or the completion of an operation by the
operating system. `pc` names the `co_await` the coroutine is suspended in,
`op` the operation it waits for, `phase`, `stopRequested`, `cancelled` and
`deadline` are `session_control`'s phase, its stop source, its cancellation
signal and the stream's expiry. An operation that completes does not resume the
coroutine at once: `op` holds its result until `Resume`, and in that window a
stop lambda may run, a cancel finds nothing to abort and the timer may still
turn the result into a timeout. `Deliver` is the lambda: graceful aborts an
operation only in phase `reading`, forced always, and the two run in the order
they were posted. HTTP is reduced to what a read can report (`Outcome`).

`asked` and `late` are history variables: the server has requested a stop, and
how many handler calls began since (counted up to `2`, which is enough to tell
one from more).

`Connection` is the same session without phases, timers and sockets: whose turn
it is (receiving, serving, answering with or without keeping) and how it was
told to stop. `KeepsConnection` says every step of `RawSession` is a step of it
or a stutter: a request that was given to the application is answered once
unless the force came, an answer that closes is the last, and no answer after a
stop promises to keep the connection.

### RawServer

The owner's thread (`owner`: constructed, starting, waiting in `wait()`,
returned, or unwinding a failed `start()`), the control strand's jobs
(`AcceptStart` to `SessionComplete`), the io_context (`context`, `live`) and
the sessions' strands. Actions of the context need `WorkerFree`: a worker that
is not inside a synchronous handler. `active` is kept apart from `registered`
(`active_sessions_` and `sessions_`) because the code keeps them apart. The one
`shutdown_timer_` is `idle`, armed for one of its two purposes, or *due*: its
handler is queued and cancelling it has no effect any more.
`Accept`, `BeginStop`, `ForceStop` and `SessionComplete` are joint actions with
the session (`Spawn`, `RequestStop`, `Retire`); the others leave the sessions'
variables alone. `stop()` may be called at any moment, by anyone, any number of
times (`CallStop`), also before `start()`.

`Lifecycle` is the server without threads, timers and sockets: five modes and a
set of open connections. `RawServer` maps its state to it (`Mode`,
`registered`); `KeepsLifecycle` says every step is a step of it or a stutter,
`DrainEnds` that its fairness is met too.

### RouteGrammar, Endpoint, Components and Api

`Api` follows a namespace of endpoints from its declarations to an answer;
`stage` says how far it is. `NextEndpoint`, `ParseRoute` and `CompileEndpoint`
compile the endpoints in turn: the grammar's two actions (`Enter` and one
`ScanSegment` a turn of the loop) cut the route, and `CompileEndpoint` asks
`validate_endpoint_binding`. `CollectTypes`, `CollectEndpoint` and `CollectType`
visit the aggregates depth first, `CompileApi` is the assertions over the whole
API (`validate_routes` and `validate_document`), `AppendPath` one turn of
`append_paths`. A request then goes through `Receive`, the router's own actions,
and `Respond`, `RefuseBinding`, `Return` or `Throw`. An assertion that fails
ends the behaviour with its code in `fault`.

A text is a sequence of characters; characters matter here because the star and
the braces are dropped and kept at different places. `Endpoint` has what the
document says as operators on a declaration, and `parameter_source` as the
compiler evaluates it; the search of a capture at run time is the property's.
`operationId` is the identifier, components have the names they ask for, and
types are aggregates or `Plain`.

### Router

A path is a sequence of segments (`"/a/"` is `<<"a", "">>`), a pattern a
sequence of literals, parameters and a final catch-all. `Matches` and
`Captures` give the verdict and the captures of `match_route`'s scan;
`Skip`, `Consider` and `Decide` are the recursion of `consider_routes`, one
endpoint a step. An API is considered only if `ValidRoutes` (the static
assertion of `validate_route_pairs`) lets it compile.

### Application

`Enter` and `Leave` are one layer on the way in and out; `Document`, `Reject`,
`Serve` and `Throw` are the final handler's outcomes; `Send` and `Drop` what
`raw_session` does with the response, the answer to an exception no layer
caught included. Requests interleave, and share only `sequence`.

### Binding

`bound` is the tuple that `bind_arguments` builds, left to right; `Bind` ends one
call of `bind_parameter`. `Start` chooses the search by the parameter's source;
`ScanHeader`, `ScanQuery` and `ScanCookie` are one turn of the three loops, on
offsets of the text, since their hazards are at the offsets; `Advance` is the
`npos` test and `separator + 1`. `HeadersSeen` goes on to the cookies or to the
media type, `Take` is the rest of `bind_parameter` (absence, decoding,
`string_view`, `parse_scalar`, constraint), `ReadBody` the JSON body, and
`Answer` `first_binding_error`.

Header names are compared without case in the code; here a name stands for all
its spellings. Media types are cut into four words, because only `;`, spaces
and the two names matter. Numbers are unsigned; a constraint is a lower bound.

### JsonReader

`stack` is the C++ call stack of the recursive reader, `made` what each active
call has collected. `Call`, `Return` and `Fail` push a frame, give its value to
the caller (where `read_named_field` validates it) and unwind everything. The
actions are the pieces of `read_value`, `read_object`, `read_vector`,
`read_array` and `skip_value` between their own calls. The input is a sequence
of tokens: `" "` is white space, `"bad"` is whatever `parse_string` or
`parse_number` refuses, and a string or number carries a value.

### JsonText

`position`, `segment_start`, `owned` and `owns_value` are the variables of
`parse_string`; `ReadByte`, `ReadEscape`, `CloseString` and `BadString` are one
turn of its loop, `ReadInteger`, `ReadFraction` and `ReadExponent` the parts of
`parse_number`, `Convert` the `from_chars` of `read_value`. Bytes are numbers,
because the boundaries of UTF-8 are in them. `Finish` is `validate_constraint`.
Integers have `Width` bits. Of floating-point types two things are modelled.
`Held` is the range of the field's type, which `from_chars` answers for: the text
is `Significand` times ten to the power `Scale`, and what would be rounded to
infinity, or to zero though it is none, is refused (`1e999`, `1e-999`). And for
the comparison of an integer with a bound, `Doubles` are the integers that doubles
hold, `ToDouble` goes to the nearest of them, and of two to the one in `Even`.

## What each run checks

| Run | Question | Properties | Bounds |
|---|---|---|---|
| `RawSession` | is one connection safe under a stop at any moment, and does it keep its promise to the client? | `AtMostOneLateRequest`, `NoIdleReadAfterStop`, `GracefulSparesResponses`, `ForcedStartsNothing`, `WaitsAreBounded`, `KeepsConnection` | one session: sessions share no variable |
| `RawServer` | does the shutdown protocol hold together? | `Accounting`, `NoSessionEscapesStop`, `DrainIsTimed`, `WaitMeansDrained`, `KeepsLifecycle` | two sessions, one worker |
| `RawServerLive` | does a stop end the server? | `StopEndsServer`, `DrainEnds` | one session, two workers |
| `Api` | what compiles, what does the document say, who serves a request and with what? | `GrammarTypeOK`, `GrammarExact`, `CapturesFindParameters`, `ReferencesResolve`, `DocumentedOnce`, `AnswerIsDocumented`, `AllowIsHonest`, `MatchIsFilling`, `BestChoice`, `TemplatesMatchParameters`, `DocumentedIsServed` | every route source of up to six characters over five, and those made of up to four segments; namespaces of up to two endpoints over eight routes and three methods, and of three GET or HEAD endpoints over seven; every declaration of two parameters over four routes, one with two placeholders; every result with up to three mapped errors; every list of three types out of seven aggregates; paths of up to two segments and two of three; arrays of three segments and two captures |
| `Application` | do IDs, logs and responses agree in every stack? | `LogTellsStatus`, `OneIdPerRequest`, `GeneratedIdsDiffer`, `RecoveredKeepsId` | two requests, every stack of up to three layers |
| `Binding` | is a parameter bound to what the request means for it, and does every turn bring the answer nearer? | `BindingTypeOK`, `FoundIsUnique`, `BoundAsMeant`, `SentIsReceived`, `GetsNearer` | every query over two alphabets and every cookie header of up to five characters, up to two headers, every encoding of forms of up to two characters a value and of three-character path values |
| `JsonReader` | does `read` accept exactly the documents of the type, and each string and number exactly? | `ReadsExactly`, `DepthIsBounded`, `CountsAreBounded`, `TextMeans`, `WrittenIsRead`, `BoundsHold`, `ReaderEnds` | documents up to three levels deep with up to two members or elements, each rendered plain, with white space everywhere, and (the shorter ones and the nested ones) with any one token removed, added or exchanged; eight types; four sets of limits. Strings of up to two of forty pieces (characters at every edge of UTF-8, ill-formed sequences, escapes), each piece also cut and damaged; every number text of up to four of eight characters, longer ones, some with exponents of three digits, also cut and damaged; every integer from -9 to 16 with every bound; 4-bit integers, a floating-point type from 0.05 to 850, doubles of 2 bits, strings of 5 bytes. For the writer every single byte of ASCII, pairs at the edges, and strings that are not UTF-8 |

Why the bounds are enough. Two sessions are what `Accounting` and the timer
need: one that leaves while another stays, and the last one. One worker is the
worst case for blocking; two let a synchronous handler and the control strand
run at once. A choice among endpoints goes wrong through an order that is not
transitive, and three endpoints show that. Two requests are what uniqueness
takes. Five characters hold two pairs and an empty one (`f=&f`, `&&`), a
complete escape with a character after it, and both truncated ones. A route
needs six characters for two segments of which one is a named capture (`/a/{a}`);
longer ones are put together from segments, past both limits of the arrays. Three
aggregates can contain each other, share a component and ask for one name. With
two bits a double merges integers from 5 on, below the 7 and 15 of the types, as
53 bits do below 64-bit integers. The range from 0.05 to 850 is left, on both
sides, by digits alone, by an exponent alone and only by both together, and
`0e999` is inside it. The limits
of `JsonReader` (depths of 1 to 3, counts of 1 and 2, an input of 8) are reached
and passed by the documents considered. What a bound might still hide is what
the theorems are for.

In `MCJsonReader` a behaviour reads a document with `JsonReader` or one token with
`JsonText`: the two machines share no variable, and the other has ended.

`SYMMETRY` is used in `RawServer` and `Application` only, whose properties are
invariants and step properties that name no session and no request.
`CHECK_DEADLOCK FALSE` stands where the program comes to rest: a server that was
waited for, a call that has returned.

### Where the code does not do what its documents say

| Run | What it shows |
|---|---|
| `EarlyStop` | A stop token that is triggered before `start()` is lost: `stop()` returns when `started_` is false, `serve_raw` registers its callback before it calls `start()`, and the callback never runs again. `serve` then blocks for ever. |
| `AbortedBody` | A graceful stop takes a body that is being read for an idle read, cancels it, and the session answers 400 as if the body were malformed, long before the ten seconds of grace. |
| `SlowHeader` | The header of a later request on a connection has the idle timeout of sixty seconds, not the header timeout of five, because the deadline is armed once for both. |
| `HeadError` | A HEAD served by a GET endpoint that throws is answered with a problem body. |
| `PathKeys` | `GET /{x}` and `GET /{*x}` compile together and are both documented under the key `/{x}`; and an aggregate named `Problem` collides with the built-in component. docs/security-matrix.md calls OpenAPI collisions compile-fail cases. |

Each of these runs checks the documented sentence as a property and ends in a
counterexample; `EarlyStop` uses the same fairness as `RawServerLive`.

## Fairness, and why the code justifies it

`RawServer`'s `Fairness` assumes of the program: the owner's thread runs;
threads that are in `context_.run()` run queued jobs; an armed timer fires; a
synchronous handler returns. `BeginStop` has strong fairness, because the
single worker may be taken by a handler again and again between two moments at
which the job could run; Asio's queue is first-in first-out, so it is not
overtaken for ever. Nothing is assumed of the clients (`Io` and `Arrive` have no
fairness) nor of asynchronous handlers, nor that `stop()` is ever called. A
handler that never returns does hang the shutdown: docs/limits.md says so.

`RawSession`'s fairness is the part of it that concerns one session. `JsonReader`
is a sequential call: the fairness says the thread runs. `Binding` has no
fairness: `GetsNearer` is a property of its steps, from which its end follows.

## What is proved

TLAPS proves the following for every value of the constants, that is for any
number of sessions, endpoints, layers, requests, characters and documents. The
constants' assumptions (`WorkersAssumption`, `CharAssumption`,
`GrammarAssumption`, `ComponentsAssumption`, `RouterAssumption`,
`ApplicationAssumption`, `BindingAssumption`, `ReaderAssumption`,
`TextAssumption`) are about types; TLC evaluates them on every run.
`GrammarAssumption` lets `Patterns` be any set of patterns: it is what `GrammarExact`
ranges over, so that TLC can list some and the theorem holds for all. In the same way
`Originals` in `TextAssumption` is any set of byte strings, and `WrittenIsRead` speaks of
those of them that are within the limit. `Doubles` is any set of integers
with zero in it: the 53 bits of IEEE doubles and the two of the run alike. `Held` is
any predicate of a significand and a power of ten: `float`, `double` and the small
type of the run alike.

| Theorem | Statement | Argument |
|---|---|---|
| `SessionIsSafe`, `OneLateRequest`, `NoneIsIdleAfterStop`, `ResponsesAreSpared` | `AtMostOneLateRequest`, `NoIdleReadAfterStop`, `GracefulSparesResponses`, and `TypeOK`, which the run leaves to the proof | `SessionInv`: which phase and which posted lambdas go with which suspension. The key facts are that `asked` implies `stopRequested`, so the loop's top cannot be passed after a stop, and that a session in a write has the phase of one, whichever way it came there. The lemmas are per session, so `RawServer` reuses them. |
| `ForceIsFinal` | `ForcedStartsNothing` | from the steps |
| `SessionImplementsConnection` | `KeepsConnection` | initial states map to initial states and each action to a step or a stutter, under `SessionInv` |
| `ServerTypeCorrect`, `ServerAccounts`, `NoEscape`, `DrainAlwaysTimed`, `WaitIsSound` | `ServerTypeOK`, `Accounting`, `NoSessionEscapesStop`, `DrainIsTimed`, `WaitMeansDrained` | `ServerInv`: `SessionInv` with `ControlInv` (which states of owner, stop job, accept loop and timer go together), `RegistryInv` (registry, count and coroutines agree; after `begin_stop` everyone was asked) and `ThreadInv` (a worker inside a handler is alive). `WaitMeansDrained` is not inductive without `ThreadInv`: a returned owner must imply idle workers. |
| `ServerSessionsAreSafe` | `AtMostOneLateRequest`, `NoIdleReadAfterStop`, `GracefulSparesResponses` in the composed system | the sessions' lemmas |
| `ServerRefinesLifecycle`, `ServerImplementsConnection` | `KeepsLifecycle`, and `KeepsConnection` of the sessions in the composed system | each action of the server is a step, or a stutter, of both abstract specifications |
| `RequestTypeCorrect`, `ServedByTheBest`, `OfferedIsServed` | `RouterTypeOK`, `BestChoice`, `AllowIsHonest`, for every API that compiles | `RouterInv`: after `index - 1` endpoints, the best beats every candidate seen. It needs that `MoreSpecific` is transitive, and total on patterns of different shape that match one path; both are lemmas, and the second is where `ValidRoutes` is used. `RouterProofs` proves the steps of the router alone (`RouterTypeCorrect`, `BestIsChosen`, `AllowIsExact`), `ApiProofs` that what the compiler accepts meets its assumptions. |
| `GrammarTypeCorrect` | `GrammarTypeOK` | `GrammarInv`: the segments made so far are the pieces of the source between its slashes up to `offset` (`Cut`), and they are `Sound` |
| `RoutesAreExact` | `GrammarExact` | `TextInv`, in both directions. What was read is how the segments are written (`Drawn`): a segment that is not refused is written as the piece it was made from. And the loop follows every permitted pattern the source is the text of (`Follows`): the next segment's text ends at the next slash because no proper segment has one, it is read as that segment (`SpelledIsRead`), and it is not refused (`PermittedIsAccepted`, which counts placeholders). |
| `EveryMatchIsAFilling` | `MatchIsFilling` | `match_route`'s captures are a filling of the pattern (`MatchFills`), and any filling of a pattern is a path it matches with those captures (`FillMatches`) |
| `EveryParameterFindsItsCapture` | `CapturesFindParameters` | `CompileInv`: each compiled endpoint passed `validate_endpoint_binding` with the pattern its own path parses to; the count of one binding per placeholder gives the capture and its uniqueness |
| `ReferencesAreResolved` | `ReferencesResolve` | the type list is closed: every type of a visited endpoint and every field of a listed aggregate is listed or pending, and nothing is pending at the end |
| `EveryEndpointIsDocumentedOnce` | `DocumentedOnce` | the paths written are the distinct texts passed so far, each with all operations of its text. Two endpoints of one text have one pattern, by `Cut`, so `validate_routes` tells their methods apart. |
| `TemplatesAreTheParameters` | `TemplatesMatchParameters` | `DrawnApi`: the path of an endpoint that compiled is how its pattern is written (from `GrammarExact`). So the key is how the pattern without its stars is written (`KeyIsTemplate`, from the turns of `append_openapi_path`); the only braces in it are those around its placeholders, since no literal and no name has one (`BracesAreHolders`, `PlacedIs`); and those are in one-to-one correspondence with the path parameters of every operation written under the key (`PathParameters`), because `Binds` and `parameter_source` agree. |
| `WhatIsDocumentedIsServed` | `DocumentedIsServed` | `DocumentDone`: the document is complete before a request is routed. A key fits a path exactly when each of its segments, without its star, fits the text in its place (`FitsRendered`: the slashes of a key are where its segments begin). So a path that a key fits is matched by the endpoint's pattern, and one that a pattern without a catch-all matches is fitted by its key (`KeyMatches`). A documented endpoint of the method is then a candidate, and the router's best candidate is it or beats it (`RouterInv`, whose `DecidedInv` says when one was found); the other way, the endpoint found has its operation in the entry of its key (`OperationListed`). |
| `EveryAnswerIsDocumented` | `AnswerIsDocumented` | by the form of the result |
| `ApplicationTypeCorrect`, `LogIsTrue`, `OneIdOnly`, `GeneratedIdsAreUnique`, `RecoveryKeepsTheId` | `ApplicationTypeOK`, `LogTellsStatus`, `OneIdPerRequest`, `GeneratedIdsDiffer`, `RecoveredKeepsId` | `ApplicationInv`: what the layers have made of the response so far already agrees with the log and the ID, and every generated ID is below the counter. For the last: an exception that is recovered has passed, on its way, no layer that assigned another ID. |
| `BindingTypeCorrect`, `DuplicatesRejected` | `BindingTypeOK`, `FoundIsUnique` | `BindingInv`: while a search runs, what it found is the value of the only place among those before its offset, and the offset is a place where a pair begins. `PairSeen` is the loop's step; `percent_decode` is used only as a function. |
| `TurnsGetNearer` | `GetsNearer` | a parameter more, a later stage, or a larger offset in the same text: a lexicographic order, by cases of the steps |
| `BindingIsMeant` | `BoundAsMeant` | `MeaningInv`: every answer so far is the meant one (`BoundInv`), the verdict is drawn from them (`AnswerInv`), no pair that a query search has passed has an unreadable name (`NamesInv`), and at the end of a search nothing that refuses the parameter was missed (`TakeInv`, `BodyInv`). With `BindingInv` it is inductive; alone it does not say which occurrence `result` is. The lemmas under it: `percent_decode` reads every well-formed text as what it spells and refuses every other (`DecodeMeans`, from the turns of its recursion, end to front, with `Rank` counting the characters written); a pair that starts at a separator is the part that starts there; and a cookie cut at its first `=` after trimming gives the name and value cut before it (`CookieCut`). |
| `WhatIsSentIsReceived` | `SentIsReceived` | `Encodes` cuts what the client wrote into what stands for each character; each such cut is one turn of `percent_decode` (`WrittenTurn`), so from the last cut to the first it returns the rest of the text (`EncodedIsDecoded`), and by `DecodeMeans` the value is well formed and spells it. The names are encoded as well: no field is unreadable, and the one whose name spells the parameter's is its own (`QuerySent`). The rest is `BoundAsMeant`. |
| `ReaderTypeCorrect`, `DepthBound`, `CountBound` | `ReaderTypeOK`, `DepthIsBounded`, `CountsAreBounded` | `ReaderInv`: the frame at place `k` has depth `k - 1`, and each waiting frame has opened a container below the limit. `DepthIsBounded` alone says nothing about the depth *argument*, so it is not inductive. |
| `CursorStaysInside`, `ViewsAreBorrowed` | `TextTypeOK`, `ViewIsBorrowed` | `TokenInv`: until the first escape, the segment begins after the opening quote and nothing is owned |
| `WriterIsReread` | `WrittenIsRead` | what the writer makes of a string is cut, at some places `L`, into what each of its bytes is written as (`Script`; `WrittenStands`, by the recursion of `append_escaped_string`). `RereadInv`: the cursor is always at such a place, after `k` bytes of the string, and what it owns and the segment since then spell those `k` bytes. At each place it takes one byte or one whole escape (`EscapeStands`), which is never refused, and meets an unescaped quote only at the end, where `valid_utf8` is asked about the string itself. |
| `TextIsMeant` | `TextMeans` | `SpellingInv`: the strings the text spells are what was read so far, followed by the strings that the rest spells. `NumeralInv`: the parts of the number passed so far are those of the grammar, so that its significand and scale are the figures and the power of ten that the grammar gives it (`FiguresAndPowerAre`). Both need `TokenInv`, which keeps the segment inside the string, and the value of an integer needs `BoundInv`. A turn of the loop takes one byte or one escape, which is the only one that `Spelt` has at this place (`RawTurn`, `EscapeTurn`); what it refuses has no spelling (by the ways in which `EscapeAt` refuses). `append_utf8` makes the character of every scalar value, and `valid_utf8`, with its arithmetic on lead bytes and its smallest scalars, accepts exactly what can be cut into rows of the Unicode table (`TextIs`). |
| `BoundsAreKept` | `BoundsHold` | rounding to the nearest of any set of integers keeps the order and leaves the set alone (`RoundingIsMonotone`, `DoublesAreExact`), and does not bring together what two of the set lie between (`RoundingKeepsApart`). `BoundInv`: once its digits are read the number is an integer, and whether its field took it is what the rule says of it. |

Only model-checked: liveness under fairness (`WaitsAreBounded`,
`StopEndsServer`, `DrainEnds`, `ReaderEnds`), which is out of the prover's reach;
and `ReadsExactly`, which compares the reader with a reference parser that recurses over
the document's tokens and over the type, so that its proof would need induction over data.

## What is not modelled, and why

* HTTP parsing, sockets and the scheduler belong to Beast and Asio; the models
  take what the code can observe of them.
* Formatting: response bodies, headers other than the request ID, the text of
  problems, logs and IDs, error paths and offsets of JSON errors.
* Enumerations in JSON; the value and the constraints of numbers read as
  doubles (whether they are in range is modelled, what they are rounded to is not); signed and floating-point parameters and their constraints.
* Allocation failures (`co_spawn` at `server.hpp` 458 can throw after the session
  is counted) and misuse by the embedder: a handler that outlives its server, or
  calls `wait()` on its own worker.
* The texts of the OpenAPI document: descriptions, deprecations, defaults,
  constraints and the schemas of types. Among the things this leaves out: lengths
  are documented in characters and enforced in bytes, unsigned 32-bit integers are
  documented as `int32`, and two parameters of one name and source are documented
  twice.
* Reflection itself: which functions, fields and enumerators there are is an input
  of the models. A function with two route annotations is left out of the API by
  `is_endpoint` and so never reaches them.
* JSON schema, views, configuration, examples and benchmarks: accessors and folds
  without state.

## Plan

Done, in this order: `RawSession`, `RawServer` and `Lifecycle` (the server);
`Router`; `Application`; `JsonReader`; `Binding`; their proofs; `Connection` and
its refinement; `RouteGrammar`, `Endpoint`, `Components` and `Api` (from the
declarations to the document and the answer); `JsonText`.

What is left, in order of importance:

1. `Api` with `Binding` in the place of `RefuseBinding`, and the layers of
   `Application` around it: one request all the way from its bytes.
2. Signed numbers in `Binding`, with the bounds of `JsonText`.
3. The assertions over error maps and JSON objects, and the schemas of types.
