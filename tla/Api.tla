--------------------------------- MODULE Api ---------------------------------
(***************************************************************************)
(* An API from its declaration to an answer.  The compiler parses every    *)
(* route (RouteGrammar), decides where the parameters come from (Endpoint),*)
(* collects the aggregates (Components) and refuses what its assertions    *)
(* forbid; generate_document writes the paths; dispatch_with_state routes  *)
(* a request (Router) and turns what the endpoint returns into a response. *)
(*                                                                         *)
(* How parameters are bound is Binding; here a binding is refused with any *)
(* status its source allows.  An exception leaves dispatch for the layers  *)
(* of Application.                                                         *)
(***************************************************************************)
EXTENDS Router, Endpoint, Components

\* A namespace of endpoints, and the paths of the requests it gets.
Annotation  == [source : {"path", "query", "header", "cookie", "body"}, wire : Text]
Parameter   == [identifier : Text, annotations : Seq(Annotation), storage : Storage,
                type : Type, defaults : Nat]
ResultType  == [form : Form, type : Type, errors : Seq(Status)]
Declaration == [id : Nat, method : Method, path : Text, params : Seq(Parameter),
                result : ResultType]
Program     == [endpoints : Seq(Declaration), paths : SUBSET Paths]

VARIABLES
    program,        \* the Program
    stage,          \* how far it is
    fault,          \* the assertion that failed
    visited,        \* the endpoints collect_api_types has passed
    passed,         \* the endpoints append_paths has passed
    paths,          \* the "paths" of the document
    answer          \* the response_message, once there is one

apiVars == <<program, stage, fault, visited, passed, paths, answer>>
vars == <<apiVars, routerVars, grammarVars, componentVars>>

declared == program.endpoints
NoAnswer == [status |-> 0, content |-> "none", body |-> "none", headers |-> {}]

-----------------------------------------------------------------------------
(* The compiler.                                                           *)

Refuse(code) == stage' = "refused" /\ fault' = code

\* route_pattern_of for the next endpoint.
NextEndpoint ==
    /\ stage = "declare" /\ Len(api) < Len(declared)
    /\ Parse(declared[Len(api) + 1].path)
    /\ stage' = "parse"
    /\ UNCHANGED <<program, fault, visited, passed, paths, answer, routerVars, componentVars>>

ParseRoute ==
    /\ stage = "parse" /\ GrammarNext
    /\ UNCHANGED <<apiVars, routerVars, componentVars>>

\* The assertions about one endpoint, once its route is parsed.
CompileEndpoint ==
    LET e    == declared[Len(api) + 1]
        code == IF error # "none" THEN "E200" ELSE validate_endpoint_binding(e, segments)
    IN  /\ stage = "parse" /\ Parsed
        /\ IF code # "none" THEN Refuse(code) /\ UNCHANGED api
           ELSE /\ api' = Append(api, [method |-> e.method, pattern |-> segments])
                /\ stage' = "declare" /\ UNCHANGED fault
        /\ UNCHANGED <<program, visited, passed, paths, answer, grammarVars, componentVars,
                       method, path, index, hasPath, best, bestExact, headFallback,
                       explicitOptions, allow, route, outcome>>

CollectTypes ==
    /\ stage = "declare" /\ Len(api) = Len(declared)
    /\ stage' = "collect"
    /\ UNCHANGED <<program, fault, visited, passed, paths, answer, routerVars, grammarVars,
                   componentVars>>

\* collect_endpoint_types for the next endpoint: its body, if there is one, and its result.
CollectEndpoint ==
    LET e == declared[visited + 1]
        bodies == Bodies(e, api[visited + 1].pattern)
    IN  /\ stage = "collect" /\ pending = <<>> /\ visited < Len(declared)
        /\ visited' = visited + 1
        /\ IF bodies = {} THEN pending' = <<e.result.type>>
           ELSE \E k \in bodies : pending' = <<e.params[k].type, e.result.type>>
        /\ UNCHANGED <<program, stage, fault, passed, paths, answer, routerVars, grammarVars,
                       collected>>

CollectType ==
    /\ stage = "collect" /\ Collect
    /\ UNCHANGED <<apiVars, routerVars, grammarVars>>

operation_ids_unique ==
    \A i, j \in DOMAIN declared : i # j => declared[i].id # declared[j].id

\* validate_document.
CompileApi ==
    LET code == IF ~ValidRoutes(api) THEN "E201"
                ELSE IF ~component_names_unique THEN "E602"
                ELSE IF ~operation_ids_unique THEN "E605"
                ELSE "none"
    IN  /\ stage = "collect" /\ pending = <<>> /\ visited = Len(declared)
        /\ IF code # "none" THEN Refuse(code) ELSE stage' = "document" /\ UNCHANGED fault
        /\ UNCHANGED <<program, visited, passed, paths, answer, routerVars, grammarVars, componentVars>>

-----------------------------------------------------------------------------
(* generate_document.                                                      *)

\* Mutant: a path is compared with the one before it only.
first_path_occurrence_Adjacent(i) == i = 1 \/ declared[i - 1].path # declared[i].path

first_path_occurrence(i) == \A j \in 1..(i - 1) : declared[j].path # declared[i].path

\* Mutant: the other endpoints of the path are forgotten.
append_path_operations_FirstOnly(i) == {append_operation(declared[i], api[i].pattern)}

\* append_path_operations: every endpoint with the text of this path.
append_path_operations(i) ==
    {append_operation(declared[j], api[j].pattern) :
        j \in {j \in DOMAIN declared : declared[j].path = declared[i].path}}

\* append_paths for the next endpoint.
AppendPath ==
    LET i == passed + 1 IN
    /\ stage = "document" /\ passed < Len(declared)
    /\ passed' = i
    /\ paths' = IF ~first_path_occurrence(i) THEN paths
                ELSE Append(paths, [key |-> append_openapi_path(declared[i].path),
                                    operations |-> append_path_operations(i)])
    /\ UNCHANGED <<program, stage, fault, visited, answer, routerVars, grammarVars, componentVars>>

-----------------------------------------------------------------------------
(* dispatch_with_state.                                                    *)

\* A request arrives; match_api starts.
Receive ==
    /\ stage = "document" /\ passed = Len(declared)
    /\ stage' = "route"
    /\ method' \in Method /\ path' \in program.paths
    /\ UNCHANGED <<program, fault, visited, passed, paths, answer, grammarVars, componentVars, api,
                   index, hasPath, best, bestExact, headFallback, explicitOptions, allow, route, outcome>>

MatchRoute ==
    /\ stage = "route" /\ RouterNext
    /\ UNCHANGED <<apiVars, grammarVars, componentVars>>

Respond(a) ==
    /\ stage = "route" /\ stage' = "answered"
    /\ answer' = a
    /\ UNCHANGED <<program, fault, visited, passed, paths, routerVars, grammarVars, componentVars>>

ProblemAnswer(status, headers) ==
    [status |-> status, content |-> "application/problem+json", body |-> "problem", headers |-> headers]

\* adapt_void_response; also the start of the automatic OPTIONS response.
Empty(headers) == [status |-> 204, content |-> "none", body |-> "none", headers |-> headers]

NotFound         == outcome = "not_found" /\ Respond(ProblemAnswer(404, {}))
MethodNotAllowed == outcome = "method_not_allowed" /\ Respond(ProblemAnswer(405, {"Allow"}))
AutomaticOptions == outcome = "automatic_options" /\ Respond(Empty({"Allow"}))

\* The response a HEAD request gets has no body, its other fields stay.
ForMethod(a) == IF method = "head" THEN [a EXCEPT !.body = "none"] ELSE a

\* The statuses of a binding_error by the source of its parameter.
BindingStatus(from) ==
    CASE from = "body"               -> {400, 415, 422}
      [] from \in {"context", "state"} -> {}
      [] OTHER                       -> {422}

\* binding_problem.
RefuseBinding ==
    /\ outcome = "found"
    /\ \E k \in DOMAIN declared[best].params :
          \E status \in BindingStatus(parameter_source(declared[best], api[best].pattern,
                                                       declared[best].params[k])) :
              Respond(ForMethod(ProblemAnswer(status, {})))

Success(status, content, headers) ==
    [status |-> status, content |-> content, body |-> "own", headers |-> headers]

\* Mutant: a text is written as JSON.
adapt_response_TextAsJson(result) ==
    CASE result.form = "void"     -> {Empty({})}
      [] result.form \in {"text", "value"} -> {Success(200, "application/json", {})}
      [] result.form = "bytes"    -> {Success(200, "application/octet-stream", {})}
      [] result.form = "message"  -> {Success(s, "text/plain", {}) : s \in Status}
      [] result.form = "created"  -> {Success(201, "application/json", {"Location"})}
      [] result.form = "response" -> {Success(s, "application/json", {}) : s \in Status}

\* adapt_response of a value; an explicit response chooses its status.
adapt_response(result) ==
    CASE result.form = "void"     -> {Empty({})}
      [] result.form = "text"     -> {Success(200, "text/plain", {})}
      [] result.form = "bytes"    -> {Success(200, "application/octet-stream", {})}
      [] result.form = "message"  -> {Success(s, "text/plain", {}) : s \in Status}
      [] result.form = "created"  -> {Success(201, "application/json", {"Location"})}
      [] result.form = "response" -> {Success(s, "application/json", {}) : s \in Status}
      [] result.form = "value"    -> {Success(200, "application/json", {})}

\* invoke_endpoint when every parameter is bound; domain_error_problem for an error.
Return ==
    /\ outcome = "found"
    /\ \E a \in adapt_response(declared[best].result)
              \cup {ProblemAnswer(declared[best].result.errors[i], {}) :
                       i \in DOMAIN declared[best].result.errors} :
          Respond(ForMethod(a))

\* The endpoint, json::write or set_header throws.
Throw ==
    /\ stage = "route" /\ outcome = "found" /\ stage' = "thrown"
    /\ UNCHANGED <<program, fault, visited, passed, paths, answer, routerVars, grammarVars, componentVars>>

-----------------------------------------------------------------------------

ApiStart ==
    /\ stage = "declare" /\ fault = "none" /\ visited = 0 /\ passed = 0 /\ paths = <<>> /\ answer = NoAnswer
    /\ source = <<>> /\ offset = 2 /\ segments = <<>> /\ error = "none"
    /\ collected = <<>> /\ pending = <<>>
    /\ api = <<>> /\ method = "get" /\ path = <<>>
    /\ index = 1
    /\ hasPath = FALSE /\ best = 0 /\ bestExact = FALSE
    /\ headFallback = FALSE /\ explicitOptions = FALSE
    /\ allow = {} /\ route = <<>>
    /\ outcome = "none"

ApiInit == program \in Program /\ ApiStart

ApiNext ==
    \/ NextEndpoint \/ ParseRoute \/ CompileEndpoint
    \/ CollectTypes \/ CollectEndpoint \/ CollectType \/ CompileApi
    \/ AppendPath
    \/ Receive \/ MatchRoute \/ NotFound \/ MethodNotAllowed \/ AutomaticOptions
    \/ RefuseBinding \/ Return \/ Throw

ApiSpec == ApiInit /\ [][ApiNext]_vars

-----------------------------------------------------------------------------
(* Properties.                                                             *)

\* The document is complete: the endpoints, the components and the paths stay as they are.
Documented == stage = "document" /\ passed = Len(declared)

\* An endpoint that compiled is served with its own captures: every parameter that comes
\* from the path finds exactly one, so it is never reported missing, and no capture of the
\* request is dropped.
CapturesFindParameters ==
    outcome = "found" =>
        LET e == declared[best]
            pattern == api[best].pattern
            FromPath == {k \in DOMAIN e.params : parameter_source(e, pattern, e.params[k]) = "path"}
            Takes(k, i) == wire_name(e.params[k]) = pattern[i].text
        IN  /\ \A k \in FromPath : \E i \in DOMAIN route :
                   \A j \in DOMAIN route : Takes(k, j) <=> j = i
            /\ \A i \in DOMAIN route : \E k \in FromPath :
                   \A l \in FromPath : Takes(l, i) <=> l = k

\* The scan of match_route agrees with the reference of Router on every endpoint, and the
\* captures it returns, put back into the pattern, rebuild the path: no byte of it is lost,
\* none is captured twice, and an empty capture never matches.
MatchIsFilling ==
    stage = "route" /\ outcome # "none" =>
        /\ \A i \in DOMAIN api :
              PathMatches(i) <=>
                  \E v \in Fillings(api[i].pattern, path) : Fill(api[i].pattern, v) = path
        /\ outcome = "found" =>
              LET pattern == api[best].pattern
                  values  == [i \in DOMAIN pattern |->
                                 IF i \in DOMAIN route THEN route[i] ELSE <<pattern[i].text>>]
              IN  Fill(pattern, values) = path

\* Every reference of the document names exactly one component: those of request bodies, of
\* responses and of other components, however the aggregates contain each other.
ReferencesResolve ==
    Documented =>
        \A o \in Object :
            \/ \E i \in DOMAIN declared :
                   \/ declared[i].result.type = o
                   \/ \E k \in Bodies(declared[i], api[i].pattern) : declared[i].params[k].type = o
            \/ \E i \in DOMAIN collected : o \in References(collected[i])
            => \E i \in DOMAIN collected :
                  \A j \in DOMAIN collected : NameOf[collected[j]] = NameOf[o] <=> j = i

\* Every endpoint is documented once, under the text of its own path and its own method, and
\* no other operation has its identifier.
DocumentedOnce ==
    Documented =>
        \A i \in DOMAIN declared :
            LET o == append_operation(declared[i], api[i].pattern) IN
            \E n \in DOMAIN paths :
                /\ paths[n].key = append_openapi_path(declared[i].path)
                /\ o \in paths[n].operations
                /\ \A m \in DOMAIN paths : \A p \in paths[m].operations :
                       p.id = o.id => m = n /\ p = o
                /\ \A p \in paths[n].operations : p.method = o.method => p = o

\* The names in a key: what is between an opening brace and the next closing one.
Placed(key) ==
    {SubSeq(key, p[1] + 1, p[2] - 1) : p \in
        {q \in (DOMAIN key) \X (DOMAIN key) :
            /\ q[1] < q[2] /\ key[q[1]] = "{" /\ key[q[2]] = "}"
            /\ \A k \in (q[1] + 1)..(q[2] - 1) : key[k] # "}"}}

\* OpenAPI asks that the placeholders of a path and the path parameters of every operation
\* under it are the same, once each, and that those are required: a wire name given to a
\* parameter and the star of a catch-all must come out alike in both.
TemplatesMatchParameters ==
    Documented =>
        \A n \in DOMAIN paths : \A o \in paths[n].operations :
            LET parameters == o.parameters
                InPath == {k \in DOMAIN parameters : parameters[k].in = "path"}
            IN  /\ {parameters[k].label : k \in InPath} = Placed(paths[n].key)
                /\ Cardinality(InPath) = Cardinality(Placed(paths[n].key))
                /\ \A k \in InPath : parameters[k].required

\* What the endpoint or its binding answers is in its operation, with its media type; only
\* explicit responses choose what the document cannot know, and it leaves out 400 and 415 of
\* a body's media type and errors mapped to the status of success.
AnswerIsDocumented ==
    stage = "answered" /\ outcome = "found" =>
        LET result    == declared[best].result
            responses == Responses(result)
            Matching  == {i \in DOMAIN responses : responses[i].status = answer.status}
        IN  \/ result.form \in {"message", "response"} /\ answer.content # "application/problem+json"
            \/ Bodies(declared[best], api[best].pattern) # {} /\ answer.status \in {400, 415}
            \/ /\ answer.content = "application/problem+json"
               /\ answer.status = success_status(result)
               /\ \E i \in DOMAIN result.errors : result.errors[i] = answer.status
            \/ \E i \in Matching : Matching = {i} /\ responses[i].content = answer.content

\* A piece of a path template stands for itself; in braces it stands for any text.
FitsPiece(piece, text) ==
    \/ text = piece
    \/ piece # <<>> /\ piece[1] = "{" /\ piece[Len(piece)] = "}" /\ text # <<>>

Slashes(key) == {i \in DOMAIN key : key[i] = "/"}

\* at has the slashes of the key, in their order.
InOrder(at, n, key) ==
    /\ {at[k] : k \in 1..n} = Slashes(key)
    /\ \A j, k \in 1..n : j < k => at[j] < at[k]

\* The piece of the key after the k-th of n slashes.
PieceAfter(key, at, k, n) == SubSeq(key, at[k] + 1, IF k = n THEN Len(key) ELSE at[k + 1] - 1)

\* The key, read as a template, fits the path p: what follows its slashes, one after the
\* other, stands for the segments of p.
Fits(key, p) ==
    /\ p # <<>>
    /\ \E at \in [1..Len(p) -> Slashes(key)] :
          /\ InOrder(at, Len(p), key)
          /\ \A k \in 1..Len(p) : FitsPiece(PieceAfter(key, at, k, Len(p)), p[k])

\* A client that fills in a documented path and uses a documented method is served by that
\* operation or by a more specific one, and what serves a request without a catch-all is
\* documented under a path that fits it.
DocumentedIsServed ==
    stage = "route" /\ outcome # "none" =>
        /\ \A n \in DOMAIN paths : \A o \in paths[n].operations :
              o.method = method /\ Fits(paths[n].key, path) =>
                  /\ outcome = "found" /\ ~headFallback
                  /\ \/ declared[best].id = o.id
                     \/ \E i \in DOMAIN api : /\ declared[i].id = o.id
                                             /\ MoreSpecific(api[best].pattern, api[i].pattern)
        /\ outcome = "found" /\ ~IsCatchAll(api[best].pattern) =>
              \E n \in DOMAIN paths : \E o \in paths[n].operations :
                  /\ Fits(paths[n].key, path)
                  /\ o.id = declared[best].id
                  /\ o.method = IF headFallback THEN "get" ELSE method

\* What docs/security-matrix.md promises when it calls OpenAPI collisions compile-fail cases:
\* the members of "paths" and of "components.schemas" have different keys.
KeysDiffer ==
    Documented =>
        /\ \A m, n \in DOMAIN paths : paths[m].key = paths[n].key => m = n
        /\ \A i \in DOMAIN collected : NameOf[collected[i]] # ProblemComponent

=============================================================================
